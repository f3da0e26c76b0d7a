------------------------- MODULE RideServices_proofs --------------------------
(*****************************************************************************)
(* The services around a searching ride, for any number of requests,         *)
(* drivers, parks, releases, heartbeats and knocks.                          *)
(*                                                                           *)
(* The passenger's slot: a request that owns the slot since it claimed it    *)
(* is the only such request without a row, so nobody else with the slot      *)
(* can save a ride between its database check and its own save; and only a   *)
(* request past its claim owns the slot, which every refusal from there on   *)
(* gives back.                                                               *)
(*                                                                           *)
(* The stale-ride conversation: a prompt that was sent, and a request that   *)
(* was made, are never forgotten by the row, so what a sweep or a handler    *)
(* relied on when it entered terminate is still true when its UPDATE lands,  *)
(* however late.                                                             *)
(*                                                                           *)
(* The park fallback: at most one job is live, or one release looks for      *)
(* the next park, and never both; so a ride still searching that has been    *)
(* given to the parks is in somebody's hands, and the release that finds     *)
(* no park left fails it.                                                    *)
(*                                                                           *)
(* The driver's intent: since a driver went off line, the row every          *)
(* pending beat will read, or has read, is one that beats leave as it is.    *)
(*                                                                           *)
(* The passenger's screen: the rows never move without an event that says    *)
(* so, hence the last telling event under way agrees with them; an answer    *)
(* that was not overtaken is true unless an event behind it tells; and a     *)
(* screen behind which no telling event is under way fits the rows.          *)
(*                                                                           *)
(* The driver's screen: what an event says of a ride is so, or the ride's    *)
(* end is behind it; an event that clears a ride still held is followed by   *)
(* one that brings it back; and a ride held is watched on the screen, or     *)
(* its completion is on the way to the server, or a recovery runs, or an     *)
(* assignment or confirmation is on the way.                                 *)
(*                                                                           *)
(* The coordination card: a question on the card is open at the server, or   *)
(* an event that closes it is under way, or a re-read is; a re-read that     *)
(* was not overtaken is right but for the events behind it; and no event     *)
(* makes the phone forget that the trip goes.                                *)
(*****************************************************************************)
EXTENDS MCRideServices, DispatchRounds_proofs, SequenceTheorems, FiniteSetTheorems,
        TLAPS

-------------------------------------------------------------------------------
(* The stale-ride conversation *)


\* A sweep's verdict had its reason, and terminate let the unanswered request
\* pass only with a prompt on record.
SweepInv ==
    /\ sweep.verdict = "unanswered" => talk.request # "none"
    /\ sweep.verdict = "abandoned" => sawDark
    /\ sweep.at = "flip" => /\ sweep.verdict \in {"unanswered", "abandoned"}
                            /\ sweep.verdict = "unanswered" => talk.asked

\* A handler serves somebody who was asked, or who answers a request.
AnswerInv ==
    \A p \in Parties : answer[p] # "idle" => talk.asked \/ talk.request # "none"

CoordInv ==
    /\ CoordTypeOK
    /\ talk.prompted => talk.asked
    /\ SweepInv
    /\ AnswerInv
    /\ CancelledForCause
    /\ AskedBeforeUnanswered

-------------------------------------------------------------------------------

\* The row's history only grows: asked stays asked, a request stays on record.
LEMMA HistoryKeeps ==
    ASSUME CoordInv, talk' \in Talk,
           talk.asked => talk'.asked, talk.request # "none" => talk'.request # "none",
           talk'.prompted => talk'.asked,
           talk'.phase = talk.phase \/ talk'.phase # "canceled", talk'.cause = talk.cause,
           {late', closed', quiet'} \subseteq BOOLEAN,
           UNCHANGED <<sweep, answer, sawDark>>
    PROVE  CoordInv'
<1>1. CoordTypeOK'
  BY DEF CoordInv, CoordTypeOK
<1>2. SweepInv'
  BY DEF CoordInv, SweepInv
<1>3. AnswerInv'
  BY DEF CoordInv, AnswerInv
<1>4. CancelledForCause' /\ AskedBeforeUnanswered'
  BY DEF CoordInv, CancelledForCause, AskedBeforeUnanswered
<1> QED
  BY <1>1, <1>2, <1>3, <1>4 DEF CoordInv

\* The same for the step of a handler.
LEMMA ServeKeeps ==
    ASSUME CoordInv, talk' \in Talk,
           talk.asked => talk'.asked, talk.request # "none" => talk'.request # "none",
           talk'.prompted => talk'.asked,
           talk'.phase = talk.phase, talk'.cause = talk.cause,
           {late', closed', quiet'} \subseteq BOOLEAN,
           UNCHANGED <<sweep, sawDark>>,
           NEW p \in Parties, NEW from, NEW to \in AnswerPoint, Serve(p, from, to),
           to # "idle" => talk'.asked \/ talk'.request # "none"
    PROVE  CoordInv'
<1>1. /\ answer' \in [Parties -> AnswerPoint]
      /\ answer'[p] = to
      /\ \A q \in Parties : q # p => answer'[q] = answer[q]
  BY DEF Serve, CoordInv, CoordTypeOK
<1>2. CoordTypeOK'
  BY <1>1 DEF CoordInv, CoordTypeOK
<1>3. SweepInv'
  BY DEF CoordInv, SweepInv
<1>4. AnswerInv'
  BY <1>1 DEF CoordInv, AnswerInv
<1>5. CancelledForCause' /\ AskedBeforeUnanswered'
  BY DEF CoordInv, CancelledForCause, AskedBeforeUnanswered
<1> QED
  BY <1>2, <1>3, <1>4, <1>5 DEF CoordInv

-------------------------------------------------------------------------------
(* The sweeper *)

LEMMA VerdictHasReason ==
    ASSUME NEW live, NEW gone
    PROVE  /\ Verdict(live, gone) \in {"none", "prompt", "unanswered", "abandoned"}
           /\ Verdict(live, gone) = "unanswered" => talk.request = "pending"
           /\ Verdict(live, gone) = "abandoned" => Dark(live)
BY DEF Verdict

LEMMA SweepLoadsKeeps ==
    ASSUME CoordInv, SweepLoads
    PROVE  CoordInv'
<1> PICK live \in SUBSET Parties, gone \in BOOLEAN :
      /\ sweep' = [at |-> "loaded", phase |-> talk.phase, verdict |-> Verdict(live, gone)]
      /\ sawDark' = (sawDark \/ Dark(live))
  BY DEF SweepLoads
<1> DEFINE v == Verdict(live, gone)
<1>1. UNCHANGED <<talk, late, closed, quiet, answer>> /\ talk.phase # "canceled"
  BY DEF SweepLoads
<1>2. /\ v \in {"none", "prompt", "unanswered", "abandoned"}
      /\ v = "unanswered" => talk.request = "pending"
      /\ v = "abandoned" => sawDark'
  BY VerdictHasReason
<1>3. sweep'.at = "loaded" /\ sweep'.phase = talk.phase /\ sweep'.verdict = v
  OBVIOUS
<1>4. sweep' \in [at : SweepPoint, phase : Waiting \cup {"in_progress"},
                  verdict : {"none", "prompt", "unanswered", "abandoned"}]
  BY <1>1, <1>2 DEF CoordInv, CoordTypeOK, Talk, SweepPoint
<1>5. sawDark' \in BOOLEAN /\ (sawDark => sawDark')
  BY DEF CoordInv, CoordTypeOK
<1> HIDE DEF v
<1>6. CoordTypeOK'
  BY <1>1, <1>4, <1>5 DEF CoordInv, CoordTypeOK
<1>7. SweepInv'
  BY <1>1, <1>2, <1>3 DEF SweepInv
<1> QED
  BY <1>1, <1>5, <1>6, <1>7
     DEF CoordInv, AnswerInv, CancelledForCause, AskedBeforeUnanswered

LEMMA NoSweepType ==
    /\ NoSweep \in [at : SweepPoint, phase : Waiting \cup {"in_progress"},
                    verdict : {"none", "prompt", "unanswered", "abandoned"}]
    /\ NoSweep.at = "idle" /\ NoSweep.verdict = "none"
BY DEF NoSweep, SweepPoint, Waiting

\* A pass that ends without cancelling leaves nothing behind.
LEMMA SweepEnds ==
    ASSUME CoordInv, sweep' = NoSweep, UNCHANGED <<talk, late, closed, quiet, answer, sawDark>>
    PROVE  CoordInv'
BY NoSweepType
   DEF CoordInv, CoordTypeOK, SweepInv, AnswerInv, CancelledForCause, AskedBeforeUnanswered

LEMMA SweepPromptsKeeps ==
    ASSUME CoordInv, SweepPrompts
    PROVE  CoordInv'
<1> DEFINE new == [talk EXCEPT !.prompted = TRUE, !.asked = TRUE, !.choice = "none"]
<1>1. /\ sweep' = NoSweep
      /\ UNCHANGED <<late, closed, quiet, answer, sawDark>>
      /\ talk' = new \/ talk' = talk
  BY DEF SweepPrompts
<1>2. CASE talk' = talk
  BY <1>1, <1>2, SweepEnds
<1>3. CASE talk' = new
  <2>1. /\ new \in Talk /\ new.asked
        /\ new.phase = talk.phase /\ new.request = talk.request /\ new.cause = talk.cause
    BY DEF CoordInv, CoordTypeOK, Talk
  <2> HIDE DEF new
  <2>2. CoordTypeOK'
    BY <1>1, <1>3, <2>1, NoSweepType DEF CoordInv, CoordTypeOK
  <2>3. SweepInv' /\ AnswerInv'
    BY <1>1, <1>3, <2>1, NoSweepType DEF CoordInv, SweepInv, AnswerInv
  <2>4. CancelledForCause' /\ AskedBeforeUnanswered'
    BY <1>1, <1>3, <2>1 DEF CoordInv, CancelledForCause, AskedBeforeUnanswered
  <2> QED
    BY <1>3, <2>1, <2>2, <2>3, <2>4 DEF CoordInv
<1> QED
  BY <1>1, <1>2, <1>3

LEMMA SweepTerminatesKeeps ==
    ASSUME CoordInv, SweepTerminates
    PROVE  CoordInv'
<1>1. /\ sweep.verdict \in {"unanswered", "abandoned"}
      /\ UNCHANGED <<talk, late, closed, quiet, answer, sawDark>>
  BY DEF SweepTerminates
<1>2. CASE sweep' = NoSweep
  BY <1>1, <1>2, SweepEnds
<1>3. CASE /\ sweep' = [sweep EXCEPT !.at = "flip"]
           /\ talk.prompted \/ sweep.verdict = "abandoned"
  <2>1. /\ sweep' \in [at : SweepPoint, phase : Waiting \cup {"in_progress"},
                       verdict : {"none", "prompt", "unanswered", "abandoned"}]
        /\ sweep'.verdict = sweep.verdict
    BY <1>3 DEF CoordInv, CoordTypeOK, SweepPoint
  <2>2. CoordTypeOK'
    BY <1>1, <2>1 DEF CoordInv, CoordTypeOK
  <2>3. SweepInv'
    BY <1>1, <1>3, <2>1 DEF CoordInv, SweepInv
  <2> QED
    BY <1>1, <2>2, <2>3 DEF CoordInv, AnswerInv, CancelledForCause, AskedBeforeUnanswered
<1> QED
  BY <1>2, <1>3 DEF SweepTerminates

LEMMA SweepCancelsKeeps ==
    ASSUME CoordInv, SweepCancels
    PROVE  CoordInv'
<1> DEFINE new == [talk EXCEPT !.phase = "canceled", !.cause = sweep.verdict]
<1>1. /\ sweep.at = "flip" /\ sweep' = NoSweep
      /\ UNCHANGED <<late, closed, quiet, answer, sawDark>>
      /\ talk' = new \/ talk' = talk
  BY DEF SweepCancels
<1>2. CASE talk' = talk
  BY <1>1, <1>2, SweepEnds
<1>3. CASE talk' = new
  <2>1. sweep.verdict \in {"unanswered", "abandoned"}
    BY <1>1 DEF CoordInv, SweepInv
  <2>2. /\ new \in Talk /\ new.prompted = talk.prompted /\ new.asked = talk.asked
        /\ new.request = talk.request /\ new.cause = sweep.verdict
    BY <2>1 DEF CoordInv, CoordTypeOK, Talk
  <2> HIDE DEF new
  <2>3. CoordTypeOK'
    BY <1>1, <1>3, <2>2, NoSweepType DEF CoordInv, CoordTypeOK
  <2>4. SweepInv' /\ AnswerInv'
    BY <1>1, <1>3, <2>2, NoSweepType DEF CoordInv, SweepInv, AnswerInv
  <2>5. CancelledForCause' /\ AskedBeforeUnanswered'
    BY <1>1, <1>3, <2>1, <2>2 DEF CoordInv, SweepInv, CancelledForCause, AskedBeforeUnanswered
  <2> QED
    BY <1>3, <2>2, <2>3, <2>4, <2>5 DEF CoordInv
<1> QED
  BY <1>1, <1>2, <1>3

-------------------------------------------------------------------------------
(* The parties *)

LEMMA DecideKeeps ==
    ASSUME CoordInv, NEW p \in Parties, NEW choice \in {"wait", "cancel"}, Decide(p, choice)
    PROVE  CoordInv'
BY ServeKeeps DEF Decide, AnswerPoint, CoordInv, CoordTypeOK

LEMMA ClaimKeeps ==
    ASSUME CoordInv, NEW p \in Parties, ClaimWait(p) \/ ClaimCancel(p)
    PROVE  CoordInv'
<1>1. /\ answer[p] \in {"wait", "cancel"}
      /\ \E from, to \in {"idle", "wait", "cancel", "extend", "terminate_prompted"} : Serve(p, from, to)
      /\ \E choice \in {"wait", "cancel"} : talk' \in {talk, [talk EXCEPT !.choice = choice]}
      /\ UNCHANGED <<late, closed, quiet, sweep, sawDark>>
  BY DEF ClaimWait, ClaimCancel, Serve
<1>2. /\ talk' \in Talk /\ talk'.prompted = talk.prompted /\ talk'.asked = talk.asked
      /\ talk'.request = talk.request /\ talk'.phase = talk.phase /\ talk'.cause = talk.cause
  BY <1>1 DEF CoordInv, CoordTypeOK, Talk
<1>3. talk.asked \/ talk.request # "none"
  BY <1>1 DEF CoordInv, AnswerInv
<1> QED
  BY <1>1, <1>2, <1>3, ServeKeeps DEF AnswerPoint, CoordInv, CoordTypeOK

LEMMA ExtendKeeps ==
    ASSUME CoordInv, NEW p \in Parties, Extend(p)
    PROVE  CoordInv'
<1>1. /\ Serve(p, "extend", "idle")
      /\ \/ /\ talk.extensions < MaxExtensions
            /\ talk' = [talk EXCEPT !.extensions = @ + 1, !.prompted = FALSE]
         \/ talk' = talk
      /\ late' \in BOOLEAN
      /\ UNCHANGED <<closed, quiet, sweep, sawDark>>
  BY DEF Extend, CoordInv, CoordTypeOK
<1>2. /\ talk' \in Talk /\ talk'.asked = talk.asked /\ (talk'.prompted => talk'.asked)
      /\ talk'.request = talk.request /\ talk'.phase = talk.phase /\ talk'.cause = talk.cause
  <2>1. CASE talk' = talk
    BY <2>1 DEF CoordInv, CoordTypeOK
  <2>2. CASE /\ talk.extensions < MaxExtensions
             /\ talk' = [talk EXCEPT !.extensions = @ + 1, !.prompted = FALSE]
    <3>1. talk.extensions + 1 \in 0..MaxExtensions
      BY <2>2, MaxExtensionsAssumption DEF CoordInv, CoordTypeOK, Talk
    <3>2. talk' = [talk EXCEPT !.extensions = talk.extensions + 1, !.prompted = FALSE]
      BY <2>2
    <3> QED
      BY <3>1, <3>2 DEF CoordInv, CoordTypeOK, Talk
  <2> QED
    BY <1>1, <2>1, <2>2
<1> QED
  BY <1>1, <1>2, ServeKeeps DEF AnswerPoint, CoordInv, CoordTypeOK

LEMMA RespondKeeps ==
    ASSUME CoordInv, NEW p \in Parties, NEW decision \in {"accept", "decline"},
           Respond(p, decision)
    PROVE  CoordInv'
BY ServeKeeps DEF Respond, AnswerPoint, CoordInv, CoordTypeOK

LEMMA AcceptRequestKeeps ==
    ASSUME CoordInv, NEW p \in Parties, AcceptRequest(p)
    PROVE  CoordInv'
<1>1. /\ talk' \in Talk /\ talk'.prompted = talk.prompted /\ talk'.asked = talk.asked
      /\ talk'.request = "accepted" /\ talk'.phase = talk.phase /\ talk'.cause = talk.cause
  BY DEF AcceptRequest, CoordInv, CoordTypeOK, Talk
<1> QED
  BY <1>1, ServeKeeps DEF AcceptRequest, AnswerPoint, CoordInv, CoordTypeOK

LEMMA DeclineRequestKeeps ==
    ASSUME CoordInv, NEW p \in Parties, DeclineRequest(p)
    PROVE  CoordInv'
<1>1. talk' \in {talk, [talk EXCEPT !.request = "declined", !.choice = "wait"]}
  BY DEF DeclineRequest
<1>2. /\ talk' \in Talk /\ talk'.prompted = talk.prompted /\ talk'.asked = talk.asked
      /\ talk'.request \in {talk.request, "declined"}
      /\ talk'.phase = talk.phase /\ talk'.cause = talk.cause
  BY <1>1 DEF CoordInv, CoordTypeOK, Talk
<1>3. quiet' \in BOOLEAN
  BY DEF DeclineRequest
<1> QED
  BY <1>2, <1>3, ServeKeeps DEF DeclineRequest, AnswerPoint, CoordInv, CoordTypeOK

LEMMA PartyTerminatesKeeps ==
    ASSUME CoordInv, NEW p \in Parties, PartyTerminates(p)
    PROVE  CoordInv'
<1>1. /\ \E from \in {"terminate_prompted", "terminate"}, to \in {"flip", "idle"} : Serve(p, from, to)
      /\ UNCHANGED <<talk, late, closed, quiet, sweep, sawDark>>
  BY DEF PartyTerminates
<1>2. talk.asked \/ talk.request # "none"
  BY <1>1 DEF Serve, CoordInv, AnswerInv
<1> QED
  BY <1>1, <1>2, ServeKeeps DEF AnswerPoint, CoordInv, CoordTypeOK

LEMMA PartyCancelsKeeps ==
    ASSUME CoordInv, NEW p \in Parties, PartyCancels(p)
    PROVE  CoordInv'
<1> DEFINE new == [talk EXCEPT !.phase = "canceled", !.cause = "agreement"]
<1>1. /\ Serve(p, "flip", "idle")
      /\ UNCHANGED <<late, closed, quiet, sweep, sawDark>>
      /\ talk' = new \/ talk' = talk
  BY DEF PartyCancels
<1>2. CASE talk' = talk
  BY <1>1, <1>2, ServeKeeps DEF AnswerPoint, CoordInv, CoordTypeOK
<1>3. CASE talk' = new
  <2>1. /\ new \in Talk /\ new.prompted = talk.prompted /\ new.asked = talk.asked
        /\ new.request = talk.request /\ new.cause = "agreement"
    BY DEF CoordInv, CoordTypeOK, Talk
  <2>2. talk.asked \/ talk.request # "none"
    BY <1>1 DEF Serve, CoordInv, AnswerInv
  <2> HIDE DEF new
  <2>3. CoordTypeOK' /\ (\A q \in Parties : answer'[q] # "idle" => answer[q] # "idle")
    BY <1>1, <1>3, <2>1 DEF Serve, AnswerPoint, CoordInv, CoordTypeOK
  <2>4. SweepInv' /\ AnswerInv'
    BY <1>1, <1>3, <2>1, <2>3 DEF CoordInv, SweepInv, AnswerInv
  <2>5. CancelledForCause' /\ AskedBeforeUnanswered'
    BY <1>1, <1>3, <2>1, <2>2 DEF CancelledForCause, AskedBeforeUnanswered
  <2> QED
    BY <1>3, <2>1, <2>3, <2>4, <2>5 DEF CoordInv
<1> QED
  BY <1>1, <1>2, <1>3

LEMMA AskToCancelKeeps ==
    ASSUME CoordInv, NEW p \in Parties, AskToCancel(p)
    PROVE  CoordInv'
<1>1. /\ talk' \in Talk /\ talk'.prompted = talk.prompted /\ talk'.asked = talk.asked
      /\ talk'.request = "pending" /\ talk'.phase = talk.phase /\ talk'.cause = talk.cause
  BY DEF AskToCancel, CoordInv, CoordTypeOK, Talk
<1> QED
  BY <1>1, HistoryKeeps DEF AskToCancel, CoordInv, CoordTypeOK

LEMMA StillComingKeeps ==
    ASSUME CoordInv, StillComing
    PROVE  CoordInv'
<1>1. /\ talk' \in Talk /\ talk'.prompted = talk.prompted /\ talk'.asked = talk.asked
      /\ talk'.request = talk.request /\ talk'.phase = talk.phase /\ talk'.cause = talk.cause
  BY MaxExtensionsAssumption DEF StillComing, CoordInv, CoordTypeOK, Talk
<1> QED
  BY <1>1, HistoryKeeps DEF StillComing, CoordInv, CoordTypeOK

LEMMA ProgressKeeps ==
    ASSUME CoordInv, Progress
    PROVE  CoordInv'
<1>1. \E phase \in {"arrived", "in_progress"} : talk' = [talk EXCEPT !.phase = phase]
  BY DEF Progress
<1>2. /\ talk' \in Talk /\ talk'.prompted = talk.prompted /\ talk'.asked = talk.asked
      /\ talk'.request = talk.request /\ talk'.phase # "canceled" /\ talk'.cause = talk.cause
  BY <1>1 DEF CoordInv, CoordTypeOK, Talk, Waiting
<1>3. late' \in BOOLEAN
  BY DEF Progress, CoordInv, CoordTypeOK
<1> QED
  BY <1>2, <1>3, HistoryKeeps DEF Progress, CoordInv, CoordTypeOK

-------------------------------------------------------------------------------

LEMMA CoordInvInit == CoordInit => CoordInv
<1> SUFFICES ASSUME CoordInit
             PROVE  CoordInv
  OBVIOUS
<1>1. /\ talk \in Talk /\ ~talk.prompted /\ talk.phase = "accepted" /\ talk.cause = "none"
  BY MaxExtensionsAssumption DEF CoordInit, Talk, Waiting
<1>2. CoordTypeOK
  BY <1>1, NoSweepType DEF CoordInit, CoordTypeOK, AnswerPoint
<1>3. SweepInv /\ AnswerInv
  BY NoSweepType DEF CoordInit, SweepInv, AnswerInv
<1> QED
  BY <1>1, <1>2, <1>3 DEF CoordInv, CancelledForCause, AskedBeforeUnanswered

LEMMA CoordInvStep == CoordInv /\ [CoordNext]_coordVars => CoordInv'
<1> SUFFICES ASSUME CoordInv, [CoordNext]_coordVars
             PROVE  CoordInv'
  OBVIOUS
<1>1. CASE DeadlinePasses \/ RequestWindowCloses \/ FallQuiet \/ Activity
  BY <1>1, HistoryKeeps DEF DeadlinePasses, RequestWindowCloses, FallQuiet, Activity,
                            CoordInv, CoordTypeOK
<1>2. CASE UNCHANGED coordVars
  BY <1>2, HistoryKeeps DEF coordVars, CoordInv, CoordTypeOK
<1>3. CASE SweepSkips
  BY <1>3, SweepEnds DEF SweepSkips
<1> QED
  BY <1>1, <1>2, <1>3, SweepLoadsKeeps, SweepPromptsKeeps, SweepTerminatesKeeps,
     SweepCancelsKeeps, DecideKeeps, ClaimKeeps, ExtendKeeps, RespondKeeps,
     AcceptRequestKeeps, DeclineRequestKeeps, PartyTerminatesKeeps, PartyCancelsKeeps,
     AskToCancelKeeps, StillComingKeeps, ProgressKeeps
     DEF CoordNext, SweepStep, PartyStep

\* The row's coordination columns, the sweep and the handlers keep their
\* types: no path extends the deadline past the limit.
THEOREM CoordTypes == CoordSpec => []CoordTypeOK
<1>1. CoordInv => CoordTypeOK
  BY DEF CoordInv
<1> QED
  BY <1>1, CoordInvInit, CoordInvStep, PTL DEF CoordSpec

\* Silence alone never cancels a ride (StaleRideService.evaluate, terminate).
THEOREM Cause == CoordSpec => []CancelledForCause
<1>1. CoordInv => CancelledForCause
  BY DEF CoordInv
<1> QED
  BY <1>1, CoordInvInit, CoordInvStep, PTL DEF CoordSpec

\* A request that went unanswered ends the ride only once both parties were
\* asked (terminate's requireDecisionPrompt).
THEOREM NoSilentCancellation == CoordSpec => []AskedBeforeUnanswered
<1>1. CoordInv => AskedBeforeUnanswered
  BY DEF CoordInv
<1> QED
  BY <1>1, CoordInvInit, CoordInvStep, PTL DEF CoordSpec

-------------------------------------------------------------------------------
(* The passenger's active-ride slot *)

\* A request has a row only when its handler is done.
RowsInv == \A r \in Requests : rideRow[r] # "none" => asked[r] = "done"

\* A guarded request without a row holds the slot; past the check, no guarded
\* ride is live.
GuardInv ==
    \A r \in guarded : rideRow[r] = "none" =>
       /\ slot = r
       /\ asked[r] \in {"zone", "save"} => \A q \in guarded : rideRow[q] # "live"

\* Who holds the slot is past its claim.
HolderInv ==
    \A r \in Requests :
       asked[r] \in {"new", "owner", "judge", "evict", "reclaim"} => slot # r

SlotInv ==
    /\ SlotTypeOK
    /\ RowsInv
    /\ GuardInv
    /\ HolderInv
    /\ GuardedRideAlone
    /\ NoOrphanSlot

-------------------------------------------------------------------------------
(* The helpers *)

LEMMA AskGoesEffect ==
    ASSUME SlotTypeOK, NEW r \in Requests, NEW from, NEW to \in AskPoint,
           AskGoes(r, from, to)
    PROVE  /\ asked[r] = from
           /\ asked' \in [Requests -> AskPoint]
           /\ asked'[r] = to
           /\ \A q \in Requests : q # r => asked'[q] = asked[q]
BY DEF AskGoes, SlotTypeOK

\* Dropping the slot: no guarded request is left without a row.
LEMMA DropEffect ==
    ASSUME SlotInv, DropSlot
    PROVE  /\ slot' = NoRequest
           /\ slotOld' = FALSE
           /\ guarded' \subseteq guarded
           /\ \A r \in guarded' : rideRow[r] # "none"
BY DEF DropSlot, SlotInv, GuardInv

\* A request without a row claims: it owns a slot that was free, and nothing
\* else changes.
LEMMA AcquireEffect ==
    ASSUME SlotInv, NEW r \in Requests, AcquireSlot(r)
    PROVE  \/ /\ slot = NoRequest
              /\ slot' = r /\ slotOld' = FALSE
              /\ guarded' = guarded \cup {r}
              /\ \A q \in guarded : rideRow[q] # "none"
           \/ /\ slot # NoRequest
              /\ UNCHANGED <<slot, slotOld, guarded>>
<1>1. slotOld \in BOOLEAN
  BY DEF SlotInv, SlotTypeOK
<1>2. CASE slot = NoRequest
  <2>1. \A q \in guarded : rideRow[q] # "none"
    BY <1>2, RequestsAssumption DEF SlotInv, SlotTypeOK, GuardInv
  <2> QED
    BY <1>2, <2>1 DEF AcquireSlot
<1>3. CASE slot # NoRequest
  BY <1>1, <1>3 DEF AcquireSlot
<1> QED
  BY <1>2, <1>3

-------------------------------------------------------------------------------
(* ride:request *)

LEMMA ClaimsKeep ==
    ASSUME SlotInv, NEW r \in Requests, Claim(r) \/ Reclaim(r)
    PROVE  SlotInv'
<1>1. /\ asked[r] \in {"new", "reclaim"}
      /\ asked' \in [Requests -> AskPoint]
      /\ asked'[r] = IF asked[r] = "reclaim" \/ slot = NoRequest THEN "check" ELSE "owner"
      /\ \A q \in Requests : q # r => asked'[q] = asked[q]
  BY AskGoesEffect DEF Claim, Reclaim, AskPoint, SlotInv
<1>2. UNCHANGED <<seen, rideRow, crashed>> /\ AcquireSlot(r)
  BY DEF Claim, Reclaim
<1>3. rideRow[r] = "none" /\ slot # r
  BY <1>1 DEF SlotInv, RowsInv, HolderInv
<1>4. CASE /\ slot = NoRequest
           /\ slot' = r /\ slotOld' = FALSE
           /\ guarded' = guarded \cup {r}
           /\ \A q \in guarded : rideRow[q] # "none"
  BY <1>1, <1>2, <1>3, <1>4, RequestsAssumption
     DEF SlotInv, SlotTypeOK, RowsInv, GuardInv, HolderInv, GuardedRideAlone, NoOrphanSlot
<1>5. CASE slot # NoRequest /\ UNCHANGED <<slot, slotOld, guarded>>
  BY <1>1, <1>2, <1>3, <1>5
     DEF SlotInv, SlotTypeOK, RowsInv, GuardInv, HolderInv, GuardedRideAlone, NoOrphanSlot
<1> QED
  BY <1>2, <1>4, <1>5, AcquireEffect

\* The steps that read the slot's owner and judge it.
LEMMA LookingKeeps ==
    ASSUME SlotInv, NEW r \in Requests, ReadOwner(r) \/ Judge(r)
    PROVE  SlotInv'
<1> DEFINE verdict == CASE rideRow[seen[r]] = "live" -> "done"
                        [] rideRow[seen[r]] = "none" /\ ~slotOld -> "done"
                        [] OTHER -> "evict"
<1>1. verdict \in AskPoint /\ verdict \in {"done", "evict"}
  BY DEF AskPoint
<1>2. /\ asked[r] \in {"owner", "judge"}
      /\ asked' \in [Requests -> AskPoint]
      /\ asked'[r] \in {"check", "judge", "done", "evict"}
      /\ \A q \in Requests : q # r => asked'[q] = asked[q]
      /\ asked'[r] # "done" \/ asked[r] = "judge"
  <2>1. CASE ReadOwner(r)
    BY <2>1, AskGoesEffect DEF ReadOwner, AskPoint, SlotInv
  <2>2. CASE Judge(r)
    <3>1. AskGoes(r, "judge", verdict)
      BY <2>2 DEF Judge
    <3> HIDE DEF verdict
    <3> QED
      BY <1>1, <3>1, AskGoesEffect DEF SlotInv
  <2> QED
    BY <2>1, <2>2
<1>3. UNCHANGED <<slot, slotOld, rideRow, guarded, crashed>>
  BY DEF ReadOwner, Judge
<1>4. seen' \in [Requests -> Requests \cup {NoRequest}]
  BY DEF ReadOwner, Judge, SlotInv, SlotTypeOK
<1>5. rideRow[r] = "none" /\ slot # r /\ r \notin guarded
  BY <1>2 DEF SlotInv, RowsInv, GuardInv, HolderInv
<1> QED
  BY <1>2, <1>3, <1>4, <1>5
     DEF SlotInv, SlotTypeOK, RowsInv, GuardInv, HolderInv, GuardedRideAlone, NoOrphanSlot

LEMMA EvictKeeps ==
    ASSUME SlotInv, NEW r \in Requests, Evict(r)
    PROVE  SlotInv'
<1>1. /\ asked[r] = "evict"
      /\ asked' \in [Requests -> AskPoint]
      /\ asked'[r] = "reclaim"
      /\ \A q \in Requests : q # r => asked'[q] = asked[q]
  BY AskGoesEffect DEF Evict, AskPoint, SlotInv
<1>2. UNCHANGED <<seen, rideRow, crashed>> /\ DropSlot
  BY DEF Evict
<1> QED
  BY <1>1, <1>2, DropEffect, RequestsAssumption
     DEF SlotInv, SlotTypeOK, RowsInv, GuardInv, HolderInv, GuardedRideAlone, NoOrphanSlot

LEMMA ChecksKeep ==
    ASSUME SlotInv, NEW r \in Requests, NEW ok \in BOOLEAN,
           DbCheck(r, ok) \/ ZoneGate(r, ok)
    PROVE  SlotInv'
<1>1. /\ asked[r] \in {"check", "zone"}
      /\ asked' \in [Requests -> AskPoint]
      /\ asked'[r] \in {"refuse", "zone", "save"}
      /\ \A q \in Requests : q # r => asked'[q] = asked[q]
  BY AskGoesEffect DEF DbCheck, ZoneGate, AskPoint, SlotInv
<1>2. UNCHANGED <<slot, slotOld, seen, rideRow, crashed>>
  BY DEF DbCheck, ZoneGate
<1>3. guarded' \subseteq guarded
  BY DEF DbCheck, ZoneGate
<1>4. rideRow[r] = "none"
  BY <1>1 DEF SlotInv, RowsInv
<1>5. r \in guarded' /\ asked'[r] \in {"zone", "save"} =>
        \A q \in guarded : rideRow[q] # "live"
  <2>1. CASE DbCheck(r, ok)
    <3>1. r \in guarded' => ok
      BY <2>1 DEF DbCheck
    <3>2. ok /\ asked'[r] # "refuse" => LiveRows = {}
      BY <2>1, <1>1 DEF DbCheck, AskGoes, SlotInv, SlotTypeOK
    <3> QED
      BY <3>1, <3>2, <1>3 DEF LiveRows, SlotInv, SlotTypeOK
  <2>2. CASE ZoneGate(r, ok)
    <3>1. asked[r] = "zone" /\ guarded' = guarded
      BY <2>2 DEF ZoneGate, AskGoes
    <3> QED
      BY <3>1, <1>4 DEF SlotInv, GuardInv
  <2> QED
    BY <2>1, <2>2
<1>6. GuardInv'
  BY <1>1, <1>2, <1>3, <1>5 DEF SlotInv, SlotTypeOK, GuardInv
<1>7. NoOrphanSlot'
  BY <1>1, <1>2 DEF SlotInv, SlotTypeOK, NoOrphanSlot
<1> QED
  BY <1>1, <1>2, <1>3, <1>4, <1>6, <1>7
     DEF SlotInv, SlotTypeOK, RowsInv, HolderInv, GuardedRideAlone

LEMMA SaveKeeps ==
    ASSUME SlotInv, NEW r \in Requests, NEW ok \in BOOLEAN, Save(r, ok)
    PROVE  SlotInv'
<1>1. /\ asked[r] = "save"
      /\ asked' \in [Requests -> AskPoint]
      /\ asked'[r] = IF ok THEN "done" ELSE "refuse"
      /\ \A q \in Requests : q # r => asked'[q] = asked[q]
  BY AskGoesEffect DEF Save, AskPoint, SlotInv
<1>2. UNCHANGED <<slot, slotOld, seen, guarded, crashed>>
  BY DEF Save
<1>3. rideRow[r] = "none"
  BY <1>1 DEF SlotInv, RowsInv
<1>4. CASE ~ok
  <2>1. rideRow' = rideRow
    BY <1>4 DEF Save
  <2> QED
    BY <1>1, <1>2, <1>3, <1>4, <2>1
       DEF SlotInv, SlotTypeOK, RowsInv, GuardInv, HolderInv, GuardedRideAlone, NoOrphanSlot
<1>5. CASE ok
  <2>1. /\ rideRow' \in [Requests -> {"none", "live", "ending", "ended"}]
        /\ rideRow'[r] = "live"
        /\ \A q \in Requests : q # r => rideRow'[q] = rideRow[q]
    BY <1>5 DEF Save, SlotInv, SlotTypeOK
  <2>2. \A q \in guarded : q # r /\ rideRow[q] = "live" => r \notin guarded
    BY <1>1, <1>3 DEF SlotInv, GuardInv
  <2>3. GuardedRideAlone'
    BY <1>2, <2>1, <2>2 DEF SlotInv, SlotTypeOK, GuardedRideAlone
  <2>4. \A q \in guarded : q # r /\ rideRow[q] = "none" => r \notin guarded
    BY <1>3 DEF SlotInv, GuardInv
  <2>5. GuardInv'
    BY <1>1, <1>2, <2>1, <2>4 DEF SlotInv, SlotTypeOK, GuardInv
  <2> QED
    BY <1>1, <1>2, <1>5, <2>1, <2>3, <2>5
       DEF SlotInv, SlotTypeOK, RowsInv, HolderInv, NoOrphanSlot
<1> QED
  BY <1>4, <1>5

\* A slot released for r is not r's afterwards, and what r's guard was worth
\* goes with it.
LEMMA SlotReleaseEffect ==
    ASSUME SlotInv, NEW r \in Requests, ReleaseSlot(r)
    PROVE  /\ slot' # r
           /\ slot' \in {slot, NoRequest}
           /\ slotOld' \in BOOLEAN
           /\ guarded' \subseteq guarded
           /\ slot' # slot => \A q \in guarded' : rideRow[q] # "none"
BY DropEffect, RequestsAssumption DEF ReleaseSlot, SlotInv, SlotTypeOK

LEMMA RefuseKeeps ==
    ASSUME SlotInv, NEW r \in Requests, Refuse(r)
    PROVE  SlotInv'
<1>1. /\ asked[r] = "refuse"
      /\ asked' \in [Requests -> AskPoint]
      /\ asked'[r] = "done"
      /\ \A q \in Requests : q # r => asked'[q] = asked[q]
  BY AskGoesEffect DEF Refuse, AskPoint, SlotInv
<1>2. UNCHANGED <<seen, rideRow, crashed>> /\ ReleaseSlot(r)
  BY DEF Refuse
<1> QED
  BY <1>1, <1>2, SlotReleaseEffect, RequestsAssumption
     DEF SlotInv, SlotTypeOK, RowsInv, GuardInv, HolderInv, GuardedRideAlone, NoOrphanSlot

-------------------------------------------------------------------------------
(* The rest of the slot's life *)

LEMMA DropsKeep ==
    ASSUME SlotInv, DropSlot, UNCHANGED <<asked, seen, rideRow, crashed>>
    PROVE  SlotInv'
BY DropEffect, RequestsAssumption
   DEF SlotInv, SlotTypeOK, RowsInv, GuardInv, HolderInv, GuardedRideAlone, NoOrphanSlot

LEMMA RideEndsKeeps ==
    ASSUME SlotInv, NEW r \in Requests, RideEnds(r)
    PROVE  SlotInv'
<1>1. /\ rideRow[r] = "live"
      /\ rideRow' \in [Requests -> {"none", "live", "ending", "ended"}]
      /\ rideRow'[r] = "ending"
      /\ \A q \in Requests : q # r => rideRow'[q] = rideRow[q]
  BY DEF RideEnds, SlotInv, SlotTypeOK
<1>2. UNCHANGED <<slot, slotOld, asked, seen, guarded, crashed>>
  BY DEF RideEnds
<1> QED
  BY <1>1, <1>2
     DEF SlotInv, SlotTypeOK, RowsInv, GuardInv, HolderInv, GuardedRideAlone, NoOrphanSlot

LEMMA EndReleasesKeeps ==
    ASSUME SlotInv, NEW r \in Requests, EndReleases(r)
    PROVE  SlotInv'
<1>1. /\ rideRow[r] = "ending"
      /\ rideRow' \in [Requests -> {"none", "live", "ending", "ended"}]
      /\ rideRow'[r] = "ended"
      /\ \A q \in Requests : q # r => rideRow'[q] = rideRow[q]
  BY DEF EndReleases, SlotInv, SlotTypeOK
<1>2. UNCHANGED <<asked, seen, crashed>> /\ ReleaseSlot(r)
  BY DEF EndReleases
<1> QED
  BY <1>1, <1>2, SlotReleaseEffect, RequestsAssumption
     DEF SlotInv, SlotTypeOK, RowsInv, GuardInv, HolderInv, GuardedRideAlone, NoOrphanSlot

LEMMA ServerDiesKeeps ==
    ASSUME SlotInv, ServerDies
    PROVE  SlotInv'
<1>1. /\ asked' = [r \in Requests |-> IF asked[r] = "new" THEN "new" ELSE "done"]
      /\ rideRow' = [r \in Requests |->
                        IF rideRow[r] = "ending" THEN "ended" ELSE rideRow[r]]
      /\ crashed' = TRUE
      /\ UNCHANGED <<slot, slotOld, seen, guarded>>
  BY DEF ServerDies
<1>2. SlotTypeOK'
  BY <1>1 DEF SlotInv, SlotTypeOK, AskPoint
<1>3. \A r \in Requests : /\ rideRow'[r] = "none" <=> rideRow[r] = "none"
                          /\ rideRow'[r] = "live" <=> rideRow[r] = "live"
                          /\ asked'[r] = IF asked[r] = "new" THEN "new" ELSE "done"
  BY <1>1 DEF SlotInv, SlotTypeOK
<1> QED
  BY <1>1, <1>2, <1>3
     DEF SlotInv, SlotTypeOK, RowsInv, GuardInv, HolderInv, GuardedRideAlone, NoOrphanSlot

-------------------------------------------------------------------------------

LEMMA SlotInvInit == SlotInit => SlotInv
BY RequestsAssumption
   DEF SlotInit, SlotInv, SlotTypeOK, AskPoint, RowsInv, GuardInv,
       HolderInv, GuardedRideAlone, NoOrphanSlot

LEMMA SlotInvStep == SlotInv /\ [SlotNext]_slotVars => SlotInv'
<1> SUFFICES ASSUME SlotInv, [SlotNext]_slotVars
             PROVE  SlotInv'
  OBVIOUS
<1>1. ASSUME NEW r \in Requests, CompletionReleases(r)
      PROVE  SlotInv'
  BY <1>1, DropsKeep DEF CompletionReleases
<1>2. CASE SlotAges
  BY <1>2 DEF SlotAges, SlotInv, SlotTypeOK, RowsInv, GuardInv, HolderInv,
              GuardedRideAlone, NoOrphanSlot
<1>3. CASE SlotExpires
  BY <1>3, DropsKeep DEF SlotExpires
<1>4. CASE UNCHANGED slotVars
  BY <1>4 DEF slotVars, SlotInv, SlotTypeOK, RowsInv, GuardInv, HolderInv,
              GuardedRideAlone, NoOrphanSlot
<1> QED
  BY <1>1, <1>2, <1>3, <1>4, ClaimsKeep, LookingKeeps, EvictKeeps, ChecksKeep,
     SaveKeeps, RefuseKeeps, RideEndsKeeps, EndReleasesKeeps, ServerDiesKeeps
     DEF SlotNext

\* The slot, its age, the handlers and the rows keep their types, for any
\* number of requests (ride:request).
THEOREM SlotTypes == SlotSpec => []SlotTypeOK
<1>1. SlotInv => SlotTypeOK
  BY DEF SlotInv
<1> QED
  BY <1>1, SlotInvInit, SlotInvStep, PTL DEF SlotSpec

\* Of two live rides of one passenger, one was saved without the slot or
\* without an answer of the database check (ride:request).
THEOREM OneGuardedRide == SlotSpec => []GuardedRideAlone
<1>1. SlotInv => GuardedRideAlone
  BY DEF SlotInv
<1> QED
  BY <1>1, SlotInvInit, SlotInvStep, PTL DEF SlotSpec

\* Unless the process died with a request in flight, a slot belongs to a
\* request in flight or to a ride that exists, so no refusal locks the
\* passenger out (ride:request, releasePassengerActiveRide).
THEOREM NobodyLockedOut == SlotSpec => []NoOrphanSlot
<1>1. SlotInv => NoOrphanSlot
  BY DEF SlotInv
<1> QED
  BY <1>1, SlotInvInit, SlotInvStep, PTL DEF SlotSpec

-------------------------------------------------------------------------------
(* The park fallback *)

\* Where a release looks for the next park; past it, the job it saved is being
\* undone, or the ride failed.
Looking == {"audit", "ride", "live", "tried", "save"}

\* Who took the ride finds it taken when it books the job, and what the parks
\* are told about is over.
RideGone ==
    /\ verbal.at = "mark" => parkRide # "searching"
    /\ accepting.at = "books" => parkRide # "searching"
    /\ voiding => parkRide # "searching"

\* A job in flight is one of the ride's jobs.
KnownJobs ==
    /\ verbal.at # "idle" => verbal.job \in DOMAIN jobs
    /\ \A n \in DOMAIN release :
          release[n].at = "undo" => release[n].job \in DOMAIN jobs

\* At most one job is live, or one release looks for the next park.
OneSearch ==
    /\ \A m, n \in LiveJobs : m = n
    /\ \A n \in DOMAIN release : release[n].at \in Looking =>
          /\ LiveJobs = {}
          /\ \A m \in DOMAIN release : release[m].at \in Looking => m = n

Release ==
    [at : {"idle", "audit", "ride", "live", "tried", "save", "undo", "fail"},
     tried : SUBSET Parks, job : {0} \cup JobIds]

\* What the release read is still all that was tried when it saves its job, and
\* the parks tried are as many as the jobs.
TriedInv ==
    /\ \A n \in DOMAIN release : release[n].at = "save" =>
          /\ release[n].tried = parksAlreadyTried
          /\ Cardinality(parksAlreadyTried) < MaxParks
    /\ IsFiniteSet(parksAlreadyTried)
    /\ Cardinality(parksAlreadyTried) = Len(jobs)

ParkInv ==
    /\ ParkTypeOK
    /\ RideGone
    /\ KnownJobs
    /\ OneSearch
    /\ TriedInv
    /\ TriedOnce
    /\ SearchHeld

\* A step that rewrites jobs keeps how many there are and whose they are.
JobsKept ==
    /\ jobs' \in Seq(Job)
    /\ DOMAIN jobs' = DOMAIN jobs
    /\ \A n \in DOMAIN jobs : jobs'[n].park = jobs[n].park

LEMMA JobFacts ==
    ASSUME ParkInv
    PROVE  /\ jobs \in Seq(Job)
           /\ Len(jobs) \in Nat
           /\ DOMAIN jobs = 1..Len(jobs)
           /\ DOMAIN jobs \subseteq JobIds
           /\ DOMAIN release = {0} \cup JobIds
           /\ \A n \in DOMAIN jobs : jobs[n] \in Job
<1>1. jobs \in Seq(Job) /\ Len(jobs) <= MaxParks
  BY DEF ParkInv, ParkTypeOK, TriedOnce
<1>2. /\ Len(jobs) \in Nat
      /\ DOMAIN jobs = 1..Len(jobs)
      /\ \A n \in DOMAIN jobs : jobs[n] \in Job
  BY <1>1, LenProperties, ElementOfSeq
<1>3. DOMAIN jobs \subseteq JobIds
  BY <1>1, <1>2, ParksAssumption DEF JobIds
<1>4. DOMAIN release = {0} \cup JobIds
  BY DEF ParkInv, ParkTypeOK
<1> QED
  BY <1>1, <1>2, <1>3, <1>4

LEMMA KeptJobs ==
    ASSUME ParkInv, JobsKept
    PROVE  /\ parksAlreadyTried' = parksAlreadyTried
           /\ Len(jobs') = Len(jobs)
           /\ TriedOnce'
<1>1. /\ Len(jobs) \in Nat /\ DOMAIN jobs = 1..Len(jobs)
      /\ Len(jobs') \in Nat /\ DOMAIN jobs' = 1..Len(jobs')
  BY JobFacts, LenProperties DEF JobsKept
<1>2. Len(jobs') = Len(jobs)
  BY <1>1 DEF JobsKept
<1> QED
  BY <1>2 DEF JobsKept, parksAlreadyTried, ParkInv, TriedOnce

LEMMA PatchEffect ==
    ASSUME ParkInv, NEW n \in DOMAIN jobs, NEW cond \in BOOLEAN, NEW row \in Job,
           row.park = jobs[n].park, Patch(n, cond, row)
    PROVE  /\ JobsKept
           /\ jobs'[n] = IF cond THEN row ELSE jobs[n]
           /\ \A m \in DOMAIN jobs : m # n => jobs'[m] = jobs[m]
<1>1. jobs \in Seq(Job) /\ DOMAIN jobs = 1..Len(jobs)
  BY JobFacts
<1>2. CASE cond
  BY <1>1, <1>2, ExceptSeq DEF Patch, JobsKept
<1>3. CASE ~cond
  BY <1>1, <1>3 DEF Patch, JobsKept
<1> QED
  BY <1>2, <1>3

\* A job that is closed is not live and stays the job of its park.
LEMMA ClosedJob ==
    ASSUME NEW row \in Job, NEW status \in {"ASSIGNED", "RESOLVED"}
    PROVE  /\ Closed(row, status) \in Job
           /\ Closed(row, status).park = row.park
           /\ Closed(row, status).status \notin LIVE_JOB_STATUSES
BY DEF Closed, Job, LIVE_JOB_STATUSES

LEMMA ReleaseAtEffect ==
    ASSUME ParkTypeOK, NEW n \in {0} \cup JobIds, NEW from,
           NEW to \in {"idle", "audit", "ride", "live", "tried", "save", "undo", "fail"},
           ReleaseAt(n, from, to)
    PROVE  /\ release[n].at = from
           /\ release' \in [{0} \cup JobIds -> Release]
           /\ release'[n].at = to
           /\ release'[n].tried = release[n].tried
           /\ \A m \in {0} \cup JobIds : m # n => release'[m] = release[m]
<1>1. /\ release \in [{0} \cup JobIds -> Release] /\ release[n] \in Release
      /\ release[n].at = from
      /\ release' = [release EXCEPT ![n] = [release[n] EXCEPT !.at = to]]
  BY DEF ReleaseAt, ParkTypeOK, Release
<1>2. /\ [release[n] EXCEPT !.at = to] \in Release
      /\ [release[n] EXCEPT !.at = to].at = to
      /\ [release[n] EXCEPT !.at = to].tried = release[n].tried
  BY <1>1 DEF Release
<1> QED
  BY <1>1, <1>2

-------------------------------------------------------------------------------
\* The release on its way to the next park, and its end.
LEMMA ReleaseMoves ==
    ASSUME ParkInv, NEW n \in {0} \cup JobIds,
           UNCHANGED <<jobs, due, returning, accepting, verbal, voiding>>,
           parkRide' \in {"searching", "taken", "over"},
           parkRide' = "searching" => parkRide = "searching",
           dropped' \in BOOLEAN, dropped => dropped',
           release' \in [{0} \cup JobIds -> Release],
           \A m \in {0} \cup JobIds : m # n => release'[m] = release[m],
           release'[n].at # "undo",
           release'[n].at \in Looking => release[n].at \in Looking,
           release'[n].at = "save" => /\ release'[n].tried = parksAlreadyTried
                                      /\ Cardinality(parksAlreadyTried) < MaxParks,
           release'[n].at = "idle" =>
              LiveJobs # {} \/ dropped' \/ parkRide' # "searching"
    PROVE  ParkInv'
<1>1. UNCHANGED <<LiveJobs, parksAlreadyTried>>
  BY DEF LiveJobs, parksAlreadyTried
<1>2. DOMAIN release = {0} \cup JobIds /\ DOMAIN release' = {0} \cup JobIds
  BY JobFacts
<1>3. ParkTypeOK'
  BY DEF ParkInv, ParkTypeOK, Release
<1>4. RideGone' /\ KnownJobs'
  BY <1>2 DEF ParkInv, RideGone, KnownJobs
<1>5. OneSearch'
  <2>1. \A m \in {0} \cup JobIds : release'[m].at \in Looking => release[m].at \in Looking
    OBVIOUS
  <2> QED
    BY <1>1, <1>2, <2>1 DEF ParkInv, OneSearch
<1>6. TriedInv' /\ TriedOnce'
  BY <1>1, <1>2 DEF ParkInv, TriedInv, TriedOnce
<1>7. SearchHeld'
  <2>1. SUFFICES ASSUME parkRide' = "searching", ~dropped', release'[n].at = "idle"
                 PROVE  LiveJobs' # {}
    BY <1>2 DEF SearchHeld
  <2> QED
    BY <1>1, <2>1
<1> QED
  BY <1>3, <1>4, <1>5, <1>6, <1>7 DEF ParkInv

LEMMA LooksKeep ==
    ASSUME ParkInv, NEW n \in {0} \cup JobIds,
           \/ \E ok \in BOOLEAN : OfferReadsRide(n, ok) \/ AuditRecorded(n, ok)
           \/ OfferFindsLive(n) \/ OfferCounts(n) \/ OfferFindsNoPark(n) \/ FailRide(n)
    PROVE  ParkInv'
<1>1. UNCHANGED <<jobs, due, returning, accepting, verbal, voiding>>
  BY DEF OfferReadsRide, AuditRecorded, OfferFindsLive, OfferCounts, OfferFindsNoPark,
         FailRide
<1>2. /\ ParkTypeOK /\ parkRide \in {"searching", "taken", "over"} /\ dropped \in BOOLEAN
      /\ release \in [{0} \cup JobIds -> Release]
  BY DEF ParkInv, ParkTypeOK, Release
<1>3. CASE \E ok \in BOOLEAN : OfferReadsRide(n, ok)
  <2>1. /\ ReleaseAt(n, "ride", "live") \/ ReleaseAt(n, "ride", "fail")
        /\ UNCHANGED <<parkRide, dropped>>
    BY <1>3 DEF OfferReadsRide
  <2> QED
    BY <1>1, <1>2, <2>1, ReleaseAtEffect, ReleaseMoves DEF Looking
<1>4. CASE \E ok \in BOOLEAN : AuditRecorded(n, ok)
  <2>1. \/ ReleaseAt(n, "audit", "ride") /\ UNCHANGED <<parkRide, dropped>>
        \/ ReleaseAt(n, "audit", "idle") /\ UNCHANGED parkRide /\ dropped' = TRUE
    BY <1>2, <1>4 DEF AuditRecorded
  <2> QED
    BY <1>1, <1>2, <2>1, ReleaseAtEffect, ReleaseMoves DEF Looking
<1>5. CASE OfferFindsLive(n)
  <2>1. /\ \/ ReleaseAt(n, "live", "idle") /\ LiveJobs # {}
           \/ ReleaseAt(n, "live", "tried")
        /\ UNCHANGED <<parkRide, dropped>>
    BY <1>5 DEF OfferFindsLive
  <2> QED
    BY <1>1, <1>2, <2>1, ReleaseAtEffect, ReleaseMoves DEF Looking
<1>6. CASE OfferCounts(n)
  <2> DEFINE to == IF MaxParks <= Cardinality(parksAlreadyTried) THEN "fail" ELSE "save"
             rel == [release[n] EXCEPT !.at = to, !.tried = parksAlreadyTried]
  <2>1. /\ release[n].at = "tried" /\ UNCHANGED <<parkRide, dropped>>
        /\ release' = [release EXCEPT ![n] = rel]
    BY <1>6 DEF OfferCounts
  <2>2. to \in {"fail", "save"} /\ (to = "save" => Cardinality(parksAlreadyTried) < MaxParks)
    BY JobFacts, ParksAssumption DEF ParkInv, TriedInv
  <2>3. parksAlreadyTried \in SUBSET Parks
    BY JobFacts DEF parksAlreadyTried, Job
  <2> HIDE DEF to
  <2>4. release[n] \in Release
    BY <1>2
  <2>5. rel \in Release /\ rel.at = to /\ rel.tried = parksAlreadyTried
    BY <2>2, <2>3, <2>4 DEF Release
  <2> HIDE DEF rel
  <2>6. /\ release' \in [{0} \cup JobIds -> Release] /\ release'[n] = rel
        /\ \A m \in {0} \cup JobIds : m # n => release'[m] = release[m]
    BY <1>2, <2>1, <2>5
  <2> QED
    BY <1>1, <1>2, <2>1, <2>2, <2>5, <2>6, ReleaseMoves DEF Looking
<1>7. CASE OfferFindsNoPark(n)
  <2>1. ReleaseAt(n, "save", "fail") /\ UNCHANGED <<parkRide, dropped>>
    BY <1>7 DEF OfferFindsNoPark
  <2> QED
    BY <1>1, <1>2, <2>1, ReleaseAtEffect, ReleaseMoves DEF Looking
<1>8. CASE FailRide(n)
  <2>1. /\ ReleaseAt(n, "fail", "idle") /\ UNCHANGED dropped
        /\ parkRide' \in {"taken", "over"}
    BY <1>2, <1>8 DEF FailRide
  <2> QED
    BY <1>1, <1>2, <2>1, ReleaseAtEffect, ReleaseMoves DEF Looking
<1> QED
  BY <1>3, <1>4, <1>5, <1>6, <1>7, <1>8

\* The insert: the new job's park was not tried, and fits the bound.
LEMMA SavesKeeps ==
    ASSUME ParkInv, NEW n \in {0} \cup JobIds, NEW p \in Parks, NEW breaks \in BOOLEAN,
           OfferSaves(n, p, breaks)
    PROVE  ParkInv'
<1> DEFINE row == [park |-> p, status |-> "OFFERED", by |-> Nobody, driver |-> Nobody]
           k == Len(jobs) + 1
           rel == IF breaks THEN [at |-> "undo", tried |-> {}, job |-> k] ELSE NoRelease
<1>1. /\ release[n].at = "save" /\ p \notin release[n].tried /\ LiveJobs = {}
      /\ jobs' = Append(jobs, row)
      /\ release' = [release EXCEPT ![n] = rel]
      /\ UNCHANGED <<parkRide, due, returning, accepting, verbal, voiding, dropped>>
  BY DEF OfferSaves
<1>2. row \in Job
  BY DEF Job, LIVE_JOB_STATUSES
<1>3. /\ jobs \in Seq(Job) /\ Len(jobs) \in Nat /\ DOMAIN jobs = 1..Len(jobs)
      /\ DOMAIN release = {0} \cup JobIds
  BY JobFacts
<1>4. /\ jobs' \in Seq(Job) /\ Len(jobs') = k /\ DOMAIN jobs' = 1..k
      /\ jobs'[k] = row
      /\ \A m \in 1..Len(jobs) : jobs'[m] = jobs[m]
  BY <1>1, <1>2, <1>3, AppendProperties, LenProperties
<1>5. DOMAIN jobs' = DOMAIN jobs \cup {k} /\ k \notin DOMAIN jobs
  BY <1>3, <1>4
<1>6. /\ parksAlreadyTried' = parksAlreadyTried \cup {p}
      /\ p \notin parksAlreadyTried
      /\ Cardinality(parksAlreadyTried) < MaxParks
  <2>1. parksAlreadyTried' = parksAlreadyTried \cup {p}
    <3>1. \A m \in DOMAIN jobs : jobs'[m].park = jobs[m].park
      BY <1>3, <1>4
    <3>2. jobs'[k].park = p
      BY <1>4
    <3> HIDE DEF k
    <3> QED
      BY <1>5, <3>1, <3>2 DEF parksAlreadyTried
  <2> QED
    BY <1>1, <1>3, <2>1 DEF ParkInv, TriedInv
<1>7. /\ IsFiniteSet(parksAlreadyTried')
      /\ Cardinality(parksAlreadyTried') = k
      /\ k <= MaxParks /\ k \in JobIds
  <2>1. IsFiniteSet(parksAlreadyTried) /\ Cardinality(parksAlreadyTried) = Len(jobs)
    BY DEF ParkInv, TriedInv
  <2>2. /\ IsFiniteSet(parksAlreadyTried')
        /\ Cardinality(parksAlreadyTried') = Len(jobs) + 1
    BY <1>6, <2>1, FS_AddElement
  <2> QED
    BY <1>3, <1>6, <2>1, <2>2, ParksAssumption DEF JobIds
<1>8. LiveJobs' = {k}
  BY <1>1, <1>3, <1>4, <1>5 DEF LiveJobs, LIVE_JOB_STATUSES
<1>9. rel \in [at : {"idle", "undo"}, tried : SUBSET Parks, job : {0} \cup JobIds]
  BY <1>7 DEF NoRelease
<1>10. /\ release' \in [{0} \cup JobIds -> Release]
       /\ release'[n].at \in {"idle", "undo"}
       /\ release'[n].at = "undo" => release'[n].job = k
       /\ \A m \in {0} \cup JobIds : m # n => release'[m] = release[m]
  <2>1. rel.at = "undo" => rel.job = k
    BY DEF NoRelease
  <2> HIDE DEF rel
  <2> QED
    BY <1>1, <1>9, <2>1 DEF ParkInv, ParkTypeOK, Release
<1> HIDE DEF row, rel
<1>11. ParkTypeOK' /\ RideGone'
  BY <1>1, <1>4, <1>10 DEF ParkInv, ParkTypeOK, RideGone, Release
<1>12. KnownJobs'
  BY <1>1, <1>3, <1>5, <1>10 DEF ParkInv, KnownJobs
<1>13. \A m \in DOMAIN release' : release'[m].at \notin Looking
  BY <1>1, <1>3, <1>10 DEF ParkInv, OneSearch, Looking
<1>14. OneSearch' /\ TriedInv'
  BY <1>3, <1>4, <1>7, <1>8, <1>13 DEF OneSearch, TriedInv, Looking
<1>15. TriedOnce'
  <2>1. \A m \in DOMAIN jobs : jobs'[m].park \in parksAlreadyTried
    BY <1>3, <1>4 DEF parksAlreadyTried
  <2>2. row.park = p
    BY DEF row
  <2> QED
    BY <1>3, <1>4, <1>5, <1>6, <1>7, <2>1, <2>2 DEF ParkInv, TriedOnce
<1>16. SearchHeld'
  BY <1>8 DEF SearchHeld
<1> QED
  BY <1>11, <1>12, <1>14, <1>15, <1>16 DEF ParkInv

\* The insert is undone: its release fails the ride next.
LEMMA UndoneKeeps ==
    ASSUME ParkInv, NEW n \in {0} \cup JobIds, OfferUndone(n)
    PROVE  ParkInv'
<1> DEFINE k == release[n].job
<1>1. /\ ReleaseAt(n, "undo", "fail") /\ Patch(k, k \in LiveJobs, Resolved(jobs[k]))
      /\ UNCHANGED <<parkRide, due, returning, accepting, verbal, voiding, dropped>>
  BY DEF OfferUndone, resolveIfLive
<1>2. k \in DOMAIN jobs /\ jobs[k] \in Job
  BY <1>1, JobFacts DEF ReleaseAt, ParkInv, KnownJobs
<1>3. /\ Resolved(jobs[k]) \in Job /\ Resolved(jobs[k]).park = jobs[k].park
      /\ Resolved(jobs[k]).status \notin LIVE_JOB_STATUSES
  BY <1>2, ClosedJob DEF Resolved
<1>4. /\ JobsKept
      /\ jobs'[k] = IF k \in LiveJobs THEN Resolved(jobs[k]) ELSE jobs[k]
      /\ \A m \in DOMAIN jobs : m # k => jobs'[m] = jobs[m]
  <2>1. (k \in LiveJobs) \in BOOLEAN
    OBVIOUS
  <2> HIDE DEF k
  <2> QED
    BY <1>1, <1>2, <1>3, <2>1, PatchEffect
<1>5. LiveJobs' = LiveJobs \ {k}
  BY <1>2, <1>3, <1>4 DEF JobsKept, LiveJobs
<1>6. /\ release' \in [{0} \cup JobIds -> Release]
      /\ release'[n].at = "fail"
      /\ \A m \in {0} \cup JobIds : m # n => release'[m] = release[m]
  BY <1>1, ReleaseAtEffect DEF ParkInv
<1>7. /\ parksAlreadyTried' = parksAlreadyTried
      /\ Len(jobs') = Len(jobs) /\ TriedOnce'
      /\ jobs' \in Seq(Job) /\ DOMAIN jobs' = DOMAIN jobs
      /\ DOMAIN release = {0} \cup JobIds /\ DOMAIN release' = {0} \cup JobIds
  BY <1>4, <1>6, KeptJobs, JobFacts DEF JobsKept
<1>8. ParkTypeOK' /\ RideGone'
  BY <1>1, <1>6, <1>7 DEF ParkInv, ParkTypeOK, RideGone, Release
<1>9. KnownJobs' /\ TriedInv'
  BY <1>1, <1>6, <1>7 DEF ParkInv, KnownJobs, TriedInv
<1>10. OneSearch' /\ SearchHeld'
  BY <1>1, <1>5, <1>6, <1>7 DEF ParkInv, OneSearch, SearchHeld, Looking
<1> QED
  BY <1>7, <1>8, <1>9, <1>10 DEF ParkInv

\* A live job changes hands.
LEMMA HandsKeep ==
    ASSUME ParkInv, NEW n \in DOMAIN jobs,
           \/ \E s \in Staff : claim(s, n)
           \/ \E s \in Staff, d \in ParkDrivers, ok \in BOOLEAN : offerToDriver(s, n, d, ok)
           \/ \E d \in ParkDrivers, why \in {"answer", "window"} :
                 returnToClaimedIfPending(n, d, why)
    PROVE  ParkInv'
<1>1. UNCHANGED <<parkRide, release, due, accepting, verbal, voiding, dropped>>
  BY DEF claim, offerToDriver, returnToClaimedIfPending
<1>2. jobs[n] \in Job /\ n \in JobIds
  BY JobFacts
<1>3. /\ JobsKept /\ LiveJobs' = LiveJobs
      /\ returning' \subseteq JobIds \X ParkDrivers \X {"answer", "window"}
  <2>1. ASSUME NEW s \in Staff, claim(s, n)
        PROVE  /\ JobsKept /\ LiveJobs' = LiveJobs
               /\ returning' \subseteq JobIds \X ParkDrivers \X {"answer", "window"}
    <3> DEFINE row == [jobs[n] EXCEPT !.status = "CLAIMED", !.by = s]
    <3>1. row \in Job /\ row.park = jobs[n].park /\ row.status = "CLAIMED"
      BY <1>2 DEF Job, LIVE_JOB_STATUSES
    <3>2. Patch(n, TRUE, row) /\ jobs[n].status = "OFFERED" /\ UNCHANGED returning
      BY <2>1 DEF claim, Patch
    <3> HIDE DEF row
    <3>3. /\ JobsKept /\ jobs'[n] = row
          /\ \A m \in DOMAIN jobs : m # n => jobs'[m] = jobs[m]
      BY <3>1, <3>2, PatchEffect
    <3> QED
      BY <3>1, <3>2, <3>3 DEF JobsKept, LiveJobs, LIVE_JOB_STATUSES, ParkInv, ParkTypeOK
  <2>2. ASSUME NEW s \in Staff, NEW d \in ParkDrivers, NEW ok \in BOOLEAN,
               offerToDriver(s, n, d, ok)
        PROVE  /\ JobsKept /\ LiveJobs' = LiveJobs
               /\ returning' \subseteq JobIds \X ParkDrivers \X {"answer", "window"}
    <3> DEFINE row == [jobs[n] EXCEPT !.status = "PENDING", !.driver = d]
    <3>1. row \in Job /\ row.park = jobs[n].park /\ row.status = "PENDING"
      BY <1>2 DEF Job, LIVE_JOB_STATUSES
    <3>2. /\ Patch(n, TRUE, row) /\ jobs[n].status = "CLAIMED"
          /\ returning' \subseteq returning \cup {<<n, d, "answer">>}
      BY <2>2 DEF offerToDriver, Patch
    <3> HIDE DEF row
    <3>3. /\ JobsKept /\ jobs'[n] = row
          /\ \A m \in DOMAIN jobs : m # n => jobs'[m] = jobs[m]
      BY <3>1, <3>2, PatchEffect
    <3> QED
      BY <1>2, <3>1, <3>2, <3>3 DEF JobsKept, LiveJobs, LIVE_JOB_STATUSES, ParkInv, ParkTypeOK
  <2>3. ASSUME NEW d \in ParkDrivers, NEW why \in {"answer", "window"},
               returnToClaimedIfPending(n, d, why)
        PROVE  /\ JobsKept /\ LiveJobs' = LiveJobs
               /\ returning' \subseteq JobIds \X ParkDrivers \X {"answer", "window"}
    <3> DEFINE row == [jobs[n] EXCEPT !.status = "CLAIMED", !.driver = Nobody]
               cond == jobs[n].status = "PENDING" /\ jobs[n].driver = d
    <3>1. row \in Job /\ row.park = jobs[n].park /\ row.status = "CLAIMED"
      BY <1>2 DEF Job, LIVE_JOB_STATUSES
    <3>2. /\ Patch(n, cond, row) /\ cond \in BOOLEAN /\ (cond => jobs[n].status = "PENDING")
          /\ returning' \subseteq returning
      BY <2>3 DEF returnToClaimedIfPending
    <3> HIDE DEF row, cond
    <3>3. /\ JobsKept /\ jobs'[n] = IF cond THEN row ELSE jobs[n]
          /\ \A m \in DOMAIN jobs : m # n => jobs'[m] = jobs[m]
      BY <3>1, <3>2, PatchEffect
    <3>4. \A m \in DOMAIN jobs :
             jobs'[m].status \in LIVE_JOB_STATUSES <=> jobs[m].status \in LIVE_JOB_STATUSES
      BY <3>1, <3>2, <3>3 DEF LIVE_JOB_STATUSES
    <3>5. LiveJobs' = LiveJobs
      BY <3>3, <3>4 DEF JobsKept, LiveJobs
    <3>6. returning' \subseteq JobIds \X ParkDrivers \X {"answer", "window"}
      BY <3>2 DEF ParkInv, ParkTypeOK
    <3> QED
      BY <3>3, <3>5, <3>6
  <2> QED
    BY <2>1, <2>2, <2>3
<1> QED
  BY <1>1, <1>3, KeptJobs
     DEF JobsKept, ParkInv, ParkTypeOK, RideGone, KnownJobs, OneSearch, TriedInv,
         SearchHeld, Looking

\* Steps that leave the jobs and the releases alone; a ride only stops searching.
LEMMA AsideKeeps ==
    ASSUME ParkInv,
           \/ \E n \in DOMAIN jobs :
                 \/ \E s \in Staff : assignVerbally(s, n)
                 \/ \E d \in ParkDrivers, why \in {"answer", "window"} : Declines(d, n, why)
                 \/ findExpired(n)
           \/ VerbalAssigns \/ AcceptTakes
           \/ \E d \in ParkDrivers : AcceptReads(d)
           \/ RideLeaves("over", TRUE) \/ RideLeaves("over", FALSE)
           \/ RideLeaves("taken", FALSE)
    PROVE  ParkInv'
<1>1. /\ UNCHANGED <<jobs, release, dropped>>
      /\ UNCHANGED <<LiveJobs, parksAlreadyTried>>
      /\ parkRide' = "searching" => parkRide = "searching"
  BY DEF assignVerbally, Declines, findExpired, VerbalAssigns, AcceptReads, AcceptTakes,
         RideLeaves, LiveJobs, parksAlreadyTried
<1>2. ParkTypeOK /\ DOMAIN jobs \subseteq JobIds
  BY JobFacts DEF ParkInv
<1>3. ParkTypeOK' /\ RideGone' /\ KnownJobs'
  <2>1. CASE \E n \in DOMAIN jobs, s \in Staff : assignVerbally(s, n)
    BY <1>2, <2>1 DEF assignVerbally, ParkInv, ParkTypeOK, RideGone, KnownJobs
  <2>2. CASE \E n \in DOMAIN jobs, d \in ParkDrivers, why \in {"answer", "window"} :
                Declines(d, n, why)
    BY <1>2, <2>2 DEF Declines, ParkInv, ParkTypeOK, RideGone, KnownJobs
  <2>3. CASE \E n \in DOMAIN jobs : findExpired(n)
    BY <1>2, <2>3 DEF findExpired, ParkInv, ParkTypeOK, RideGone, KnownJobs
  <2>4. CASE VerbalAssigns
    BY <1>2, <2>4 DEF VerbalAssigns, NoVerbal, ParkInv, ParkTypeOK, RideGone, KnownJobs
  <2>5. CASE AcceptTakes
    BY <1>2, <2>5 DEF AcceptTakes, NoAccept, ParkInv, ParkTypeOK, RideGone, KnownJobs
  <2>6. CASE \E d \in ParkDrivers : AcceptReads(d)
    BY <1>2, <2>6 DEF AcceptReads, ParkInv, ParkTypeOK, RideGone, KnownJobs
  <2>7. CASE \/ RideLeaves("over", TRUE) \/ RideLeaves("over", FALSE)
             \/ RideLeaves("taken", FALSE)
    BY <1>2, <2>7 DEF RideLeaves, ParkInv, ParkTypeOK, RideGone, KnownJobs
  <2> QED
    BY <2>1, <2>2, <2>3, <2>4, <2>5, <2>6, <2>7
<1> QED
  BY <1>1, <1>3 DEF ParkInv, OneSearch, TriedInv, TriedOnce, SearchHeld, Looking

\* Jobs are closed for a ride that is searching no longer.
LEMMA BooksKeep ==
    ASSUME ParkInv, VerbalMarks \/ completePendingAssignment \/ cancelForRide
    PROVE  ParkInv'
<1>1. UNCHANGED <<parkRide, release, due, returning, dropped>> /\ parkRide # "searching"
  BY DEF VerbalMarks, completePendingAssignment, cancelForRide, ParkInv, RideGone
<1>2. \A n \in DOMAIN jobs, status \in {"ASSIGNED", "RESOLVED"} :
         /\ Closed(jobs[n], status) \in Job
         /\ Closed(jobs[n], status).park = jobs[n].park
         /\ Closed(jobs[n], status).status \notin LIVE_JOB_STATUSES
  BY JobFacts, ClosedJob
<1>3. /\ accepting' \in [at : {"idle", "direct", "park", "books"},
                         driver : ParkDrivers \cup {Nobody}]
      /\ verbal' \in [at : {"idle", "assign", "mark"}, job : {0} \cup JobIds]
      /\ voiding' \in BOOLEAN
      /\ verbal'.at = "idle" \/ verbal' = verbal
  <2>1. CASE VerbalMarks
    BY <2>1 DEF VerbalMarks, NoVerbal, ParkInv, ParkTypeOK
  <2>2. CASE completePendingAssignment
    BY <2>2 DEF completePendingAssignment, NoAccept, ParkInv, ParkTypeOK
  <2>3. CASE cancelForRide
    BY <2>3 DEF cancelForRide, ParkInv, ParkTypeOK
  <2> QED
    BY <2>1, <2>2, <2>3
<1>4. JobsKept /\ LiveJobs' \subseteq LiveJobs
  <2>1. CASE VerbalMarks
    <3> DEFINE k == verbal.job
               cond == jobs[k].status \in {"CLAIMED", "PENDING"}
               row == Closed(jobs[k], "ASSIGNED")
    <3>1. k \in DOMAIN jobs /\ Patch(k, cond, row) /\ cond \in BOOLEAN
      BY <2>1 DEF VerbalMarks, ParkInv, KnownJobs
    <3>2. /\ row \in Job /\ row.park = jobs[k].park
          /\ row.status \notin LIVE_JOB_STATUSES
      BY <1>2, <3>1
    <3> HIDE DEF k, cond, row
    <3> QED
      BY <3>1, <3>2, PatchEffect DEF JobsKept, LiveJobs
  <2>2. CASE completePendingAssignment
    <3> DEFINE P == PendingFor(accepting.driver)
    <3>1. jobs' = [n \in DOMAIN jobs |->
                      IF n \in P THEN Closed(jobs[n], "ASSIGNED") ELSE jobs[n]]
      BY <2>2 DEF completePendingAssignment
    <3> HIDE DEF P
    <3>2. jobs' \in [1..Len(jobs) -> Job] /\ Len(jobs) \in Nat
      BY <1>2, <3>1, JobFacts
    <3>3. jobs' \in Seq(Job)
      BY <3>2, SeqDef
    <3> QED
      BY <1>2, <3>1, <3>3 DEF JobsKept, LiveJobs
  <2>3. CASE cancelForRide
    <3>1. jobs' = [n \in DOMAIN jobs |->
                      IF n \in LiveJobs THEN Closed(jobs[n], "RESOLVED") ELSE jobs[n]]
      BY <2>3 DEF cancelForRide, Resolved
    <3>2. jobs' \in [1..Len(jobs) -> Job] /\ Len(jobs) \in Nat
      BY <1>2, <3>1, JobFacts
    <3>3. jobs' \in Seq(Job)
      BY <3>2, SeqDef
    <3> QED
      BY <1>2, <3>1, <3>3 DEF JobsKept, LiveJobs
  <2> QED
    BY <2>1, <2>2, <2>3
<1> QED
  BY <1>1, <1>3, <1>4, KeptJobs
     DEF JobsKept, ParkInv, ParkTypeOK, RideGone, KnownJobs, OneSearch, TriedInv,
         SearchHeld, Looking

\* A live job ends and its release begins.
LEMMA ReleasedKeeps ==
    ASSUME ParkInv, NEW n \in DOMAIN jobs, resolve(n) \/ sweepExpired(n)
    PROVE  ParkInv'
<1>1. /\ UNCHANGED <<parkRide, returning, accepting, verbal, voiding, dropped>>
      /\ due' \subseteq due /\ release[n].at = "idle"
      /\ Patch(n, n \in LiveJobs, Resolved(jobs[n]))
      /\ \/ n \in LiveJobs /\ \E at \in {"audit", "ride"} :
               release' = [release EXCEPT ![n].at = at]
         \/ n \notin LiveJobs /\ release' = release
  BY DEF resolve, sweepExpired, resolveIfLive
<1>2. n \in {0} \cup JobIds /\ jobs[n] \in Job
  BY JobFacts
<1>3. /\ Resolved(jobs[n]) \in Job /\ Resolved(jobs[n]).park = jobs[n].park
      /\ Resolved(jobs[n]).status \notin LIVE_JOB_STATUSES
  BY <1>2, ClosedJob DEF Resolved
<1>4. /\ JobsKept
      /\ jobs'[n] = IF n \in LiveJobs THEN Resolved(jobs[n]) ELSE jobs[n]
      /\ \A m \in DOMAIN jobs : m # n => jobs'[m] = jobs[m]
  <2>1. (n \in LiveJobs) \in BOOLEAN
    OBVIOUS
  <2> QED
    BY <1>1, <1>3, <2>1, PatchEffect
<1>5. LiveJobs' = LiveJobs \ {n}
  BY <1>3, <1>4 DEF JobsKept, LiveJobs
<1>6. CASE n \in LiveJobs
  <2>1. PICK at \in {"audit", "ride"} : release' = [release EXCEPT ![n].at = at]
    BY <1>1, <1>6
  <2>2. ReleaseAt(n, "idle", at)
    BY <1>1, <2>1 DEF ReleaseAt
  <2>3. LiveJobs' = {} /\ \A m \in DOMAIN release : release[m].at \notin Looking
    BY <1>5, <1>6 DEF ParkInv, OneSearch
  <2>4. /\ release' \in [{0} \cup JobIds -> Release]
        /\ release'[n].at = at
        /\ \A m \in {0} \cup JobIds : m # n => release'[m] = release[m]
    <3>1. ParkTypeOK /\ n \in {0} \cup JobIds
      BY <1>2 DEF ParkInv
    <3>2. at \in {"idle", "audit", "ride", "live", "tried", "save", "undo", "fail"}
      BY <2>1
    <3> QED
      BY <2>2, <3>1, <3>2, ReleaseAtEffect, ZenonT(60)
  <2>5. /\ parksAlreadyTried' = parksAlreadyTried
        /\ Len(jobs') = Len(jobs) /\ TriedOnce'
        /\ jobs' \in Seq(Job) /\ DOMAIN jobs' = DOMAIN jobs
        /\ DOMAIN release = {0} \cup JobIds /\ DOMAIN release' = {0} \cup JobIds
    BY <1>4, <2>4, KeptJobs, JobFacts DEF JobsKept
  <2>6. ParkTypeOK' /\ RideGone'
    BY <1>1, <2>4, <2>5 DEF ParkInv, ParkTypeOK, RideGone, Release
  <2>7. KnownJobs' /\ TriedInv'
    BY <1>1, <1>2, <2>4, <2>5 DEF ParkInv, KnownJobs, TriedInv
  <2>8. OneSearch' /\ SearchHeld'
    BY <1>2, <2>3, <2>4, <2>5 DEF OneSearch, SearchHeld, Looking
  <2> QED
    BY <2>5, <2>6, <2>7, <2>8 DEF ParkInv
<1>7. CASE n \notin LiveJobs
  BY <1>1, <1>4, <1>5, <1>7, KeptJobs
     DEF JobsKept, ParkInv, ParkTypeOK, RideGone, KnownJobs, OneSearch, TriedInv,
         SearchHeld, Looking
<1> QED
  BY <1>6, <1>7

LEMMA ParkDeathKeeps ==
    ASSUME ParkInv, ParkServerDies
    PROVE  ParkInv'
<1>1. UNCHANGED <<LiveJobs, parksAlreadyTried>>
  BY DEF ParkServerDies, LiveJobs, parksAlreadyTried
<1>2. /\ release' \in [{0} \cup JobIds -> {NoRelease}]
      /\ UNCHANGED <<parkRide, jobs>> /\ dropped' = TRUE
      /\ due' = {} /\ returning' = {} /\ voiding' = FALSE
      /\ accepting' = NoAccept /\ verbal' = NoVerbal
  BY JobFacts DEF ParkServerDies
<1>3. /\ DOMAIN release' = {0} \cup JobIds
      /\ \A n \in {0} \cup JobIds : release'[n] \in Release /\ release'[n].at = "idle"
  BY <1>2 DEF NoRelease, Release
<1>4. ParkTypeOK'
  BY <1>2, <1>3 DEF ParkInv, ParkTypeOK, Release, NoAccept, NoVerbal
<1> QED
  BY <1>1, <1>2, <1>3, <1>4
     DEF ParkInv, RideGone, KnownJobs, OneSearch, TriedInv, TriedOnce, SearchHeld,
         Looking, NoAccept, NoVerbal

LEMMA ParkInvInit == ParkInit => ParkInv
<1> SUFFICES ASSUME ParkInit PROVE ParkInv
  OBVIOUS
<1>1. jobs \in Seq(Job) /\ Len(jobs) = 0 /\ DOMAIN jobs = {}
  BY EmptySeq DEF ParkInit
<1>2. LiveJobs = {} /\ parksAlreadyTried = {}
  BY <1>1 DEF LiveJobs, parksAlreadyTried
<1>3. IsFiniteSet(parksAlreadyTried) /\ Cardinality(parksAlreadyTried) = 0
  BY <1>2, FS_EmptySet
<1>4. /\ [NoRelease EXCEPT !.at = "ride"] = [at |-> "ride", tried |-> {}, job |-> 0]
      /\ NoRelease = [at |-> "idle", tried |-> {}, job |-> 0]
  BY DEF NoRelease
<1>5. /\ DOMAIN release = {0} \cup JobIds
      /\ release[0] = [at |-> "ride", tried |-> {}, job |-> 0]
      /\ \A n \in JobIds : release[n] = [at |-> "idle", tried |-> {}, job |-> 0]
      /\ release = [n \in {0} \cup JobIds |-> release[n]]
  BY <1>4, ParksAssumption DEF ParkInit, JobIds
<1>6. \A n \in {0} \cup JobIds : release[n] \in Release /\ release[n].at \in {"ride", "idle"}
  BY <1>5 DEF Release
<1>7. ParkTypeOK
  BY <1>1, <1>5, <1>6 DEF ParkInit, ParkTypeOK, Release, NoAccept, NoVerbal
<1>8. OneSearch
  BY <1>2, <1>5 DEF OneSearch, Looking
<1> QED
  BY <1>1, <1>2, <1>3, <1>5, <1>6, <1>7, <1>8, ParksAssumption
     DEF ParkInit, ParkInv, RideGone, KnownJobs, TriedInv, TriedOnce, SearchHeld,
         NoAccept, NoVerbal

LEMMA ParkInvStep == ParkInv /\ [ParkNext]_parkVars => ParkInv'
<1> SUFFICES ASSUME ParkInv, [ParkNext]_parkVars PROVE ParkInv'
  OBVIOUS
<1>1. CASE UNCHANGED parkVars
  BY <1>1 DEF parkVars, ParkInv, ParkTypeOK, RideGone, KnownJobs, OneSearch, TriedInv,
              TriedOnce, SearchHeld, Looking, LiveJobs, parksAlreadyTried
<1>2. CASE \E n \in {0} \cup JobIds :
              \/ \E ok \in BOOLEAN : OfferReadsRide(n, ok) \/ AuditRecorded(n, ok)
              \/ OfferFindsLive(n) \/ OfferCounts(n) \/ OfferFindsNoPark(n)
              \/ \E p \in Parks, breaks \in BOOLEAN : OfferSaves(n, p, breaks)
              \/ OfferUndone(n) \/ FailRide(n)
  BY <1>2, LooksKeep, SavesKeeps, UndoneKeeps
<1>3. CASE \E n \in DOMAIN jobs :
              \/ \E s \in Staff :
                    \/ claim(s, n) \/ assignVerbally(s, n)
                    \/ \E d \in ParkDrivers, ok \in BOOLEAN : offerToDriver(s, n, d, ok)
              \/ resolve(n) \/ findExpired(n) \/ sweepExpired(n)
              \/ \E d \in ParkDrivers, why \in {"answer", "window"} :
                    Declines(d, n, why) \/ returnToClaimedIfPending(n, d, why)
  BY <1>3, HandsKeep, AsideKeeps, ReleasedKeeps
<1>4. CASE \/ VerbalAssigns \/ AcceptTakes
           \/ \E d \in ParkDrivers : AcceptReads(d)
           \/ RideLeaves("over", TRUE) \/ RideLeaves("over", FALSE)
           \/ RideLeaves("taken", FALSE)
  BY <1>4, AsideKeeps
<1>5. CASE VerbalMarks \/ completePendingAssignment \/ cancelForRide \/ ParkServerDies
  BY <1>5, BooksKeep, ParkDeathKeeps
<1> QED
  BY <1>1, <1>2, <1>3, <1>4, <1>5 DEF ParkNext

LEMMA ParkInvariant == ParkSpec => []ParkInv
BY ParkInvInit, ParkInvStep, PTL DEF ParkSpec

\* Type correctness of the ride's jobs and of the releases in flight.
THEOREM ParkTypes == ParkSpec => []ParkTypeOK
BY ParkInvariant, PTL DEF ParkInv

\* A ride given to the parks is not left searching with nobody looking, as long as
\* no audit threw and the process did not die (park_dispatch_service.ts).
THEOREM SomebodyLooks == ParkSpec => []SearchHeld
BY ParkInvariant, PTL DEF ParkInv

\* Each park is asked once, and no more than MaxParks of them are
\* (park_dispatch_service.ts), for any number of releases that overlap.
THEOREM EachParkOnce == ParkSpec => []TriedOnce
BY ParkInvariant, PTL DEF ParkInv

\* Only the step that returns an offer makes a pending job a claimed one.
LEMMA AnswerStep ==
    ASSUME ParkInv, [ParkNext]_parkVars, NEW n \in DOMAIN jobs,
           jobs[n].status = "PENDING", jobs'[n].status = "CLAIMED"
    PROVE  \E why \in {"answer", "window"} : <<n, jobs[n].driver, why>> \in returning
<1>1. jobs[n] \in Job /\ DOMAIN jobs = 1..Len(jobs) /\ jobs \in Seq(Job) /\ Len(jobs) \in Nat
  BY JobFacts
<1>2. jobs' # jobs
  OBVIOUS
<1>3. ASSUME NEW k \in DOMAIN jobs, NEW cond, NEW status \in {"ASSIGNED", "RESOLVED"},
             Patch(k, cond, Closed(jobs[k], status))
      PROVE  FALSE
  <2>1. Closed(jobs[k], status).status = status
    BY <1>3, JobFacts DEF Closed, Job
  <2> QED
    BY <1>3, <2>1 DEF Patch
<1>4. CASE \E k \in {0} \cup JobIds, p \in Parks, breaks \in BOOLEAN : OfferSaves(k, p, breaks)
  <2>1. PICK p \in Parks : jobs' = Append(jobs, [park |-> p, status |-> "OFFERED",
                                                by |-> Nobody, driver |-> Nobody])
    BY <1>4 DEF OfferSaves
  <2>2. [park |-> p, status |-> "OFFERED", by |-> Nobody, driver |-> Nobody] \in Job
    BY DEF Job, LIVE_JOB_STATUSES
  <2>3. jobs'[n] = jobs[n]
    BY <1>1, <2>1, <2>2, AppendProperties
  <2> QED
    BY <2>3
<1>5. CASE \E k \in {0} \cup JobIds : OfferUndone(k)
  <2>1. PICK k \in {0} \cup JobIds : OfferUndone(k)
    BY <1>5
  <2>2. release[k].job \in DOMAIN jobs
    BY <2>1, JobFacts DEF OfferUndone, ReleaseAt, ParkInv, KnownJobs
  <2> QED
    BY <1>3, <2>1, <2>2 DEF OfferUndone, resolveIfLive, Resolved
<1>6. CASE \E k \in DOMAIN jobs : resolve(k) \/ sweepExpired(k)
  BY <1>3, <1>6 DEF resolve, sweepExpired, resolveIfLive, Resolved
<1>7. CASE VerbalMarks
  <2>1. verbal.job \in DOMAIN jobs
    BY <1>7 DEF VerbalMarks, ParkInv, KnownJobs
  <2> QED
    BY <1>3, <1>7, <2>1 DEF VerbalMarks
<1>8. CASE completePendingAssignment \/ cancelForRide
  BY <1>1, <1>8 DEF completePendingAssignment, cancelForRide, Resolved, Closed, Job
<1>9. CASE \E k \in DOMAIN jobs :
              \E s \in Staff : \/ claim(s, k)
                             \/ \E d \in ParkDrivers, ok \in BOOLEAN : offerToDriver(s, k, d, ok)
  <2>1. PICK k \in DOMAIN jobs, s \in Staff :
           claim(s, k) \/ \E d \in ParkDrivers, ok \in BOOLEAN : offerToDriver(s, k, d, ok)
    BY <1>9
  <2>2. k # n
    BY <2>1 DEF claim, offerToDriver
  <2> QED
    BY <2>1, <2>2 DEF claim, offerToDriver
<1>10. CASE \E k \in DOMAIN jobs, d \in ParkDrivers, why \in {"answer", "window"} :
               returnToClaimedIfPending(k, d, why)
  <2>1. PICK k \in DOMAIN jobs, d \in ParkDrivers, why \in {"answer", "window"} :
           returnToClaimedIfPending(k, d, why)
    BY <1>10
  <2>2. k = n /\ jobs[n].driver = d
    BY <2>1 DEF returnToClaimedIfPending, Patch
  <2> QED
    BY <2>1, <2>2 DEF returnToClaimedIfPending
<1> QED
  BY <1>2, <1>4, <1>5, <1>6, <1>7, <1>8, <1>9, <1>10
     DEF ParkNext, parkVars, OfferReadsRide, AuditRecorded, OfferFindsLive, OfferCounts,
         OfferFindsNoPark, FailRide, assignVerbally, findExpired, Declines, VerbalAssigns,
         AcceptReads, AcceptTakes, RideLeaves, ParkServerDies

\* A late answer of a driver who was offered the job before does not take the offer
\* from the driver who has it now (park_dispatch_service.ts).
THEOREM OnlyTheirAnswer == ParkSpec => OwnAnswerOnly
<1>1. ParkInv /\ [ParkNext]_parkVars =>
        [\A n \in DOMAIN jobs :
           jobs[n].status = "PENDING" /\ jobs'[n].status = "CLAIMED" =>
              \E why \in {"answer", "window"} : <<n, jobs[n].driver, why>> \in returning]_parkVars
  BY AnswerStep
<1> QED
  BY <1>1, ParkInvariant, PTL DEF OwnAnswerOnly, ParkSpec

-------------------------------------------------------------------------------
(* The driver's intent *)

\* A row that a beat leaves as it is: a deliberate OFFLINE of the last minute,
\* or ONLINE already.
StandsFirm(row) == Discards(row) \/ row.state = "ONLINE"

\* Since the driver left, and nobody excuses the beat: the row a beat is still to
\* read stands firm, and so does the row it has read.
BeatsInv ==
    \A b \in Beats :
       beat[b] # NoBeat /\ beat[b].sentBefore /\ ~beat[b].excused =>
          /\ beat[b].at \in {"sent", "located"} => StandsFirm(intent[beat[b].driver])
          /\ beat[b].at = "read" => StandsFirm(beat[b].read)

IntentInv == IntentTypeOK /\ BeatsInv

\* What a row of each kind is.
LEMMA DeclaredRow ==
    ASSUME NEW state \in {"ONLINE", "OFFLINE"}, NEW by \in {"DRIVER", "ADMIN", "LOGOUT", "SYSTEM"}
    PROVE  /\ Declared(state, by) \in Intent
           /\ state = "ONLINE" => StandsFirm(Declared(state, by))
           /\ by # "SYSTEM" => StandsFirm(Declared(state, by))
BY DEF Declared, Intent, StandsFirm, Discards

LEMMA BeatFacts ==
    ASSUME IntentTypeOK, NEW b \in Beats, beat[b] # NoBeat
    PROVE  beat[b] \in BeatInFlight /\ beat[b].driver \in Riders
BY DEF IntentTypeOK, BeatInFlight

LEMMA NoBeatIsNone == NoBeat \notin BeatInFlight
BY DEF NoBeat, BeatInFlight

LEMMA KnockFacts ==
    ASSUME IntentTypeOK, NEW k \in Knocks, knock[k] # NoKnock
    PROVE  knock[k] \in KnockInFlight /\ knock[k].driver \in Riders
BY DEF NoKnock, IntentTypeOK, KnockInFlight

LEMMA OneMoreFits ==
    ASSUME NEW n \in 0..UnreachableAfter
    PROVE  OneMore(n) \in 0..UnreachableAfter
BY IntentAssumption DEF OneMore

-------------------------------------------------------------------------------
\* The driver speaks: whatever the row becomes stands firm.
LEMMA WordKeeps ==
    ASSUME IntentInv, NEW d \in Riders, NEW by \in {"DRIVER", "ADMIN", "LOGOUT"},
           setOnline(d, by) \/ setOffline(d, by)
    PROVE  IntentInv'
<1>1. UNCHANGED <<available, knock, cooldown>> /\ toggles' \in 0..MaxToggles
  <2>1. /\ UNCHANGED <<available, knock, cooldown>>
        /\ toggles < MaxToggles /\ toggles' = toggles + 1
    BY DEF setOnline, setOffline
  <2>2. toggles \in 0..MaxToggles
    BY DEF IntentInv, IntentTypeOK
  <2> QED
    BY <2>1, <2>2, IntentAssumption
<1>2. CASE setOnline(d, by)
  <2>1. UNCHANGED <<beat, leaving>>
    BY <1>2 DEF setOnline
  <2>2. CASE intent[d].state = "ONLINE"
    BY <1>1, <1>2, <2>1, <2>2 DEF setOnline, IntentInv, IntentTypeOK, BeatsInv
  <2>3. CASE intent[d].state # "ONLINE"
    <3>1. /\ intent' = [intent EXCEPT ![d] = Declared("ONLINE", by)]
          /\ missed' = [missed EXCEPT ![d] = 0] /\ tombstone' = tombstone \ {d}
      BY <1>2, <2>3 DEF setOnline
    <3>2. Declared("ONLINE", by) \in Intent /\ StandsFirm(Declared("ONLINE", by))
      BY DeclaredRow
    <3>3. IntentTypeOK'
      BY <1>1, <2>1, <3>1, <3>2, IntentAssumption DEF IntentInv, IntentTypeOK
    <3> QED
      BY <2>1, <3>1, <3>2, <3>3, BeatFacts DEF IntentInv, IntentTypeOK, BeatsInv
  <2> QED
    BY <2>2, <2>3
<1>3. CASE setOffline(d, by)
  <2> DEFINE old(b) == [beat[b] EXCEPT !.sentBefore = TRUE, !.excused = (beat[b].at = "read")]
  <2>1. /\ intent' = [intent EXCEPT ![d] = Declared("OFFLINE", by)]
        /\ missed' = [missed EXCEPT ![d] = 0] /\ leaving' = leaving \cup {d}
        /\ beat' = [b \in Beats |->
              IF beat[b] # NoBeat /\ beat[b].driver = d THEN old(b) ELSE beat[b]]
        /\ UNCHANGED tombstone
    BY <1>3 DEF setOffline
  <2>2. Declared("OFFLINE", by) \in Intent /\ StandsFirm(Declared("OFFLINE", by))
    BY DeclaredRow
  <2>3. \A b \in Beats : beat[b] # NoBeat =>
          /\ old(b) \in BeatInFlight /\ old(b) # NoBeat
          /\ old(b).driver = beat[b].driver /\ old(b).at = beat[b].at
          /\ old(b).excused = (beat[b].at = "read")
    <3>1. SUFFICES ASSUME NEW b \in Beats, beat[b] # NoBeat
                   PROVE  /\ old(b) \in BeatInFlight
                          /\ old(b).driver = beat[b].driver /\ old(b).at = beat[b].at
                          /\ old(b).excused = (beat[b].at = "read")
      BY NoBeatIsNone
    <3>2. beat[b] \in BeatInFlight
      BY <3>1, BeatFacts DEF IntentInv
    <3> QED
      BY <3>2 DEF BeatInFlight
  <2> HIDE DEF old
  <2>4. IntentTypeOK'
    BY <1>1, <2>1, <2>2, <2>3, IntentAssumption DEF IntentInv, IntentTypeOK
  <2>5. BeatsInv'
    <3>1. SUFFICES ASSUME NEW b \in Beats, beat'[b] # NoBeat, beat'[b].sentBefore,
                          ~beat'[b].excused
                   PROVE  /\ beat'[b].at \in {"sent", "located"} =>
                                StandsFirm(intent'[beat'[b].driver])
                          /\ beat'[b].at = "read" => StandsFirm(beat'[b].read)
      BY DEF BeatsInv, StandsFirm, Discards
    <3>2. CASE beat[b] # NoBeat /\ beat[b].driver = d
      BY <2>1, <2>2, <2>3, <3>1, <3>2 DEF IntentInv, IntentTypeOK
    <3>3. CASE ~(beat[b] # NoBeat /\ beat[b].driver = d)
      <4>1. beat'[b] = beat[b] /\ beat[b] # NoBeat /\ beat[b].driver # d
        BY <2>1, <3>1, <3>3
      <4>2. intent'[beat[b].driver] = intent[beat[b].driver]
        BY <2>1, <4>1, BeatFacts DEF IntentInv, IntentTypeOK
      <4> QED
        BY <3>1, <4>1, <4>2 DEF IntentInv, BeatsInv
    <3> QED
      BY <3>2, <3>3
  <2> QED
    BY <2>4, <2>5 DEF IntentInv
<1> QED
  BY <1>2, <1>3

\* A beat is sent, located and read: it reads a row that stands firm.
LEMMA BeatKeeps ==
    ASSUME IntentInv, NEW b \in Beats,
           \/ \E d \in Riders : PhoneBeats(b, d)
           \/ updateDriverLocation(b) \/ recordHeartbeat(b)
    PROVE  IntentInv'
<1>1. /\ UNCHANGED <<intent, missed, leaving, knock, cooldown, toggles>>
      /\ available' \subseteq Riders /\ tombstone' \subseteq Riders
  BY BeatFacts DEF PhoneBeats, updateDriverLocation, recordHeartbeat, IntentInv, IntentTypeOK
<1>2. PICK new \in BeatInFlight \cup {NoBeat} :
         /\ beat' = [beat EXCEPT ![b] = new]
         /\ new # NoBeat /\ new.sentBefore /\ ~new.excused =>
               /\ new.at \in {"sent", "located"} => StandsFirm(intent[new.driver])
               /\ new.at = "read" => StandsFirm(new.read)
  <2>1. CASE \E d \in Riders : PhoneBeats(b, d)
    <3>1. PICK d \in Riders : PhoneBeats(b, d)
      BY <2>1
    <3> DEFINE new == [at |-> "sent", driver |-> d, sentBefore |-> FALSE,
                       read |-> NeverSeen, excused |-> FALSE]
    <3>2. new \in BeatInFlight /\ ~new.sentBefore
      BY DEF BeatInFlight, NeverSeen, Intent
    <3>3. beat' = [beat EXCEPT ![b] = new]
      BY <3>1 DEF PhoneBeats
    <3> QED
      BY <3>2, <3>3
  <2>2. CASE updateDriverLocation(b)
    <3> DEFINE new == [beat[b] EXCEPT !.at = "located"]
    <3>1. /\ beat[b] # NoBeat /\ beat[b].at = "sent"
          /\ beat' = [beat EXCEPT ![b] = new] \/ beat' = [beat EXCEPT ![b] = NoBeat]
      BY <2>2 DEF updateDriverLocation
    <3>2. beat[b] \in BeatInFlight
      BY <3>1, BeatFacts DEF IntentInv
    <3>3. /\ new \in BeatInFlight /\ new.at = "located" /\ new.driver = beat[b].driver
          /\ new.sentBefore = beat[b].sentBefore /\ new.excused = beat[b].excused
      BY <3>2 DEF BeatInFlight
    <3> HIDE DEF new
    <3> QED
      BY <3>1, <3>3 DEF IntentInv, BeatsInv
  <2>3. CASE recordHeartbeat(b)
    <3> DEFINE new == [beat[b] EXCEPT !.at = "read", !.read = intent[beat[b].driver]]
    <3>1. /\ beat[b] # NoBeat /\ beat[b].at = "located"
          /\ beat' = [beat EXCEPT ![b] = new]
      BY <2>3 DEF recordHeartbeat
    <3>2. beat[b] \in BeatInFlight /\ intent[beat[b].driver] \in Intent
      BY <3>1, BeatFacts DEF IntentInv, IntentTypeOK
    <3>3. /\ new \in BeatInFlight /\ new.at = "read" /\ new.read = intent[beat[b].driver]
          /\ new.sentBefore = beat[b].sentBefore /\ new.excused = beat[b].excused
      BY <3>2 DEF BeatInFlight
    <3> HIDE DEF new
    <3> QED
      BY <3>1, <3>3 DEF IntentInv, BeatsInv
  <2> QED
    BY <2>1, <2>2, <2>3
<1>3. IntentTypeOK'
  BY <1>1, <1>2 DEF IntentInv, IntentTypeOK
<1> QED
  BY <1>1, <1>2, <1>3 DEF IntentInv, IntentTypeOK, BeatsInv

\* A beat declares: at most it makes a row ONLINE.
LEMMA DeclaresKeep ==
    ASSUME IntentInv, NEW b \in Beats, BeatDeclares(b)
    PROVE  IntentInv'
<1> DEFINE d == beat[b].driver
<1>1. /\ beat[b] # NoBeat /\ beat' = [beat EXCEPT ![b] = NoBeat]
      /\ UNCHANGED <<available, leaving, knock, cooldown, toggles>>
  BY DEF BeatDeclares
<1>2. d \in Riders
  BY <1>1, BeatFacts DEF IntentInv
<1>3. Declared("ONLINE", "SYSTEM") \in Intent /\ StandsFirm(Declared("ONLINE", "SYSTEM"))
  BY DeclaredRow
<1>4. /\ \/ UNCHANGED intent
         \/ intent' = [intent EXCEPT ![d] = Declared("ONLINE", "SYSTEM")]
      /\ missed' = missed \/ missed' = [missed EXCEPT ![d] = 0]
      /\ tombstone' \subseteq tombstone
  BY DEF BeatDeclares
<1> HIDE DEF d
<1>5. IntentTypeOK'
  BY <1>1, <1>2, <1>3, <1>4, IntentAssumption DEF IntentInv, IntentTypeOK
<1> QED
  BY <1>1, <1>2, <1>3, <1>4, <1>5, BeatFacts DEF IntentInv, IntentTypeOK, BeatsInv

\* A minute passes: every beat of the driver is excused.
LEMMA MinuteKeeps ==
    ASSUME IntentInv, NEW d \in Riders, MinutePasses(d)
    PROVE  IntentInv'
<1> DEFINE old(b) == [beat[b] EXCEPT !.excused = TRUE]
<1>1. /\ intent' = [intent EXCEPT ![d] = [intent[d] EXCEPT !.recent = FALSE]]
      /\ beat' = [b \in Beats |->
            IF beat[b] # NoBeat /\ beat[b].driver = d THEN old(b) ELSE beat[b]]
      /\ UNCHANGED <<available, tombstone, missed, leaving, knock, cooldown, toggles>>
  BY DEF MinutePasses
<1>2. [intent[d] EXCEPT !.recent = FALSE] \in Intent
  BY DEF IntentInv, IntentTypeOK, Intent
<1>3. \A b \in Beats : beat[b] # NoBeat => old(b) \in BeatInFlight /\ old(b).excused
  <2>1. SUFFICES ASSUME NEW b \in Beats, beat[b] # NoBeat
                 PROVE  old(b) \in BeatInFlight /\ old(b).excused
    OBVIOUS
  <2>2. beat[b] \in BeatInFlight
    BY <2>1, BeatFacts DEF IntentInv
  <2> QED
    BY <2>2 DEF BeatInFlight
<1> HIDE DEF old
<1>4. IntentTypeOK'
  BY <1>1, <1>2, <1>3 DEF IntentInv, IntentTypeOK
<1>5. BeatsInv'
  <2>1. SUFFICES ASSUME NEW b \in Beats, beat'[b] # NoBeat, beat'[b].sentBefore,
                        ~beat'[b].excused
                 PROVE  /\ beat'[b].at \in {"sent", "located"} =>
                              StandsFirm(intent'[beat'[b].driver])
                        /\ beat'[b].at = "read" => StandsFirm(beat'[b].read)
    BY DEF BeatsInv, StandsFirm, Discards
  <2>2. beat'[b] = beat[b] /\ beat[b].driver # d
    BY <1>1, <1>3, <2>1
  <2>3. intent'[beat[b].driver] = intent[beat[b].driver]
    BY <1>1, <2>1, <2>2, BeatFacts DEF IntentInv, IntentTypeOK
  <2> QED
    BY <2>1, <2>2, <2>3 DEF IntentInv, BeatsInv
<1> QED
  BY <1>4, <1>5 DEF IntentInv

\* Knocks, keys and their ends: no row and no beat changes.
LEMMA KnocksKeep ==
    ASSUME IntentInv,
           \/ \E d \in Riders :
                 \/ removeDriverAvailability(d) \/ AvailabilityLapses(d) \/ CooldownEnds(d)
                 \/ \E k \in Knocks : Knocking(k, d)
           \/ \E k \in Knocks :
                 \/ ClaimsKnock(k)
                 \/ \E ok \in BOOLEAN : Pushes(k, ok) \/ WakeAnswered(k, ok)
    PROVE  IntentInv'
<1>1. UNCHANGED <<intent, beat, toggles>>
  BY DEF removeDriverAvailability, AvailabilityLapses, CooldownEnds, Knocking, ClaimsKnock,
         Pushes, WakeAnswered
<1>2. /\ available' \subseteq Riders /\ tombstone' \subseteq Riders /\ leaving' \subseteq Riders
      /\ cooldown' \subseteq Riders
      /\ missed' \in [Riders -> 0..UnreachableAfter]
      /\ knock' \in [Knocks -> KnockInFlight \cup {NoKnock}]
  <2>0. IntentTypeOK
    BY DEF IntentInv
  <2>1. CASE \E d \in Riders :
                removeDriverAvailability(d) \/ AvailabilityLapses(d) \/ CooldownEnds(d)
    BY <2>0, <2>1 DEF removeDriverAvailability, AvailabilityLapses, CooldownEnds, IntentTypeOK
  <2>2. ASSUME NEW d \in Riders, NEW k \in Knocks, Knocking(k, d)
        PROVE  knock' \in [Knocks -> KnockInFlight \cup {NoKnock}]
    <3>1. [at |-> "claim", driver |-> d] \in KnockInFlight
      BY DEF KnockInFlight
    <3> QED
      BY <2>0, <2>2, <3>1 DEF Knocking, IntentTypeOK
  <2>3. ASSUME NEW k \in Knocks, knock[k] # NoKnock, NEW at \in {"claim", "send", "wait"}
        PROVE  [knock[k] EXCEPT !.at = at] \in KnockInFlight /\ knock[k].driver \in Riders
    <3>1. knock[k] \in KnockInFlight
      BY <2>0, <2>3, KnockFacts
    <3> QED
      BY <3>1 DEF KnockInFlight
  <2>4. ASSUME NEW k \in Knocks, ClaimsKnock(k)
        PROVE  /\ knock' \in [Knocks -> KnockInFlight \cup {NoKnock}]
               /\ cooldown' \subseteq Riders /\ UNCHANGED <<available, tombstone, leaving, missed>>
    BY <2>0, <2>3, <2>4 DEF ClaimsKnock, IntentTypeOK
  <2>5. ASSUME NEW k \in Knocks, NEW ok \in BOOLEAN, Pushes(k, ok) \/ WakeAnswered(k, ok)
        PROVE  /\ knock' \in [Knocks -> KnockInFlight \cup {NoKnock}]
               /\ missed' \in [Riders -> 0..UnreachableAfter]
               /\ UNCHANGED <<available, tombstone, leaving, cooldown>>
    <3>1. knock[k] # NoKnock
      BY <2>5 DEF Pushes, WakeAnswered
    <3>2. knock[k].driver \in Riders /\ [knock[k] EXCEPT !.at = "wait"] \in KnockInFlight
      BY <2>3, <3>1
    <3>3. /\ knock' = [knock EXCEPT ![k] = [knock[k] EXCEPT !.at = "wait"]]
             \/ knock' = [knock EXCEPT ![k] = NoKnock]
          /\ \/ missed' = missed
             \/ missed' = [missed EXCEPT ![knock[k].driver] = 0]
             \/ missed' = [missed EXCEPT ![knock[k].driver] = OneMore(missed[knock[k].driver])]
      BY <2>5 DEF Pushes, WakeAnswered
    <3>4. OneMore(missed[knock[k].driver]) \in 0..UnreachableAfter
      BY <2>0, <3>2, OneMoreFits DEF IntentTypeOK
    <3> QED
      BY <2>0, <2>5, <3>2, <3>3, <3>4, IntentAssumption DEF Pushes, WakeAnswered, IntentTypeOK
  <2>6. ASSUME NEW d \in Riders, NEW k \in Knocks, Knocking(k, d)
        PROVE  UNCHANGED <<available, tombstone, leaving, missed, cooldown>>
    BY <2>6 DEF Knocking
  <2> QED
    BY <2>0, <2>1, <2>2, <2>4, <2>5, <2>6 DEF IntentTypeOK
<1> QED
  BY <1>1, <1>2 DEF IntentInv, IntentTypeOK, BeatsInv

LEMMA IntentInvInit == IntentInit => IntentInv
<1> SUFFICES ASSUME IntentInit PROVE IntentInv
  OBVIOUS
<1>1. NeverSeen \in Intent
  BY DEF NeverSeen, Intent
<1> QED
  BY <1>1, IntentAssumption DEF IntentInit, IntentInv, IntentTypeOK, BeatsInv

LEMMA IntentInvStep == IntentInv /\ [IntentNext]_intentVars => IntentInv'
<1> SUFFICES ASSUME IntentInv, [IntentNext]_intentVars PROVE IntentInv'
  OBVIOUS
<1>1. CASE UNCHANGED intentVars
  BY <1>1 DEF intentVars, IntentInv, IntentTypeOK, BeatsInv, StandsFirm, Discards
<1> QED
  BY <1>1, WordKeeps, BeatKeeps, DeclaresKeep, MinuteKeeps, KnocksKeep DEF IntentNext

LEMMA IntentInvariant == IntentSpec => []IntentInv
BY IntentInvInit, IntentInvStep, PTL DEF IntentSpec

\* The drivers' rows, the beats and the knocks keep the shapes that
\* driver_intent_service.ts and driver_wake_service.ts work with.
THEOREM IntentTypes == IntentSpec => []IntentTypeOK
BY IntentInvariant, PTL DEF IntentInv

\* The step that ends an old beat leaves the row as it is.
LEMMA DragsNobody ==
    ASSUME IntentInv, [IntentNext]_intentVars, NEW b \in Beats,
           beat[b] # NoBeat, beat[b].sentBefore, ~beat[b].excused, beat'[b] = NoBeat
    PROVE  intent' = intent
<1>1. beat[b] \in BeatInFlight
  BY BeatFacts DEF IntentInv
<1>2. ASSUME NEW d \in Riders, NEW by \in {"DRIVER", "ADMIN", "LOGOUT"}, setOffline(d, by)
      PROVE  FALSE
  <2>1. [beat[b] EXCEPT !.sentBefore = TRUE, !.excused = (beat[b].at = "read")] # NoBeat
    BY <1>1 DEF BeatInFlight, NoBeat
  <2> QED
    BY <1>2, <2>1 DEF setOffline
<1>3. ASSUME NEW d \in Riders, MinutePasses(d) PROVE FALSE
  <2>1. [beat[b] EXCEPT !.excused = TRUE] # NoBeat
    BY <1>1 DEF BeatInFlight, NoBeat
  <2> QED
    BY <1>3, <2>1 DEF MinutePasses
<1>4. ASSUME NEW d \in Riders, NEW by \in {"DRIVER", "ADMIN", "LOGOUT"}, setOnline(d, by)
      PROVE  FALSE
  BY <1>4 DEF setOnline
<1>5. ASSUME NEW c \in Beats, BeatDeclares(c) PROVE intent' = intent
  <2>1. c = b
    BY <1>5 DEF BeatDeclares, IntentInv, IntentTypeOK
  <2>2. StandsFirm(beat[b].read)
    BY <1>5, <2>1 DEF BeatDeclares, IntentInv, BeatsInv
  <2> QED
    BY <1>5, <2>1, <2>2 DEF BeatDeclares, StandsFirm
<1> QED
  BY <1>2, <1>3, <1>4, <1>5
     DEF IntentNext, intentVars, removeDriverAvailability, AvailabilityLapses, CooldownEnds,
         PhoneBeats, Knocking, updateDriverLocation, recordHeartbeat, ClaimsKnock, Pushes,
         WakeAnswered

\* A driver who left is not brought back by a beat that was under way, in any order
\* of beats, declarations and knocks (driver_intent_service.ts:127).
THEOREM NobodyDragged == IntentSpec => NoDragging
<1>1. IntentInv /\ [IntentNext]_intentVars =>
        [\A b \in Beats :
           /\ beat[b] # NoBeat /\ beat[b].sentBefore /\ ~beat[b].excused
           /\ beat'[b] = NoBeat
           => intent' = intent]_intentVars
  BY DragsNobody
<1> QED
  BY <1>1, IntentInvariant, PTL DEF NoDragging, IntentSpec

-----------------------------------------------------------------------------
(* What the passenger's phone shows                                         *)

\* The events that set the step whatever the screen shows.
Telling == Events \ {"offer_sent", "error", "exists"}
QuietAfter(i) == \A k \in DOMAIN wire : k > i => wire[k].event \notin Telling

\* The ride that is live, if there is one, is where the event left it.
SaysTrue(e) ==
    /\ e.event \in {"searching", "round", "offer_sent"} => tripRow[e.trip] = "searching"
    /\ e.event = "assigned" => tripRow[e.trip] = "accepted"
    /\ e.event = "arrived" => tripRow[e.trip] = "arrived"
    /\ e.event = "started" => tripRow[e.trip] = "in_progress"
    /\ e.event \in {"finished", "cancelled", "failed"} => LiveTrips = {}
    /\ e.event = "error" => tripRow[e.trip] \notin {"searching", "accepted", "arrived"}
    /\ e.event = "exists" => tripRow[e.trip] = "none" /\ LiveTrips # {}

\* The last event that tells the step tells the rows, and so do those behind it:
\* no row moves without telling.
WireTrue == \A i \in DOMAIN wire : QuietAfter(i) => SaysTrue(wire[i])

\* One ride is live at a time; what is still asked for is not there yet.
RowsApart ==
    /\ \A t, u \in LiveTrips : t = u
    /\ \A t \in Trips : <<"request", t>> \in uplink => tripRow[t] = "none"

\* An answer that was not overtaken is true unless an event behind it tells.
AnswerTrue(a) ==
    a.at = "answered" =>
        /\ a.ahead <= Len(wire)
        /\ ~a.overtaken /\ QuietAfter(a.ahead) =>
              /\ a.trip = NoTrip => LiveTrips = {}
              /\ a.trip # NoTrip =>
                    a.trip \in LiveTrips /\ a.step = stepFor(tripRow[a.trip])
AnswersTrue == \A f \in Fetches : AnswerTrue(fetch[f])

\* The screen fits the rows, and names the live ride if it names any.
Fits ==
    IF LiveTrips = {} THEN screen.step \notin Tracking \cup {"searching", "offerSent"}
    ELSE \E t \in LiveTrips :
            /\ screen.trip \in {t, NoTrip}
            /\ \/ screen.step = stepFor(tripRow[t])
               \/ screen.step = "offerSent" /\ tripRow[t] = "searching"

\* It searches for a ride that is asked for, or was refused.
Refused(t) == \E i \in DOMAIN wire : wire[i].event = "error" /\ wire[i].trip = t
Awaiting ==
    /\ LiveTrips = {} /\ screen.step = "searching" /\ screen.trip # NoTrip
    /\ <<"request", screen.trip>> \in uplink \/ Refused(screen.trip)

\* It waits to hear that the ride it names is cancelled.
Leaving == screen.step = "loading" /\ screen.trip # NoTrip

ScreenTrue == ~doubt /\ QuietAfter(0) => Leaving \/ Fits \/ Awaiting

AppInv == AppTypeOK /\ RowsApart /\ WireTrue /\ AnswersTrue /\ ScreenTrue

-----------------------------------------------------------------------------

Status == Live \cup {"none", "completed", "over"}
OnWire == [event : Events, trip : Trips]
Seen == [step : AppStep, trip : Trips \cup {NoTrip}]
Asked == [at : {"off", "asked", "answered"}, trip : Trips \cup {NoTrip}, step : AppStep,
          ahead : 0..MaxWire, overtaken : BOOLEAN]

LEMMA AppSays ==
    ASSUME AppTypeOK
    PROVE  /\ tripRow \in [Trips -> Status] /\ wire \in Seq(OnWire)
           /\ Len(wire) \in Nat /\ Len(wire) <= MaxWire /\ DOMAIN wire = 1..Len(wire)
           /\ \A i \in DOMAIN wire : wire[i] \in OnWire
           /\ uplink \subseteq {"request", "cancel"} \X Trips /\ screen \in Seen
           /\ fetch \in [Fetches -> Asked] /\ unresolved \in BOOLEAN /\ doubt \in BOOLEAN
           /\ fixes \in 0..MaxFixes
<1>1. /\ tripRow \in [Trips -> Status] /\ wire \in Seq(OnWire) /\ Len(wire) <= MaxWire
      /\ uplink \subseteq {"request", "cancel"} \X Trips /\ screen \in Seen
      /\ fetch \in [Fetches -> Asked]
  BY Zenon DEF AppTypeOK, Status, OnWire, Seen, Asked
<1>2. unresolved \in BOOLEAN /\ doubt \in BOOLEAN /\ fixes \in 0..MaxFixes
  BY DEF AppTypeOK
<1>3. \A i \in DOMAIN wire : wire[i] \in OnWire
  <2> HIDE DEF OnWire
  <2> QED
    BY <1>1
<1> QED
  BY <1>1, <1>2, <1>3

\* An event that is sent is the last.
LEMMA SentSays ==
    ASSUME AppTypeOK, NEW event \in Events, NEW t \in Trips, Send(event, t)
    PROVE  /\ wire' \in Seq(OnWire) /\ Len(wire') = Len(wire) + 1 /\ Len(wire') <= MaxWire
           /\ DOMAIN wire' = 1..(Len(wire) + 1)
           /\ \A i \in DOMAIN wire : wire'[i] = wire[i]
           /\ wire'[Len(wire) + 1] = [event |-> event, trip |-> t]
<1> DEFINE e == [event |-> event, trip |-> t]
<1>1. e \in OnWire /\ wire \in Seq(OnWire) /\ Len(wire) < MaxWire /\ wire' = Append(wire, e)
  BY AppSays DEF Send, OnWire
<1>2. MaxWire \in Nat /\ Len(wire) \in Nat
  BY AppAssumption, AppSays DEF AppAssumption
<1> HIDE DEF e
<1> QED
  BY <1>1, <1>2 DEF e

\* A telling event leaves nothing quiet before it; another one leaves all as it was.
LEMMA SentQuiet ==
    ASSUME AppTypeOK, NEW event \in Events, NEW t \in Trips, Send(event, t), NEW i \in Nat
    PROVE  /\ event \in Telling /\ i <= Len(wire) => ~QuietAfter(i)'
           /\ QuietAfter(i)' => QuietAfter(i)
<1>1. Len(wire) \in Nat /\ DOMAIN wire = 1..Len(wire)
  BY AppSays
<1>0. /\ DOMAIN wire' = 1..(Len(wire) + 1) /\ \A k \in DOMAIN wire : wire'[k] = wire[k]
      /\ wire'[Len(wire) + 1] = [event |-> event, trip |-> t]
  BY Zenon, SentSays
<1>2. Len(wire) + 1 \in DOMAIN wire' /\ wire'[Len(wire) + 1].event = event
  BY <1>0, <1>1
<1>3. \A k \in DOMAIN wire : k \in DOMAIN wire' /\ wire'[k] = wire[k]
  BY <1>0, <1>1
<1> QED
  BY <1>1, <1>2, <1>3 DEF QuietAfter

\* The event at the head is handled: the others move up.
LEMMA HandledSaysWire ==
    ASSUME AppTypeOK, wire # <<>>, wire' = Tail(wire)
    PROVE  /\ wire' \in Seq(OnWire) /\ Len(wire') = Len(wire) - 1
           /\ DOMAIN wire' = 1..(Len(wire) - 1) /\ Len(wire) >= 1
           /\ \A i \in DOMAIN wire' : i + 1 \in DOMAIN wire /\ wire'[i] = wire[i + 1]
           /\ Head(wire) = wire[1] /\ 1 \in DOMAIN wire
BY AppSays

LEMMA HandledQuiet ==
    ASSUME AppTypeOK, wire # <<>>, wire' = Tail(wire), NEW i \in Nat
    PROVE  QuietAfter(i)' <=> QuietAfter(i + 1)
<1>1. Len(wire) \in Nat /\ DOMAIN wire = 1..Len(wire)
  BY AppSays
<1>2. ASSUME QuietAfter(i)', NEW k \in DOMAIN wire, k > i + 1
      PROVE  wire[k].event \notin Telling
  <2>1. k - 1 \in DOMAIN wire' /\ k - 1 > i /\ wire'[k - 1] = wire[(k - 1) + 1]
    BY <1>1, <1>2, HandledSaysWire
  <2>2. (k - 1) + 1 = k
    BY <1>1, <1>2
  <2> QED
    BY <1>2, <2>1, <2>2 DEF QuietAfter
<1>3. ASSUME QuietAfter(i + 1), NEW k \in DOMAIN wire', k > i
      PROVE  wire'[k].event \notin Telling
  BY <1>1, <1>3, HandledSaysWire DEF QuietAfter
<1> QED
  BY <1>2, <1>3 DEF QuietAfter

\* What an answer promises is still so when the rows are, and no more was handled.
LEMMA StepForSays ==
    /\ \A status : stepFor(status) \in {"searching", "confirmed", "arrived", "started"}
    /\ stepFor("searching") = "searching" /\ stepFor("accepted") = "confirmed"
    /\ stepFor("arrived") = "arrived" /\ stepFor("in_progress") = "started"
    /\ \A status \in Live \ {"searching"} : stepFor(status) # "searching"
BY DEF stepFor, Live

LEMMA AppInitially == AppInit => AppInv
<1> SUFFICES ASSUME AppInit PROVE AppInv
  OBVIOUS
<1>1. NotAsking \in Asked /\ NotAsking.at = "off"
  BY AppAssumption DEF NotAsking, Asked, AppStep, AppAssumption
<1>2. AppTypeOK
  <2>1. wire \in Seq(OnWire) /\ Len(wire) = 0 /\ MaxWire \in Nat /\ fixes \in 0..MaxFixes
    BY AppAssumption DEF AppInit, AppAssumption
  <2>2. fetch \in [Fetches -> Asked] /\ screen \in Seen
    BY <1>1 DEF AppInit, Seen, AppStep
  <2>3. tripRow \in [Trips -> Status]
    BY DEF AppInit, Status
  <2> QED
    BY <2>1, <2>2, <2>3 DEF AppInit, AppTypeOK, Seen, Asked, OnWire, Status
<1>3. DOMAIN wire = {} /\ LiveTrips = {}
  BY DEF AppInit, LiveTrips, Live
<1> QED
  BY <1>1, <1>2, <1>3
     DEF AppInit, AppInv, RowsApart, WireTrue, AnswersTrue, AnswerTrue, ScreenTrue

\* A step that tells the phone leaves nothing to promise but the truth of what it tells.
LEMMA ToldApp ==
    ASSUME AppInv, AppTypeOK', RowsApart', NEW event \in Telling, NEW t \in Trips,
           Send(event, t), fetch' = fetch, SaysTrue([event |-> event, trip |-> t])'
    PROVE  AppInv'
<1> DEFINE e == [event |-> event, trip |-> t]
<1>0. AppTypeOK /\ Len(wire) \in Nat /\ event \in Events /\ fetch \in [Fetches -> Asked]
  BY AppSays DEF AppInv, Telling
<1>1. /\ DOMAIN wire' = 1..(Len(wire) + 1) /\ wire'[Len(wire) + 1] = e
      /\ Len(wire') = Len(wire) + 1
  BY Zenon, SentSays, <1>0
<1>2. \A i \in Nat : i <= Len(wire) => ~QuietAfter(i)'
  BY <1>0, SentQuiet
<1>3. WireTrue'
  <2> SUFFICES ASSUME NEW i \in DOMAIN wire', QuietAfter(i)' PROVE SaysTrue(wire[i])'
    BY DEF WireTrue
  <2>1. i = Len(wire) + 1
    BY <1>0, <1>1, <1>2
  <2>2. wire'[i] = e
    BY <1>1, <2>1
  <2>3. SaysTrue(e)'
    OBVIOUS
  <2> HIDE DEF e
  <2> QED
    BY <2>2, <2>3 DEF SaysTrue
<1>4. AnswersTrue'
  <2> SUFFICES ASSUME NEW f \in Fetches, fetch[f].at = "answered"
               PROVE  fetch[f].ahead <= Len(wire') /\ ~QuietAfter(fetch[f].ahead)'
    BY DEF AnswersTrue, AnswerTrue
  <2>1. fetch[f].ahead <= Len(wire)
    BY DEF AppInv, AnswersTrue, AnswerTrue
  <2>2. fetch[f].ahead \in Nat
    BY <1>0 DEF Asked
  <2> QED
    BY <1>0, <1>1, <1>2, <2>1, <2>2 DEF QuietAfter
<1>5. ScreenTrue'
  BY <1>0, <1>2 DEF ScreenTrue
<1> QED
  BY <1>3, <1>4, <1>5 DEF AppInv

\* What the other events tell is true of rows that stand still.
LEMMA WhisperedApp ==
    ASSUME AppInv, AppTypeOK', RowsApart', NEW event \in Events, NEW t \in Trips,
           Send(event, t), UNCHANGED <<tripRow, fetch, screen, doubt>>,
           SaysTrue([event |-> event, trip |-> t]), Awaiting => Awaiting'
    PROVE  AppInv'
<1> DEFINE e == [event |-> event, trip |-> t]
<1>0. /\ AppTypeOK /\ Len(wire) \in Nat /\ DOMAIN wire = 1..Len(wire)
      /\ fetch \in [Fetches -> Asked]
  BY AppSays DEF AppInv
<1>1. /\ DOMAIN wire' = 1..(Len(wire) + 1) /\ wire'[Len(wire) + 1] = e
      /\ \A i \in DOMAIN wire : wire'[i] = wire[i]
      /\ Len(wire') = Len(wire) + 1
  BY Zenon, SentSays, <1>0
<1>2. \A i \in Nat : QuietAfter(i)' => QuietAfter(i)
  BY <1>0, SentQuiet
<1>3. WireTrue'
  <2> SUFFICES ASSUME NEW i \in DOMAIN wire', QuietAfter(i)' PROVE SaysTrue(wire[i])'
    BY DEF WireTrue
  <2>1. SaysTrue(wire'[i])
    <3>1. CASE i = Len(wire) + 1
      BY <1>1, <3>1
    <3>2. CASE i # Len(wire) + 1
      <4>1. i \in DOMAIN wire /\ i \in Nat
        BY <1>0, <1>1, <3>2
      <4> QED
        BY <1>1, <1>2, <4>1 DEF AppInv, WireTrue
    <3> QED
      BY <3>1, <3>2
  <2> QED
    BY <2>1 DEF SaysTrue, LiveTrips
<1>4. AnswersTrue'
  <2> SUFFICES ASSUME NEW f \in Fetches PROVE AnswerTrue(fetch[f])'
    BY DEF AnswersTrue
  <2>1. AnswerTrue(fetch[f]) /\ fetch[f].ahead \in Nat
    BY <1>0 DEF AppInv, AnswersTrue, Asked
  <2>2. QuietAfter(fetch[f].ahead)' => QuietAfter(fetch[f].ahead)
    BY <1>2, <2>1 DEF QuietAfter
  <2> QED
    BY <1>0, <1>1, <2>1, <2>2 DEF AnswerTrue, LiveTrips
<1>5. ScreenTrue'
  BY <1>2 DEF AppInv, ScreenTrue, Leaving, Fits, LiveTrips
<1> QED
  BY <1>3, <1>4, <1>5 DEF AppInv

-----------------------------------------------------------------------------
(* The passenger's taps *)

\* A step of the phone alone moves the screen, and what it asked for.
LEMMA TappedApp ==
    ASSUME AppInv, AppTypeOK', RowsApart', UNCHANGED <<tripRow, wire, fetch>>, ScreenTrue'
    PROVE  AppInv'
<1>1. \A i : QuietAfter(i)' <=> QuietAfter(i)
  BY DEF QuietAfter
<1>2. WireTrue'
  BY <1>1 DEF AppInv, WireTrue, SaysTrue, LiveTrips
<1>3. AnswersTrue'
  BY <1>1 DEF AppInv, AnswersTrue, AnswerTrue, LiveTrips, QuietAfter
<1> QED
  BY <1>2, <1>3 DEF AppInv

LEMMA AppDispatches == ASSUME AppInv, NEW t \in Trips, dispatchRequest(t) PROVE AppInv'
<1>1. screen' \in Seen /\ screen' = [step |-> "searching", trip |-> t]
  BY DEF dispatchRequest, Show, Seen, AppStep
<1>2. AppTypeOK'
  BY <1>1 DEF dispatchRequest, AppInv, AppTypeOK, Seen
<1>3. RowsApart'
  BY DEF dispatchRequest, AppInv, RowsApart, LiveTrips
<1>4. ScreenTrue'
  <2> SUFFICES ASSUME ~doubt, QuietAfter(0) PROVE Awaiting'
    BY DEF ScreenTrue, dispatchRequest, QuietAfter
  <2>1. screen.step = "booking" /\ <<"request", t>> \in uplink' /\ tripRow' = tripRow
    BY DEF dispatchRequest
  <2>2. Fits
    BY <2>1 DEF AppInv, ScreenTrue, Leaving, Awaiting
  <2>3. LiveTrips = {}
    BY <2>1, <2>2, StepForSays DEF Fits
  <2>4. t # NoTrip
    BY AppAssumption DEF AppAssumption
  <2> QED
    BY <1>1, <2>1, <2>3, <2>4 DEF Awaiting, LiveTrips
<1> QED
  BY <1>2, <1>3, <1>4, TappedApp DEF dispatchRequest

LEMMA AppCancels == ASSUME AppInv, cancelBooking PROVE AppInv'
<1>1. screen' \in Seen /\ screen' = [step |-> "loading", trip |-> screen.trip]
      /\ screen.trip \in Trips /\ screen.trip # NoTrip
  BY DEF cancelBooking, Show, Seen, AppStep, AppInv, AppTypeOK
<1>2. AppTypeOK'
  BY <1>1 DEF cancelBooking, AppInv, AppTypeOK, Seen
<1>3. RowsApart'
  BY DEF cancelBooking, AppInv, RowsApart, LiveTrips
<1>4. ScreenTrue'
  BY <1>1 DEF ScreenTrue, Leaving
<1> QED
  BY <1>2, <1>3, <1>4, TappedApp DEF cancelBooking

LEMMA AppDismisses == ASSUME AppInv, dismissReceipt PROVE AppInv'
<1>1. screen' \in Seen /\ screen'.step = "booking" /\ screen.step = "completed"
  BY DEF dismissReceipt, Show, Seen, AppStep
<1>2. AppTypeOK'
  BY <1>1 DEF dismissReceipt, AppInv, AppTypeOK, Seen
<1>3. RowsApart'
  BY DEF dismissReceipt, AppInv, RowsApart, LiveTrips
<1>4. ScreenTrue'
  <2> SUFFICES ASSUME ~doubt, QuietAfter(0) PROVE Fits'
    BY DEF ScreenTrue, dismissReceipt, QuietAfter
  <2>1. Fits
    BY <1>1 DEF AppInv, ScreenTrue, Leaving, Awaiting
  <2>2. LiveTrips = {} /\ tripRow' = tripRow
    BY <1>1, <2>1, StepForSays DEF Fits, dismissReceipt
  <2> QED
    BY <1>1, <2>2 DEF Fits, LiveTrips, Tracking
<1> QED
  BY <1>2, <1>3, <1>4, TappedApp DEF dismissReceipt

LEMMA AppGivesUp == ASSUME AppInv, GivesUp PROVE AppInv'
<1>1. screen' \in Seen
  BY DEF GivesUp, Show, Seen, AppStep
<1>2. AppTypeOK'
  BY <1>1 DEF GivesUp, AppInv, AppTypeOK, Seen
<1>3. RowsApart'
  BY DEF GivesUp, AppInv, RowsApart, LiveTrips
<1>4. ScreenTrue'
  BY DEF ScreenTrue, GivesUp
<1> QED
  BY <1>2, <1>3, <1>4, TappedApp DEF GivesUp

\* The map is laid out over a screen of no ride, or over one it is wrong to hide.
LEMMA AppLaysOut == ASSUME AppInv, LayOutMap PROVE AppInv'
<1>0. screen \in Seen /\ fixes \in 0..MaxFixes /\ fixes > 0 /\ MaxFixes \in Nat
  BY AppSays, AppAssumption DEF AppInv, LayOutMap, AppAssumption
<1>1. /\ screen' \in Seen /\ screen'.step = "booking" /\ fixes' \in 0..MaxFixes
      /\ doubt' \in BOOLEAN
  BY <1>0 DEF LayOutMap, Seen, AppStep
<1>2. AppTypeOK'
  BY <1>1 DEF LayOutMap, AppInv, AppTypeOK, Seen
<1>3. RowsApart'
  BY DEF LayOutMap, AppInv, RowsApart, LiveTrips
<1>4. ScreenTrue'
  <2> SUFFICES ASSUME ~doubt', QuietAfter(0) PROVE Fits'
    BY DEF ScreenTrue, LayOutMap, QuietAfter
  <2>1. ~doubt /\ screen.step \in {"loading", "booking"} /\ tripRow' = tripRow
        /\ (screen.step = "loading" => screen.trip = NoTrip)
    BY DEF LayOutMap
  <2>2. Fits
    BY <2>1 DEF AppInv, ScreenTrue, Leaving, Awaiting
  <2>3. LiveTrips = {}
    BY <2>1, <2>2, StepForSays DEF Fits
  <2> QED
    BY <1>1, <2>1, <2>3 DEF Fits, LiveTrips, Tracking
<1> QED
  BY <1>2, <1>3, <1>4, TappedApp DEF LayOutMap

-----------------------------------------------------------------------------
(* The server *)

LEMMA SentType ==
    ASSUME AppInv, NEW event \in Events, NEW t \in Trips, Send(event, t),
           tripRow' \in [Trips -> Status], uplink' \subseteq uplink,
           UNCHANGED <<screen, fetch, fixes, unresolved, doubt>>
    PROVE  AppTypeOK'
<1>1. wire' \in Seq(OnWire) /\ Len(wire') <= MaxWire
  BY Zenon, SentSays DEF AppInv
<1>2. /\ uplink \subseteq {"request", "cancel"} \X Trips /\ screen \in Seen
      /\ fetch \in [Fetches -> Asked] /\ {unresolved, doubt} \subseteq BOOLEAN
      /\ fixes' \in 0..MaxFixes
  BY AppSays DEF AppInv
<1>3. uplink' \subseteq {"request", "cancel"} \X Trips
  BY <1>2
<1> QED
  BY Zenon, <1>1, <1>2, <1>3 DEF AppTypeOK, Status, OnWire, Seen, Asked

LEMMA AppSaves == ASSUME AppInv, NEW t \in Trips, SaveTrip(t) PROVE AppInv'
<1>0. /\ tripRow \in [Trips -> Status] /\ tripRow[t] = "none" /\ <<"request", t>> \in uplink
      /\ Len(wire) \in Nat /\ DOMAIN wire = 1..Len(wire) /\ AppTypeOK
  BY AppSays DEF AppInv, RowsApart, SaveTrip
<1>1. CASE LiveTrips # {}
  <2>1. tripRow' = tripRow /\ Send("exists", t) /\ uplink' = uplink \ {<<"request", t>>}
    BY <1>1 DEF SaveTrip
  <2>2. AppTypeOK'
    BY <1>0, <2>1, SentType DEF SaveTrip, Events
  <2>3. RowsApart'
    BY <2>1 DEF AppInv, RowsApart, LiveTrips
  <2>4. SaysTrue([event |-> "exists", trip |-> t]) /\ ~Awaiting
    BY <1>0, <1>1 DEF SaysTrue, Awaiting
  <2> QED
    BY <2>1, <2>2, <2>3, <2>4, WhisperedApp DEF SaveTrip, Events
<1>2. CASE LiveTrips = {} /\ tripRow' = tripRow /\ Send("error", t)
  <2>1. uplink' = uplink \ {<<"request", t>>}
    BY DEF SaveTrip
  <2>2. AppTypeOK'
    BY <1>0, <1>2, <2>1, SentType DEF SaveTrip, Events
  <2>3. RowsApart'
    BY <1>2, <2>1 DEF AppInv, RowsApart, LiveTrips
  <2>4. SaysTrue([event |-> "error", trip |-> t])
    BY <1>0 DEF SaysTrue
  <2>5. Awaiting => Awaiting'
    <3>1. /\ DOMAIN wire' = 1..(Len(wire) + 1)
          /\ \A i \in DOMAIN wire : wire'[i] = wire[i]
          /\ wire'[Len(wire) + 1] = [event |-> "error", trip |-> t]
      BY Zenon, <1>0, <1>2, SentSays DEF Events
    <3>2. Refused(t)' /\ \A u : Refused(u) => Refused(u)'
      BY <1>0, <3>1 DEF Refused
    <3>3. ASSUME Awaiting PROVE Awaiting'
      <4>1. screen' = screen /\ LiveTrips' = {}
        BY <1>2 DEF SaveTrip, LiveTrips
      <4>2. CASE screen.trip = t
        BY <3>2, <3>3, <4>1, <4>2 DEF Awaiting, Refused
      <4>3. CASE screen.trip # t
        BY <2>1, <3>2, <3>3, <4>1, <4>3 DEF Awaiting, Refused
      <4> QED
        BY <4>2, <4>3
    <3> QED
      BY <3>3
  <2> QED
    BY <1>2, <2>2, <2>3, <2>4, <2>5, WhisperedApp DEF SaveTrip, Events
<1>3. CASE /\ LiveTrips = {} /\ Send("searching", t)
           /\ tripRow' = [tripRow EXCEPT ![t] = "searching"]
  <2>1. uplink' = uplink \ {<<"request", t>>}
    BY DEF SaveTrip
  <2>2. tripRow' \in [Trips -> Status] /\ tripRow'[t] = "searching" /\ LiveTrips' = {t}
    BY <1>0, <1>3 DEF Status, LiveTrips, Live
  <2>3. AppTypeOK'
    BY <1>0, <1>3, <2>1, <2>2, SentType DEF SaveTrip, Events
  <2>4. RowsApart'
    BY <1>0, <1>3, <2>1, <2>2 DEF AppInv, RowsApart
  <2>5. SaysTrue([event |-> "searching", trip |-> t])'
    BY <2>2 DEF SaysTrue
  <2> QED
    BY <1>3, <2>3, <2>4, <2>5, ToldApp DEF SaveTrip, Events, Telling
<1> QED
  BY <1>1, <1>2, <1>3 DEF SaveTrip

\* The ride that is live is the only one.
LEMMA OnlyLive ==
    ASSUME AppInv, NEW t \in Trips, tripRow[t] \in Live, NEW s \in Status,
           tripRow' = [tripRow EXCEPT ![t] = s]
    PROVE  /\ tripRow \in [Trips -> Status] /\ tripRow' \in [Trips -> Status]
           /\ tripRow'[t] = s /\ LiveTrips = {t}
           /\ s \in Live => LiveTrips' = {t}
           /\ s \notin Live => LiveTrips' = {}
<1>1. tripRow \in [Trips -> Status]
  BY AppSays DEF AppInv
<1>2. LiveTrips = {t}
  BY DEF AppInv, RowsApart, LiveTrips
<1>3. /\ tripRow' \in [Trips -> Status] /\ tripRow'[t] = s
      /\ \A u \in Trips \ {t} : tripRow'[u] = tripRow[u]
  BY <1>1
<1>4. \A u \in Trips \ {t} : tripRow'[u] \notin Live
  BY <1>2, <1>3 DEF LiveTrips
<1> QED
  BY <1>1, <1>2, <1>3, <1>4 DEF LiveTrips

LEMMA AppCancelled == ASSUME AppInv, NEW t \in Trips, CancelTrip(t) PROVE AppInv'
<1>0. /\ tripRow \in [Trips -> Status] /\ uplink' = uplink \ {<<"cancel", t>>}
      /\ UNCHANGED <<screen, fetch, fixes, unresolved, doubt>> /\ AppTypeOK
      /\ Len(wire) \in Nat /\ DOMAIN wire = 1..Len(wire)
  BY AppSays DEF AppInv, CancelTrip
<1>1. CASE tripRow[t] \in {"searching", "accepted", "arrived"}
  <2>1. /\ tripRow' = [tripRow EXCEPT ![t] = "over"] /\ Send("cancelled", t)
        /\ tripRow[t] \in Live /\ "over" \in Status \ Live /\ "cancelled" \in Telling
    BY <1>1 DEF CancelTrip, Live, Status, Telling, Events
  <2>2. tripRow' \in [Trips -> Status] /\ LiveTrips' = {} /\ LiveTrips = {t}
    BY <2>1, OnlyLive
  <2>3. AppTypeOK'
    BY <1>0, <2>1, <2>2, SentType DEF Telling
  <2>4. RowsApart'
    <3> SUFFICES ASSUME NEW u \in Trips, <<"request", u>> \in uplink PROVE tripRow'[u] = "none"
      BY <1>0, <2>2 DEF RowsApart
    <3>1. tripRow[u] = "none" /\ u # t
      BY <1>1 DEF AppInv, RowsApart
    <3> QED
      BY <1>0, <2>1, <3>1
  <2>5. SaysTrue([event |-> "cancelled", trip |-> t])'
    BY <2>2 DEF SaysTrue
  <2> QED
    BY <1>0, <2>1, <2>3, <2>4, <2>5, ToldApp
<1>2. CASE tripRow[t] \notin {"searching", "accepted", "arrived"}
  <2>1. tripRow' = tripRow /\ Send("error", t)
    BY <1>2 DEF CancelTrip
  <2>2. AppTypeOK'
    BY <1>0, <2>1, SentType DEF Events
  <2>3. RowsApart'
    BY <1>0, <2>1 DEF AppInv, RowsApart, LiveTrips
  <2>4. SaysTrue([event |-> "error", trip |-> t])
    BY <1>2 DEF SaysTrue
  <2>5. Awaiting => Awaiting'
    <3>1. /\ DOMAIN wire' = 1..(Len(wire) + 1)
          /\ \A i \in DOMAIN wire : wire'[i] = wire[i]
      BY Zenon, <1>0, <2>1, SentSays DEF Events
    <3>2. \A u : Refused(u) => Refused(u)'
      BY <1>0, <3>1 DEF Refused
    <3>3. \A u : <<"request", u>> \in uplink => <<"request", u>> \in uplink'
      BY <1>0
    <3> QED
      BY <1>0, <2>1, <3>2, <3>3 DEF Awaiting, LiveTrips, Refused
  <2> QED
    BY <1>0, <2>1, <2>2, <2>3, <2>4, <2>5, WhisperedApp DEF Events
<1> QED
  BY <1>1, <1>2

LEMMA AppAdvances == ASSUME AppInv, NEW t \in Trips, TripAdvances(t) PROVE AppInv'
<1>0. /\ tripRow \in [Trips -> Status] /\ AppTypeOK
      /\ UNCHANGED <<uplink, screen, fetch, fixes, unresolved, doubt>>
  BY AppSays DEF AppInv, TripAdvances
<1>1. PICK move \in Advance : /\ tripRow[t] = move[1] /\ Send(move[3], t)
                              /\ tripRow' = [tripRow EXCEPT ![t] = move[2]]
  BY DEF TripAdvances
<1>2. move[1] \in Live /\ move[2] \in Status /\ move[3] \in Events
  BY DEF Advance, Live, Status, Events
<1>3. /\ tripRow' \in [Trips -> Status] /\ tripRow'[t] = move[2] /\ LiveTrips = {t}
      /\ move[2] \in Live => LiveTrips' = {t}
      /\ move[2] \notin Live => LiveTrips' = {}
  BY Zenon, <1>1, <1>2, OnlyLive
<1>4. AppTypeOK'
  BY <1>0, <1>1, <1>2, <1>3, SentType
<1>5. RowsApart'
  <2>1. \A u, v \in LiveTrips' : u = v
    BY <1>3
  <2>2. ASSUME NEW u \in Trips, <<"request", u>> \in uplink PROVE tripRow'[u] = "none"
    <3>1. tripRow[u] = "none" /\ u # t
      BY <1>1, <1>2, <2>2 DEF AppInv, RowsApart, Live
    <3> QED
      BY <1>0, <1>1, <3>1
  <2> QED
    BY <1>0, <2>1, <2>2 DEF RowsApart
<1>6. CASE move[3] # "offer_sent"
  <2>1. move[3] \in Telling
    BY <1>6 DEF Advance, Telling, Events
  <2>2. SaysTrue([event |-> move[3], trip |-> t])'
    BY <1>3, <1>6 DEF SaysTrue, Advance, Live
  <2> QED
    BY <1>0, <1>1, <1>4, <1>5, <2>1, <2>2, ToldApp
<1>7. CASE move[3] = "offer_sent"
  <2>1. move[1] = "searching" /\ move[2] = "searching"
    BY <1>7 DEF Advance
  <2>2. tripRow' = tripRow
    BY <1>0, <1>1, <2>1
  <2>3. SaysTrue([event |-> move[3], trip |-> t])
    BY <1>1, <1>7, <2>1 DEF SaysTrue
  <2>4. ~Awaiting
    BY <1>3 DEF Awaiting
  <2> QED
    BY <1>0, <1>1, <1>2, <1>4, <1>5, <2>2, <2>3, <2>4, WhisperedApp
<1> QED
  BY <1>6, <1>7

-----------------------------------------------------------------------------
(* What it asks and is answered                                             *)

\* A step that leaves the rows, the wire and the screen alone.
LEMMA AnsweredApp ==
    ASSUME AppInv, UNCHANGED <<tripRow, wire, uplink, screen, fixes, unresolved, doubt>>,
           NEW f \in Fetches, NEW a \in Asked, fetch' = [fetch EXCEPT ![f] = a],
           AnswerTrue(a)
    PROVE  AppInv'
<1>0. fetch \in [Fetches -> Asked]
  BY AppSays DEF AppInv
<1>1. fetch' \in [Fetches -> Asked] /\ \A g \in Fetches : fetch'[g] \in {a, fetch[g]}
  BY <1>0
<1>2. AppTypeOK'
  BY <1>1 DEF AppInv, AppTypeOK, Asked
<1>3. \A i : QuietAfter(i)' <=> QuietAfter(i)
  BY DEF QuietAfter
<1>4. WireTrue' /\ RowsApart' /\ ScreenTrue'
  BY <1>3 DEF AppInv, WireTrue, RowsApart, ScreenTrue, SaysTrue, LiveTrips, Fits,
     Leaving, Awaiting, Refused
<1>5. AnswersTrue'
  <2> SUFFICES ASSUME NEW g \in Fetches PROVE AnswerTrue(fetch[g])'
    BY DEF AnswersTrue
  <2>1. PICK b \in Asked : b = fetch'[g] /\ AnswerTrue(b)
    BY <1>0, <1>1 DEF AppInv, AnswersTrue
  <2>2. AnswerTrue(b)'
    BY <1>3, <2>1 DEF AnswerTrue, LiveTrips, QuietAfter
  <2> QED
    BY <2>1, <2>2 DEF AnswerTrue, QuietAfter
<1> QED
  BY <1>2, <1>4, <1>5 DEF AppInv

LEMMA NotAskingSays == NotAsking \in Asked /\ NotAsking.at = "off" /\ AnswerTrue(NotAsking)
BY AppAssumption DEF NotAsking, Asked, AppStep, AppAssumption, AnswerTrue

LEMMA AskedSays ==
    ASSUME NEW fs \in [Fetches -> Asked], NEW f \in Fetches
    PROVE  /\ Ask(fs, f) \in [Fetches -> Asked] /\ Ask(fs, f)[f].at = "asked"
           /\ \A g \in Fetches \ {f} : Ask(fs, f)[g] = fs[g]
           /\ [NotAsking EXCEPT !.at = "asked"] \in Asked
           /\ [NotAsking EXCEPT !.at = "asked"].at = "asked"
BY NotAskingSays DEF Ask, NotAsking, Asked

LEMMA AppAsks == ASSUME AppInv, NEW f \in Fetches, recoverActiveRide(f) PROVE AppInv'
<1> DEFINE a == [NotAsking EXCEPT !.at = "asked"]
<1>1. a \in Asked /\ a.at = "asked" /\ fetch' = [fetch EXCEPT ![f] = a]
  BY AppSays, AskedSays DEF AppInv, recoverActiveRide, Ask
<1>2. AnswerTrue(a)
  BY <1>1 DEF AnswerTrue
<1> HIDE DEF a
<1> QED
  BY <1>1, <1>2, AnsweredApp DEF recoverActiveRide

LEMMA AppFails == ASSUME AppInv, NEW f \in Fetches, RecoveryFails(f) PROVE AppInv'
BY NotAskingSays, AnsweredApp DEF RecoveryFails

LEMMA AppAnswers == ASSUME AppInv, NEW f \in Fetches, ActivePassenger(f) PROVE AppInv'
<1>0. Len(wire) \in 0..MaxWire /\ tripRow \in [Trips -> Status]
  BY AppSays, AppAssumption DEF AppInv, AppAssumption
<1>1. PICK t \in LiveTrips \cup {NoTrip} :
          /\ t = NoTrip => LiveTrips = {}
          /\ fetch' = [fetch EXCEPT ![f] =
                [at |-> "answered", trip |-> t, ahead |-> Len(wire), overtaken |-> FALSE,
                 step |-> IF t = NoTrip THEN "booking" ELSE stepFor(tripRow[t])]]
  BY DEF ActivePassenger
<1> DEFINE s == IF t = NoTrip THEN "booking" ELSE stepFor(tripRow[t])
           a == [at |-> "answered", trip |-> t, ahead |-> Len(wire), overtaken |-> FALSE,
                 step |-> s]
<1>2. s \in AppStep /\ t \in Trips \cup {NoTrip}
  BY StepForSays DEF AppStep, Tracking, LiveTrips
<1>3. fetch' = [fetch EXCEPT ![f] = a]
  BY <1>1
<1>4. t # NoTrip => t \in LiveTrips /\ s = stepFor(tripRow[t])
  OBVIOUS
<1> HIDE DEF s
<1>5. a \in Asked
  BY <1>0, <1>2 DEF Asked
<1>6. AnswerTrue(a)
  BY <1>0, <1>1, <1>4 DEF AnswerTrue
<1> HIDE DEF a
<1> QED
  BY <1>3, <1>5, <1>6, AnsweredApp DEF ActivePassenger

-----------------------------------------------------------------------------
(* What it hears                                                            *)

\* n events handled or lost: those behind them are so many places nearer.
MovedUp(n) ==
    /\ Len(wire') = Len(wire) - n
    /\ \A i \in Nat : QuietAfter(i)' <=> QuietAfter(i + n)

\* An answer has so many fewer ahead of it.
LEMMA PassedSays ==
    ASSUME AppInv, NEW n \in Nat, n <= Len(wire), tripRow' = tripRow,
           MovedUp(n)
    PROVE  /\ Passed(n) \in [Fetches -> Asked]
           /\ \A f \in Fetches, b \in Asked : b = Passed(n)[f] => AnswerTrue(b)'
<1>0. /\ fetch \in [Fetches -> Asked] /\ Len(wire) \in Nat /\ MaxWire \in Nat
      /\ LiveTrips' = LiveTrips
  BY AppSays, AppAssumption DEF AppInv, AppAssumption, LiveTrips
<1>1. ASSUME NEW f \in Fetches
      PROVE  Passed(n)[f] \in Asked /\ \A b \in Asked : b = Passed(n)[f] => AnswerTrue(b)'
  <2> DEFINE a == fetch[f]
  <2>0. a \in Asked /\ AnswerTrue(a) /\ a.ahead \in Nat /\ a.ahead <= MaxWire
    BY <1>0 DEF AppInv, AnswersTrue, Asked
  <2>1. CASE a.at # "answered"
    <3>1. Passed(n)[f] = a
      BY <2>1 DEF Passed
    <3> QED
      BY <2>0, <2>1, <3>1 DEF AnswerTrue
  <2>2. CASE a.at = "answered" /\ a.ahead >= n
    <3>0. PICK m \in 0..MaxWire : m = a.ahead - n /\ m + n = a.ahead
      BY <1>0, <2>0, <2>2
    <3> DEFINE c == [a EXCEPT !.ahead = m]
    <3>1. Passed(n)[f] = c
      BY <2>2, <3>0 DEF Passed
    <3>2. c \in Asked /\ c.ahead = m /\ m \in Nat
      <4>1. m \in Nat
        BY <3>0, <1>0
      <4> QED
        BY <2>0, <3>0, <4>1 DEF Asked
    <3>3. c.at = a.at /\ c.trip = a.trip /\ c.step = a.step /\ c.overtaken = a.overtaken
      BY <2>0 DEF Asked
    <3> HIDE DEF c
    <3>4. QuietAfter(m)' <=> QuietAfter(a.ahead)
      BY <3>0, <3>2 DEF MovedUp
    <3>5. ASSUME NEW b \in Asked, b = c PROVE AnswerTrue(b)'
      <4>0. Len(wire') = Len(wire) - n
        BY DEF MovedUp
      <4>1. b.ahead = m /\ m <= Len(wire') /\ a.ahead <= Len(wire)
        <5>1. b.ahead = m
          BY <3>2, <3>5
        <5>2. a.ahead <= Len(wire)
          BY <2>0, <2>2 DEF AnswerTrue
        <5> DEFINE h == a.ahead
        <5>3. h <= Len(wire) /\ m = h - n /\ h \in Nat /\ Len(wire) \in Nat
          BY <1>0, <2>0, <3>0, <5>2
        <5> HIDE DEF h
        <5>4. m <= Len(wire) - n
          BY <5>3
        <5> QED
          BY <4>0, <5>1, <5>2, <5>4
      <4>2. QuietAfter(b.ahead)' <=> QuietAfter(m)'
        BY <4>1 DEF QuietAfter
      <4> QED
        BY <1>0, <2>0, <2>2, <3>3, <3>4, <3>5, <4>1, <4>2 DEF AnswerTrue
    <3> QED
      BY <3>1, <3>2, <3>5
  <2>3. CASE a.at = "answered" /\ ~(a.ahead >= n)
    <3> DEFINE c == [a EXCEPT !.ahead = 0, !.overtaken = TRUE]
    <3>1. Passed(n)[f] = c
      BY <2>3 DEF Passed
    <3>2. c \in Asked /\ c.ahead = 0 /\ c.overtaken
      <4>1. 0 \in 0..MaxWire
        BY <1>0
      <4> QED
        BY <2>0, <4>1 DEF Asked
    <3> HIDE DEF c
    <3>3. ASSUME NEW b \in Asked, b = c PROVE AnswerTrue(b)'
      <4>1. b.ahead = 0 /\ b.overtaken /\ 0 <= Len(wire')
        BY <1>0, <3>2, <3>3 DEF MovedUp
      <4> QED
        BY <4>1 DEF AnswerTrue
    <3> QED
      BY <3>1, <3>2, <3>3
  <2> QED
    BY <2>1, <2>2, <2>3
<1>2. Passed(n) = [f \in Fetches |-> Passed(n)[f]]
  BY DEF Passed
<1> QED
  BY Zenon, <1>1, <1>2

\* What was asked before, or is asked with it, stays true.
LEMMA PassedTrue ==
    ASSUME AppInv, NEW n \in Nat, n <= Len(wire), tripRow' = tripRow,
           MovedUp(n),
           \/ fetch' = Passed(n)
           \/ \E f \in Fetches : fetch' = Ask(Passed(n), f)
    PROVE  fetch' \in [Fetches -> Asked] /\ AnswersTrue'
<1>1. /\ Passed(n) \in [Fetches -> Asked]
      /\ \A f \in Fetches, b \in Asked : b = Passed(n)[f] => AnswerTrue(b)'
  BY Zenon, PassedSays
<1>2. /\ fetch' \in [Fetches -> Asked]
      /\ \A f \in Fetches : fetch'[f] = Passed(n)[f] \/ fetch'[f].at = "asked"
  <2>1. CASE fetch' = Passed(n)
    BY <1>1, <2>1
  <2>2. ASSUME NEW f \in Fetches, fetch' = Ask(Passed(n), f)
        PROVE  /\ fetch' \in [Fetches -> Asked]
               /\ \A g \in Fetches : fetch'[g] = Passed(n)[g] \/ fetch'[g].at = "asked"
    BY <1>1, <2>2, AskedSays
  <2> QED
    BY <2>1, <2>2
<1>3. ASSUME NEW f \in Fetches PROVE AnswerTrue(fetch[f])'
  <2>1. PICK b \in Asked : b = fetch'[f]
    BY <1>2
  <2>2. AnswerTrue(b)'
    <3>1. CASE b = Passed(n)[f]
      BY <1>1, <3>1
    <3>2. CASE b.at = "asked"
      BY <3>2 DEF AnswerTrue
    <3> QED
      BY <1>2, <2>1, <3>1, <3>2
  <2> QED
    BY <2>1, <2>2 DEF AnswerTrue, QuietAfter
<1> QED
  BY <1>2, <1>3 DEF AnswersTrue

\* A telling event that is not a stray one puts the screen right.
LEMMA ToldRight ==
    ASSUME AppInv, NEW e \in OnWire, e.event \in Telling, SaysTrue(e), ~Stray(e),
           screen' = Handled(e), tripRow' = tripRow
    PROVE  Fits'
<1>0. screen \in Seen /\ tripRow \in [Trips -> Status] /\ LiveTrips' = LiveTrips
  BY AppSays DEF AppInv, LiveTrips
<1>1. e.trip \in Trips /\ screen.trip \in {e.trip, NoTrip}
  BY DEF Stray, OnWire
<1>2. CASE e.event \in {"searching", "round", "assigned", "arrived", "started"}
  <2>1. /\ e.trip \in LiveTrips /\ screen'.trip = screen.trip
        /\ screen'.step = stepFor(tripRow[e.trip])
    BY <1>0, <1>1, <1>2, StepForSays DEF SaysTrue, LiveTrips, Live, Handled, Seen
  <2> QED
    BY <1>0, <1>1, <2>1 DEF Fits
<1>3. CASE e.event \in {"finished", "cancelled", "failed"}
  <2>1. LiveTrips = {} /\ screen'.step \in {"booking", "completed"}
    BY <1>0, <1>1, <1>3 DEF SaysTrue, Handled, Seen
  <2> QED
    BY <1>0, <2>1 DEF Fits, Tracking
<1> QED
  BY <1>2, <1>3 DEF Telling, Events

LEMMA HandledType == ASSUME AppInv, NEW e \in OnWire PROVE Handled(e) \in Seen
<1>1. screen \in Seen
  BY AppSays DEF AppInv
<1>2. \A s \in AppStep : [screen EXCEPT !.step = s] \in Seen
  BY <1>1 DEF Seen
<1>3. [step |-> "booking", trip |-> NoTrip] \in Seen
  BY DEF Seen, AppStep
<1> QED
  BY <1>1, <1>2, <1>3 DEF Handled, OnWire, Events, AppStep, Tracking

LEMMA AppHears == ASSUME AppInv, Deliver PROVE AppInv'
<1> DEFINE e == Head(wire)
<1>0. /\ AppTypeOK /\ wire # <<>> /\ wire' = Tail(wire) /\ Len(wire) \in Nat
      /\ UNCHANGED <<tripRow, uplink, fixes, unresolved>> /\ doubt' = (doubt \/ Stray(e))
      /\ screen \in Seen /\ MaxWire \in Nat /\ Len(wire) <= MaxWire /\ LiveTrips' = LiveTrips
  BY AppSays, AppAssumption DEF Deliver, AppInv, AppAssumption, LiveTrips
<1>1. /\ wire' \in Seq(OnWire) /\ Len(wire') = Len(wire) - 1
      /\ DOMAIN wire' = 1..(Len(wire) - 1) /\ Len(wire) >= 1
      /\ \A i \in DOMAIN wire' : i + 1 \in DOMAIN wire /\ wire'[i] = wire[i + 1]
      /\ e = wire[1] /\ 1 \in DOMAIN wire /\ e \in OnWire
  BY Zenon, <1>0, HandledSaysWire, AppSays
<1>2. \A i \in Nat : QuietAfter(i)' <=> QuietAfter(i + 1)
  BY Zenon, <1>0, HandledQuiet
<1>12. MovedUp(1)
  BY Zenon, <1>1, <1>2 DEF MovedUp
<1>3. fetch' = Passed(1) \/ \E f \in Fetches : fetch' = Ask(Passed(1), f)
  BY DEF Deliver
<1>4. fetch' \in [Fetches -> Asked] /\ AnswersTrue'
  BY <1>0, <1>1, <1>3, <1>12, PassedTrue
<1>5. \/ e.event # "exists" /\ screen' = Handled(e)
      \/ e.event = "exists" /\ screen' = screen
      \/ /\ e.event = "exists" 
         /\ screen' = IF screen.step = "searching"
                      THEN [screen EXCEPT !.step = "booking"] ELSE screen
  BY DEF Deliver
<1> HIDE DEF e
<1>6. screen' \in Seen
  BY <1>0, <1>1, <1>5, HandledType DEF Seen, AppStep
<1>7. AppTypeOK'
  <2>1. Len(wire') <= MaxWire /\ {unresolved', doubt'} \subseteq BOOLEAN
    BY <1>0, <1>1 DEF AppTypeOK, Stray
  <2>2. /\ tripRow' \in [Trips -> Status] /\ uplink' \subseteq {"request", "cancel"} \X Trips
        /\ fixes' \in 0..MaxFixes
    BY <1>0, AppSays
  <2> QED
    BY Zenon, <1>1, <1>4, <1>6, <2>1, <2>2 DEF AppTypeOK, Status, OnWire, Seen, Asked
<1>8. RowsApart'
  BY <1>0 DEF AppInv, RowsApart
<1>9. WireTrue'
  <2> SUFFICES ASSUME NEW i \in DOMAIN wire', QuietAfter(i)' PROVE SaysTrue(wire[i])'
    BY DEF WireTrue
  <2>1. i \in Nat /\ i + 1 \in DOMAIN wire /\ wire'[i] = wire[i + 1] /\ QuietAfter(i + 1)
    BY <1>0, <1>1, <1>2
  <2>2. SaysTrue(wire[i + 1])
    BY <2>1 DEF AppInv, WireTrue
  <2> QED
    BY <1>0, <2>1, <2>2 DEF SaysTrue
<1>10. ScreenTrue'
  <2> SUFFICES ASSUME ~doubt', QuietAfter(0)'
               PROVE  Leaving' \/ Fits'
    BY DEF ScreenTrue
  <2>0. QuietAfter(0 + 1) /\ 0 + 1 = 1
    BY <1>2
  <2>1. ~doubt /\ ~Stray(e) /\ QuietAfter(1)
    BY Zenon, <1>0, <2>0
  <2>2. SaysTrue(e)
    BY <1>1, <2>1 DEF AppInv, WireTrue
  <2>3. CASE e.event \in Telling
    BY <1>0, <1>1, <1>5, <2>1, <2>2, <2>3, ToldRight DEF Telling
  <2>4. CASE e.event \in {"offer_sent", "error", "exists"}
    <3>1. QuietAfter(0)
      <4>1. \A k \in DOMAIN wire : k > 0 => k = 1 \/ k > 1
        BY <1>0, AppSays
      <4>2. wire[1].event \notin Telling
        BY <1>1, <2>4 DEF Telling
      <4> QED
        BY <2>1, <4>1, <4>2 DEF QuietAfter
    <3>2. Leaving \/ Fits \/ Awaiting
      BY <2>1, <3>1 DEF AppInv, ScreenTrue
    <3>3. \A t \in LiveTrips : tripRow[t] \in Live /\ t \in Trips
      BY DEF LiveTrips
    <3>4. CASE e.event = "offer_sent"
      <4>1. e.trip \in LiveTrips /\ tripRow[e.trip] = "searching" /\ LiveTrips = {e.trip}
        BY <1>1, <2>2, <3>4 DEF SaysTrue, LiveTrips, Live, OnWire, AppInv, RowsApart
      <4>2. Leaving \/ Fits
        BY <3>2, <4>1 DEF Awaiting
      <4>3. screen' = IF screen.step = "searching"
                      THEN [screen EXCEPT !.step = "offerSent"] ELSE screen
        BY <1>5, <3>4 DEF Handled
      <4>4. screen'.trip = screen.trip /\ screen'.step \in {screen.step, "offerSent"}
        BY <1>0, <4>3 DEF Seen
      <4>5. CASE Leaving
        BY <4>3, <4>5 DEF Leaving
      <4>6. CASE Fits
        BY <1>0, <4>1, <4>4, <4>6 DEF Fits
      <4> QED
        BY <4>2, <4>5, <4>6
    <3>5. CASE e.event = "error"
      <4>1. e.trip = screen.trip /\ tripRow[e.trip] \notin {"searching", "accepted", "arrived"}
            /\ e.trip # NoTrip
        BY <1>1, <2>1, <2>2, <3>5, AppAssumption DEF Stray, SaysTrue, OnWire, AppAssumption
      <4>2. screen' = IF screen.step = "searching" THEN [step |-> "booking", trip |-> NoTrip]
                      ELSE screen
        BY <1>5, <3>5 DEF Handled
      <4>3. CASE screen.step = "searching"
        <5>1. LiveTrips = {}
          BY <3>2, <3>3, <4>1, <4>3, StepForSays DEF Leaving, Fits, Awaiting
        <5> QED
          BY <1>0, <4>2, <4>3, <5>1 DEF Fits, Tracking
      <4>4. CASE screen.step # "searching"
        BY <1>0, <3>2, <4>2, <4>4 DEF Leaving, Fits, Awaiting
      <4> QED
        BY <4>3, <4>4
    <3>6. CASE e.event = "exists"
      <4>1. e.trip = screen.trip /\ tripRow[e.trip] = "none" /\ LiveTrips # {}
            /\ e.trip # NoTrip
        BY <1>1, <2>1, <2>2, <3>6, AppAssumption DEF Stray, SaysTrue, OnWire, AppAssumption
      <4>2. Leaving \/ Fits
        BY <3>2, <4>1 DEF Awaiting
      <4>3. screen.step # "searching"
        <5>1. "none" \notin Live
          BY DEF Live
        <5> QED
          BY <3>3, <4>1, <4>2, <5>1 DEF Leaving, Fits
      <4>4. screen' = screen
        BY <1>5, <3>6, <4>3
      <4> QED
        BY <1>0, <4>2, <4>4 DEF Leaving, Fits
    <3> QED
      BY <2>4, <3>4, <3>5, <3>6
  <2> QED
    BY <1>1, <2>3, <2>4 DEF OnWire, Telling
<1> QED
  BY <1>4, <1>7, <1>8, <1>9, <1>10 DEF AppInv

\* What was lost with the connection was a reason to be wrong.
LEMMA AppReconnects == ASSUME AppInv, Reconnects PROVE AppInv'
<1>0. /\ wire' = <<>> /\ UNCHANGED <<tripRow, screen, fixes, unresolved>>
      /\ uplink' \subseteq uplink
      /\ doubt' = (doubt \/ wire # <<>> \/ uplink' # uplink)
      /\ \/ fetch' = Passed(Len(wire))
         \/ \E f \in Fetches : fetch' = Ask(Passed(Len(wire)), f)
  BY DEF Reconnects
<1>1. /\ wire \in Seq(OnWire) /\ Len(wire) \in Nat /\ DOMAIN wire = 1..Len(wire)
      /\ uplink \subseteq {"request", "cancel"} \X Trips /\ screen \in Seen
      /\ tripRow \in [Trips -> Status] /\ unresolved \in BOOLEAN /\ doubt \in BOOLEAN
  BY AppSays DEF AppInv
<1>2. Len(wire') = 0 /\ DOMAIN wire' = {} /\ wire' \in Seq(OnWire) /\ MaxWire \in Nat
  BY <1>0, AppAssumption DEF AppAssumption
<1>3. MovedUp(Len(wire))
  <2>1. ASSUME NEW i \in Nat PROVE QuietAfter(i)' /\ QuietAfter(i + Len(wire))
    <3>1. QuietAfter(i)'
      BY <1>2 DEF QuietAfter
    <3>2. \A k \in DOMAIN wire : ~(k > i + Len(wire))
      BY <1>1
    <3> QED
      BY <3>1, <3>2 DEF QuietAfter
  <2> QED
    BY <1>1, <1>2, <2>1 DEF MovedUp
<1>4. fetch' \in [Fetches -> Asked] /\ AnswersTrue'
  BY <1>0, <1>1, <1>3, PassedTrue
<1>5. AppTypeOK'
  <2>1. Len(wire') <= MaxWire /\ {unresolved', doubt'} \subseteq BOOLEAN
    BY <1>0, <1>1, <1>2
  <2>2. tripRow' \in [Trips -> Status] /\ uplink' \subseteq {"request", "cancel"} \X Trips
        /\ screen' \in Seen /\ fixes' \in 0..MaxFixes
    BY <1>0, <1>1, AppSays DEF AppInv
  <2> QED
    BY Zenon, <1>2, <1>4, <2>1, <2>2 DEF AppTypeOK, Status, OnWire, Seen, Asked
<1>6. RowsApart' /\ WireTrue'
  BY <1>0, <1>2 DEF AppInv, RowsApart, LiveTrips, WireTrue
<1>7. ScreenTrue'
  <2> SUFFICES ASSUME ~doubt' PROVE Leaving' \/ Fits' \/ Awaiting'
    BY DEF ScreenTrue
  <2>1. ~doubt /\ wire' = wire /\ uplink' = uplink /\ DOMAIN wire = {}
    BY <1>0, <1>2
  <2>2. Leaving \/ Fits \/ Awaiting
    BY <2>1 DEF AppInv, ScreenTrue, QuietAfter
  <2> QED
    BY <1>0, <2>1, <2>2 DEF Leaving, Fits, Awaiting, Refused, LiveTrips
<1> QED
  BY <1>4, <1>5, <1>6, <1>7 DEF AppInv

\* An answer is taken down, with what it makes of the screen.
LEMMA TakenApp ==
    ASSUME AppInv, NEW f \in Fetches, fetch' = [fetch EXCEPT ![f] = NotAsking],
           UNCHANGED <<tripRow, wire, uplink>>, unresolved' \in BOOLEAN,
           doubt' \in BOOLEAN, fixes' \in 0..MaxFixes, screen' \in Seen, ScreenTrue'
    PROVE  AppInv'
<1>0. fetch \in [Fetches -> Asked]
  BY AppSays DEF AppInv
<1>1. /\ fetch' \in [Fetches -> Asked]
      /\ \A g \in Fetches : fetch'[g] \in {NotAsking, fetch[g]}
  BY <1>0, NotAskingSays
<1>2. AppTypeOK'
  BY <1>1 DEF AppInv, AppTypeOK, Asked, Seen
<1>3. \A i : QuietAfter(i)' <=> QuietAfter(i)
  BY DEF QuietAfter
<1>4. WireTrue' /\ RowsApart'
  BY <1>3 DEF AppInv, WireTrue, RowsApart, SaysTrue, LiveTrips
<1>5. AnswersTrue'
  <2> SUFFICES ASSUME NEW g \in Fetches PROVE AnswerTrue(fetch[g])'
    BY DEF AnswersTrue
  <2>1. PICK b \in Asked : b = fetch'[g] /\ AnswerTrue(b)
    BY <1>0, <1>1, NotAskingSays DEF AppInv, AnswersTrue
  <2>2. AnswerTrue(b)'
    BY <1>3, <2>1 DEF AnswerTrue, LiveTrips, QuietAfter
  <2> QED
    BY <2>1, <2>2 DEF AnswerTrue, QuietAfter
<1> QED
  BY <1>2, <1>4, <1>5 DEF AppInv

\* What a true answer says when nothing behind it tells.
LEMMA AnswerSays ==
    ASSUME AppInv, NEW f \in Fetches, fetch[f].at = "answered", ~fetch[f].overtaken,
           QuietAfter(0)
    PROVE  /\ fetch[f].trip = NoTrip => LiveTrips = {}
           /\ fetch[f].trip # NoTrip =>
                 /\ fetch[f].trip \in LiveTrips
                 /\ fetch[f].step = stepFor(tripRow[fetch[f].trip])
<1>1. fetch[f].ahead \in Nat /\ DOMAIN wire = 1..Len(wire) /\ Len(wire) \in Nat
  BY AppSays DEF AppInv, Asked
<1>2. QuietAfter(fetch[f].ahead)
  BY <1>1 DEF QuietAfter
<1> QED
  BY <1>2 DEF AppInv, AnswersTrue, AnswerTrue

LEMMA AppFinds == ASSUME AppInv, NEW f \in Fetches, applyRecoveredRide(f) PROVE AppInv'
<1>0. /\ fetch[f] \in Asked /\ fetch[f].at = "answered" /\ fetch[f].trip # NoTrip
      /\ screen' = [step |-> fetch[f].step, trip |-> fetch[f].trip]
      /\ doubt' = fetch[f].overtaken /\ unresolved' = FALSE
      /\ UNCHANGED <<tripRow, wire, uplink>> /\ fixes' \in 0..MaxFixes
  BY AppSays DEF AppInv, applyRecoveredRide, Show
<1>1. screen' \in Seen /\ doubt' \in BOOLEAN /\ unresolved' \in BOOLEAN
  BY <1>0 DEF Seen, Asked
<1>2. ScreenTrue'
  <2> SUFFICES ASSUME ~fetch[f].overtaken, QuietAfter(0) PROVE Fits'
    BY <1>0 DEF ScreenTrue, QuietAfter
  <2>1. fetch[f].trip \in LiveTrips /\ fetch[f].step = stepFor(tripRow[fetch[f].trip])
    BY <1>0, AnswerSays
  <2> QED
    BY <1>0, <2>1 DEF Fits, LiveTrips
<1> QED
  BY <1>0, <1>1, <1>2, TakenApp DEF applyRecoveredRide

LEMMA AppFindsNone == ASSUME AppInv, NEW f \in Fetches, NoneFound(f) PROVE AppInv'
<1>0. /\ fetch[f] \in Asked /\ fetch[f].at = "answered" /\ fetch[f].trip = NoTrip
      /\ screen' = IF Tracked THEN [step |-> "booking", trip |-> NoTrip] ELSE screen
      /\ unresolved' = FALSE /\ UNCHANGED <<tripRow, wire, uplink>>
      /\ doubt' = (fetch[f].overtaken
                      \/ (doubt /\ ~Tracked /\ screen.step \notin {"loading", "booking"}))
      /\ fetch' = [fetch EXCEPT ![f] = NotAsking]
  BY AppSays DEF AppInv, NoneFound, NoneFoundFor
<1>1. screen \in Seen /\ fixes \in 0..MaxFixes /\ MaxFixes \in Nat
  BY AppSays, AppAssumption DEF AppInv, AppAssumption
<1>2. fixes' \in 0..MaxFixes
  BY <1>1 DEF NoneFound, NoneFoundFor
<1>3. screen' \in Seen
  BY <1>0, <1>1 DEF Seen, AppStep
<1>4. doubt' \in BOOLEAN /\ unresolved' \in BOOLEAN
  BY <1>0 DEF Asked, Tracked
<1>5. ScreenTrue'
  <2> SUFFICES ASSUME ~doubt', QuietAfter(0) PROVE Fits' \/ Awaiting'
    BY <1>0 DEF ScreenTrue, QuietAfter
  <2>1. LiveTrips = {} /\ LiveTrips' = LiveTrips
    BY <1>0, AnswerSays DEF LiveTrips
  <2>2. CASE Tracked
    BY <1>0, <2>1, <2>2 DEF Fits, Tracking
  <2>3. CASE screen.step \in {"loading", "booking"} /\ ~Tracked
    BY <1>0, <2>1, <2>3 DEF Fits, Tracking
  <2>4. CASE screen.step \notin {"loading", "booking"} /\ ~Tracked
    <3>1. ~doubt /\ screen' = screen
      BY <1>0, <2>4
    <3>2. Fits \/ Awaiting
      BY <2>4, <3>1 DEF AppInv, ScreenTrue, Leaving
    <3> QED
      BY <1>0, <2>1, <3>1, <3>2 DEF Fits, Awaiting, Refused
  <2> QED
    BY <2>2, <2>3, <2>4
<1> QED
  BY <1>0, <1>2, <1>3, <1>4, <1>5, TakenApp

LEMMA AppComesBack == ASSUME AppInv, AppRestarts PROVE AppInv'
<1>1. /\ fetch' = [f \in Fetches |-> NotAsking] /\ wire' = <<>> /\ unresolved' = TRUE
      /\ doubt' = TRUE /\ UNCHANGED <<tripRow, uplink>>
      /\ screen' = [step |-> "loading", trip |-> NoTrip] /\ fixes' = 0
  BY DEF AppRestarts
<1>2. AppTypeOK'
  <2>1. wire' \in Seq(OnWire) /\ Len(wire') = 0 /\ 0 <= MaxWire
    BY <1>1, AppAssumption DEF AppAssumption
  <2>2. fetch' \in [Fetches -> Asked] /\ screen' \in Seen
    BY <1>1, NotAskingSays DEF Seen, AppStep
  <2>3. tripRow' \in [Trips -> Status] /\ uplink' \subseteq {"request", "cancel"} \X Trips
    BY <1>1, AppSays DEF AppInv
  <2>4. {unresolved', doubt'} \subseteq BOOLEAN /\ fixes' \in 0..MaxFixes
    BY <1>1, AppAssumption DEF AppAssumption
  <2> QED
    BY Zenon, <2>1, <2>2, <2>3, <2>4 DEF AppTypeOK, Status, OnWire, Seen, Asked
<1>3. RowsApart' /\ WireTrue' /\ AnswersTrue' /\ ScreenTrue'
  BY <1>1, NotAskingSays
     DEF AppInv, RowsApart, LiveTrips, WireTrue, AnswersTrue, AnswerTrue, ScreenTrue
<1> QED
  BY <1>2, <1>3 DEF AppInv

LEMMA AppStands == ASSUME AppInv, UNCHANGED appVars PROVE AppInv'
<1>1. \A i : QuietAfter(i)' <=> QuietAfter(i)
  BY DEF QuietAfter, appVars
<1>2. AppTypeOK' /\ RowsApart'
  BY DEF AppInv, AppTypeOK, RowsApart, LiveTrips, appVars
<1>3. ScreenTrue'
  BY <1>1 DEF AppInv, ScreenTrue, Leaving, Fits, Awaiting, Refused, LiveTrips, appVars
<1> QED
  BY <1>2, <1>3, TappedApp DEF appVars

LEMMA AppKeeps == AppInv /\ [AppNext]_appVars => AppInv'
BY AppDispatches, AppSaves, AppCancelled, AppAdvances, AppCancels, AppDismisses, AppHears,
   AppReconnects, AppGivesUp, AppComesBack, AppAsks, AppAnswers, AppFinds, AppFindsNone,
   AppFails, AppLaysOut, AppStands
DEF AppNext

\* When nothing is under way and nothing gave the phone reason to be wrong, the
\* screen shows the ride the server has (PassengerApp.QuietMeansTrue).
THEOREM QuietTrue == AppSpec => []QuietMeansTrue
<1>1. AppInv => QuietMeansTrue
  <2> SUFFICES ASSUME AppInv, ~doubt, wire = <<>>, uplink = {}, screen.step # "loading"
               PROVE  Agrees
    BY DEF QuietMeansTrue
  <2>1. DOMAIN wire = {}
    OBVIOUS
  <2>2. Fits
    BY <2>1 DEF AppInv, ScreenTrue, QuietAfter, Leaving, Awaiting, Refused
  <2> QED
    BY <2>2 DEF Fits, Agrees
<1> QED
  BY <1>1, AppInitially, AppKeeps, PTL DEF AppSpec

-------------------------------------------------------------------------------
(* What the driver's phone shows *)

Confirming == {"assigned", "confirmed"}
Ending == {"cancelled", "finished", "held"}
Clearing == Ending \cup {"expired", "debt"}

\* One of these events, about the ride, is under way behind the i-th.
Follows(i, events, j) ==
    \E k \in DOMAIN signals : k > i /\ signals[k].event \in events /\ signals[k].job = j

JobsApart == \A j, k \in HeldJobs : j = k
OnScreen == phone.step # "none" => phone.job # NoJob

\* What an event says of a ride is so, or an event behind it says that it ended,
\* or nothing does; what clears a ride the driver has is followed by what brings
\* it back.
EndedUntold == {j \in Jobs : board[j] = "untold"}
SignalsTrue ==
    \A i \in DOMAIN signals :
       LET e == signals[i]
       IN  /\ e.event \in Confirming =>
                 e.job \in HeldJobs \cup EndedUntold \/ Follows(i, Ending, e.job)
           /\ e.event \in Clearing /\ e.job \in HeldJobs => Follows(i, Confirming, e.job)

\* An answer that was not overtaken is true but for the events behind it.
AnswerRight(a) ==
    a.at = "answered" =>
       /\ a.behind <= Len(signals)
       /\ a.job # NoJob => a.step \in OnTrip
       /\ ~a.overtaken =>
             /\ a.job # NoJob => a.job \in HeldJobs \/ Follows(a.behind, Ending, a.job)
             /\ \A h \in HeldJobs : a.job = h \/ Follows(a.behind, Confirming, h)

\* A trip on the screen is one the driver has, or its end is on the way.
TripTrue ==
    ~misled /\ phone.step \in OnTrip =>
       phone.job \in HeldJobs \/ recovery.at # "off" \/ Follows(0, Ending, phone.job)

\* A ride the driver has is on the screen, or on the way to it, or its completion
\* is on the way to the server.
Watched(h) == phone.job = h /\ phone.step \in OnTrip /\ watchdog
HeldTrue ==
    ~misled => \A h \in HeldJobs :
       \/ Watched(h)
       \/ tap = <<"complete", h>>
       \/ recovery.at # "off"
       \/ Follows(0, Confirming, h)

DriverInv ==
    /\ DriverAppTypeOK
    /\ JobsApart
    /\ OnScreen
    /\ SignalsTrue
    /\ AnswerRight(recovery)
    /\ TripTrue
    /\ HeldTrue

-------------------------------------------------------------------------------

JobStatus == Held \cup {"none", "offered", "over", "untold"}
OnAir == [event : Signals, job : Jobs]
Phone == [op : {"offline", "available", "busy"}, step : TripStep, job : Jobs \cup {NoJob}]
Recovery == [at : {"off", "asked", "answered"}, job : Jobs \cup {NoJob},
             step : TripStep, behind : 0..MaxSignals, overtaken : BOOLEAN]

LEMMA DriverSays ==
    ASSUME DriverAppTypeOK
    PROVE  /\ board \in [Jobs -> JobStatus] /\ signals \in Seq(OnAir)
           /\ Len(signals) \in Nat /\ Len(signals) <= MaxSignals
           /\ DOMAIN signals = 1..Len(signals)
           /\ \A i \in DOMAIN signals : signals[i] \in OnAir
           /\ tap \in (Taps \X Jobs) \cup {NoTap} /\ phone \in Phone
           /\ recovery \in Recovery
           /\ ticking \in BOOLEAN /\ watchdog \in BOOLEAN /\ misled \in BOOLEAN
<1>1. /\ board \in [Jobs -> JobStatus] /\ signals \in Seq(OnAir) /\ Len(signals) <= MaxSignals
      /\ tap \in (Taps \X Jobs) \cup {NoTap} /\ phone \in Phone /\ recovery \in Recovery
  BY Zenon DEF DriverAppTypeOK, JobStatus, OnAir, Phone, Recovery
<1>2. ticking \in BOOLEAN /\ watchdog \in BOOLEAN /\ misled \in BOOLEAN
  BY DEF DriverAppTypeOK
<1>3. \A i \in DOMAIN signals : signals[i] \in OnAir
  <2> HIDE DEF OnAir
  <2> QED
    BY <1>1
<1> QED
  BY <1>1, <1>2, <1>3

LEMMA DriverTyped ==
    ASSUME board' \in [Jobs -> JobStatus], signals' \in Seq(OnAir),
           Len(signals') <= MaxSignals, tap' \in (Taps \X Jobs) \cup {NoTap},
           phone' \in Phone, recovery' \in Recovery,
           ticking' \in BOOLEAN, watchdog' \in BOOLEAN, misled' \in BOOLEAN
    PROVE  DriverAppTypeOK'
<1>1. {ticking', watchdog', misled'} \subseteq BOOLEAN
  OBVIOUS
<1> QED
  BY Zenon, <1>1 DEF DriverAppTypeOK, JobStatus, OnAir, Phone, Recovery

\* An event that is sent is the last.
LEMMA SignalSays ==
    ASSUME DriverAppTypeOK, NEW event \in Signals, NEW j \in Jobs, Signal(event, j)
    PROVE  /\ signals' \in Seq(OnAir) /\ Len(signals') = Len(signals) + 1
           /\ Len(signals') <= MaxSignals /\ DOMAIN signals' = 1..(Len(signals) + 1)
           /\ \A i \in DOMAIN signals : signals'[i] = signals[i]
           /\ signals'[Len(signals) + 1] = [event |-> event, job |-> j]
<1> DEFINE e == [event |-> event, job |-> j]
<1>1. /\ e \in OnAir /\ signals \in Seq(OnAir) /\ Len(signals) < MaxSignals
      /\ signals' = Append(signals, e)
  BY DriverSays DEF Signal, OnAir
<1>2. MaxSignals \in Nat /\ Len(signals) \in Nat
  BY DriverAppAssumption, DriverSays DEF DriverAppAssumption
<1> HIDE DEF e
<1> QED
  BY <1>1, <1>2 DEF e

LEMMA SignalFollows ==
    ASSUME DriverAppTypeOK, NEW event \in Signals, NEW j \in Jobs, Signal(event, j),
           NEW i \in Nat, NEW events, NEW h
    PROVE  /\ Follows(i, events, h) => Follows(i, events, h)'
           /\ event \in events /\ i <= Len(signals) => Follows(i, events, j)'
<1>1. Len(signals) \in Nat /\ DOMAIN signals = 1..Len(signals)
  BY DriverSays
<1>0. /\ DOMAIN signals' = 1..(Len(signals) + 1)
      /\ \A k \in DOMAIN signals : signals'[k] = signals[k]
      /\ signals'[Len(signals) + 1] = [event |-> event, job |-> j]
  BY Zenon, SignalSays
<1>2. /\ Len(signals) + 1 \in DOMAIN signals' /\ signals'[Len(signals) + 1].event = event
      /\ signals'[Len(signals) + 1].job = j
  BY <1>0, <1>1
<1>3. \A k \in DOMAIN signals : k \in DOMAIN signals' /\ signals'[k] = signals[k]
  BY <1>0, <1>1
<1>4. i <= Len(signals) => Len(signals) + 1 > i
  BY <1>1
<1> QED
  BY <1>2, <1>3, <1>4 DEF Follows

\* n events handled or lost: those behind them are so many places nearer.
NearerBy(n) ==
    /\ Len(signals') = Len(signals) - n
    /\ \A i \in Nat : \A events, h : Follows(i + n, events, h) => Follows(i, events, h)'

LEMMA ReceivedSays ==
    ASSUME DriverAppTypeOK, signals # <<>>, signals' = Tail(signals)
    PROVE  /\ signals' \in Seq(OnAir) /\ Len(signals') = Len(signals) - 1
           /\ DOMAIN signals' = 1..(Len(signals) - 1) /\ Len(signals) >= 1
           /\ \A i \in DOMAIN signals' : i + 1 \in DOMAIN signals
                                         /\ signals'[i] = signals[i + 1]
           /\ Head(signals) = signals[1] /\ 1 \in DOMAIN signals
           /\ Head(signals) \in OnAir
<1>1. signals \in Seq(OnAir) /\ \A i \in DOMAIN signals : signals[i] \in OnAir
  BY DriverSays
<1> HIDE DEF OnAir
<1> QED
  BY <1>1

LEMMA ReceivedNearer ==
    ASSUME DriverAppTypeOK, signals # <<>>, signals' = Tail(signals)
    PROVE  NearerBy(1)
<1>1. Len(signals) \in Nat /\ DOMAIN signals = 1..Len(signals)
  BY DriverSays
<1>2. /\ Len(signals') = Len(signals) - 1 /\ DOMAIN signals' = 1..(Len(signals) - 1)
      /\ \A i \in DOMAIN signals' : signals'[i] = signals[i + 1]
  BY ReceivedSays
<1>3. ASSUME NEW i \in Nat, NEW events, NEW h, Follows(i + 1, events, h)
      PROVE  Follows(i, events, h)'
  <2>1. PICK k \in DOMAIN signals :
            k > i + 1 /\ signals[k].event \in events /\ signals[k].job = h
    BY <1>3 DEF Follows
  <2>2. k - 1 \in DOMAIN signals' /\ k - 1 > i /\ (k - 1) + 1 = k
    BY <1>1, <1>2, <2>1
  <2>3. signals'[k - 1] = signals[k]
    BY <1>2, <2>2
  <2> QED
    BY <2>1, <2>2, <2>3 DEF Follows
<1> QED
  BY <1>2, <1>3 DEF NearerBy

LEMMA RecoveringSays ==
    /\ NotRecovering \in Recovery /\ NotRecovering.at = "off"
    /\ Recovering \in Recovery /\ Recovering.at = "asked"
<1>1. 0 \in 0..MaxSignals /\ "none" \in TripStep
  BY DriverAppAssumption DEF DriverAppAssumption, TripStep
<1>2. NotRecovering \in Recovery /\ NotRecovering.at = "off"
  BY <1>1 DEF NotRecovering, Recovery
<1>3. Recovering \in Recovery /\ Recovering.at = "asked"
  BY <1>2 DEF Recovering, Recovery
<1> QED
  BY <1>2, <1>3

LEMMA DriverInitially == DriverAppInit => DriverInv
<1> SUFFICES ASSUME DriverAppInit PROVE DriverInv
  OBVIOUS
<1>1. Recovering \in Recovery /\ Recovering.at = "asked"
  BY RecoveringSays
<1>2. DriverAppTypeOK
  <2>1. signals \in Seq(OnAir) /\ Len(signals) = 0 /\ MaxSignals \in Nat
    BY DriverAppAssumption DEF DriverAppInit, DriverAppAssumption
  <2>5. Len(signals) <= MaxSignals
    BY <2>1
  <2>2. recovery \in Recovery /\ phone \in Phone
    BY <1>1 DEF DriverAppInit, Phone, Started, TripStep
  <2>3. board \in [Jobs -> JobStatus]
    BY DEF DriverAppInit, JobStatus
  <2>4. {ticking, watchdog, misled} \subseteq BOOLEAN /\ tap = NoTap
    BY DEF DriverAppInit
  <2> QED
    BY Zenon, <2>1, <2>2, <2>3, <2>4, <2>5
       DEF DriverAppTypeOK, JobStatus, OnAir, Phone, Recovery
<1>3. DOMAIN signals = {} /\ HeldJobs = {} /\ phone.step = "none"
  BY DEF DriverAppInit, HeldJobs, Held, Started
<1> QED
  BY <1>1, <1>2, <1>3
     DEF DriverAppInit, DriverInv, JobsApart, OnScreen, SignalsTrue, AnswerRight, TripTrue,
         HeldTrue, OnTrip

-------------------------------------------------------------------------------
(* The server *)

\* It tells of a ride, and only of that ride does it change whether the driver
\* has it.
LEMMA ServerTells ==
    ASSUME DriverInv, DriverAppTypeOK', JobsApart',
           UNCHANGED <<phone, watchdog, recovery>>, misled => misled',
           NEW event \in Signals, NEW j \in Jobs, Signal(event, j),
           \A h \in Jobs \ {j} : h \in HeldJobs' <=> h \in HeldJobs,
           EndedUntold \subseteq EndedUntold',
           j \in HeldJobs' /\ j \notin HeldJobs => event \in Confirming,
           j \in HeldJobs /\ j \notin HeldJobs' => event \in Ending,
           event \in Confirming => j \in HeldJobs',
           event \in Clearing => j \notin HeldJobs',
           \A h \in HeldJobs' : tap = <<"complete", h>> => tap' = tap \/ misled'
    PROVE  DriverInv'
<1>0. /\ DriverAppTypeOK /\ Len(signals) \in Nat /\ DOMAIN signals = 1..Len(signals)
      /\ \A i \in DOMAIN signals : signals[i] \in OnAir
      /\ recovery \in Recovery /\ phone \in Phone
  BY DriverSays DEF DriverInv
<1>1. /\ DOMAIN signals' = 1..(Len(signals) + 1) /\ Len(signals') = Len(signals) + 1
      /\ \A i \in DOMAIN signals : signals'[i] = signals[i]
      /\ signals'[Len(signals) + 1] = [event |-> event, job |-> j]
  BY Zenon, <1>0, SignalSays
<1>2. ASSUME NEW i \in Nat, NEW events, NEW h
      PROVE  /\ Follows(i, events, h) => Follows(i, events, h)'
             /\ event \in events /\ i <= Len(signals) => Follows(i, events, j)'
  BY Zenon, <1>0, SignalFollows
<1>3. /\ HeldJobs \subseteq Jobs /\ HeldJobs' \subseteq Jobs
  BY DEF HeldJobs
<1>4. ASSUME NEW i \in Nat, i <= Len(signals), NEW h \in HeldJobs', h \notin HeldJobs
      PROVE  Follows(i, Confirming, h)'
  BY <1>2, <1>3, <1>4
<1>5. ASSUME NEW i \in Nat, i <= Len(signals), NEW h \in HeldJobs, h \notin HeldJobs'
      PROVE  Follows(i, Ending, h)'
  BY <1>2, <1>3, <1>5
<1>6. SignalsTrue'
  <2> SUFFICES ASSUME NEW i \in DOMAIN signals'
               PROVE  (/\ signals[i].event \in Confirming =>
                             \/ signals[i].job \in HeldJobs \cup EndedUntold
                             \/ Follows(i, Ending, signals[i].job)
                       /\ signals[i].event \in Clearing /\ signals[i].job \in HeldJobs =>
                             Follows(i, Confirming, signals[i].job))'
    BY DEF SignalsTrue
  <2>1. CASE i = Len(signals) + 1
    BY <1>1, <2>1
  <2>2. CASE i # Len(signals) + 1
    <3>1. i \in DOMAIN signals /\ i \in Nat /\ i <= Len(signals)
      BY <1>0, <1>1, <2>2
    <3>2. PICK e \in OnAir : e = signals[i] /\ e = signals'[i]
      BY <1>0, <1>1, <3>1
    <3>3. /\ e.event \in Confirming =>
                e.job \in HeldJobs \cup EndedUntold \/ Follows(i, Ending, e.job)
          /\ e.event \in Clearing /\ e.job \in HeldJobs => Follows(i, Confirming, e.job)
      BY <3>1, <3>2 DEF DriverInv, SignalsTrue
    <3>4. /\ e.event \in Confirming =>
                e.job \in HeldJobs' \cup EndedUntold' \/ Follows(i, Ending, e.job)'
          /\ e.event \in Clearing /\ e.job \in HeldJobs' => Follows(i, Confirming, e.job)'
      BY <1>2, <1>4, <1>5, <3>1, <3>3
    <3> QED
      BY <3>2, <3>4 DEF Follows
  <2> QED
    BY <2>1, <2>2
<1>7. AnswerRight(recovery)'
  <2> DEFINE a == recovery
  <2>1. a \in Recovery /\ AnswerRight(a) /\ a.behind \in Nat
    BY <1>0, DriverAppAssumption DEF DriverInv, Recovery, DriverAppAssumption
  <2>2. PICK b \in Recovery : b = a
    BY <2>1
  <2>3. AnswerRight(b)'
    <3>1. AnswerRight(b) /\ b.behind \in Nat
      BY <2>1, <2>2
    <3>2. /\ \A h : Follows(b.behind, Ending, h) => Follows(b.behind, Ending, h)'
          /\ \A h : Follows(b.behind, Confirming, h) => Follows(b.behind, Confirming, h)'
      BY <1>2, <3>1
    <3>3. b.behind <= Len(signals) =>
            /\ b.behind <= Len(signals')
            /\ \A h \in HeldJobs' : h \notin HeldJobs => Follows(b.behind, Confirming, h)'
            /\ \A h \in HeldJobs : h \notin HeldJobs' => Follows(b.behind, Ending, h)'
      BY <1>0, <1>1, <1>4, <1>5, <3>1
    <3> QED
      BY <3>1, <3>2, <3>3 DEF AnswerRight
  <2> QED
    BY <2>2, <2>3 DEF AnswerRight, Follows
<1>8. 0 \in Nat /\ 0 <= Len(signals)
  BY <1>0
<1>9. TripTrue'
  <2> SUFFICES ASSUME ~misled', phone.step \in OnTrip, recovery.at = "off"
               PROVE  phone.job \in HeldJobs' \/ Follows(0, Ending, phone.job)'
    BY DEF TripTrue
  <2>1. phone.job \in HeldJobs \/ Follows(0, Ending, phone.job)
    BY DEF DriverInv, TripTrue
  <2>2. PICK h \in Jobs \cup {NoJob} : h = phone.job
    BY <1>0 DEF Phone
  <2>3. h \in HeldJobs' \/ Follows(0, Ending, h)'
    BY <1>2, <1>5, <1>8, <2>1, <2>2
  <2> QED
    BY <2>2, <2>3 DEF Follows
<1>10. HeldTrue'
  <2> SUFFICES ASSUME ~misled', NEW h \in HeldJobs'
               PROVE  \/ Watched(h)' \/ tap' = <<"complete", h>>
                      \/ recovery.at # "off" \/ Follows(0, Confirming, h)'
    BY DEF HeldTrue
  <2>1. CASE h \in HeldJobs
    <3>1. \/ Watched(h) \/ tap = <<"complete", h>>
          \/ recovery.at # "off" \/ Follows(0, Confirming, h)
      BY <2>1 DEF DriverInv, HeldTrue
    <3> QED
      BY <1>2, <1>8, <3>1 DEF Watched
  <2>2. CASE h \notin HeldJobs
    BY <1>4, <1>8, <2>2
  <2> QED
    BY <2>1, <2>2
<1> QED
  BY <1>6, <1>7, <1>9, <1>10 DEF DriverInv, OnScreen

\* A step that sends nothing and gives and takes no ride.
LEMMA DriverUntold ==
    ASSUME DriverInv, DriverAppTypeOK', HeldJobs' = HeldJobs, signals' = signals,
           EndedUntold \subseteq EndedUntold', OnScreen', AnswerRight(recovery'), TripTrue', HeldTrue'
    PROVE  DriverInv'
<1>1. SignalsTrue' /\ JobsApart'
  BY DEF DriverInv, SignalsTrue, Follows, JobsApart
<1>2. AnswerRight(recovery)'
  BY DEF AnswerRight, Follows
<1> QED
  BY <1>1, <1>2 DEF DriverInv

LEMMA ServerSilent ==
    ASSUME DriverInv, DriverAppTypeOK', HeldJobs' = HeldJobs, EndedUntold \subseteq EndedUntold',
           UNCHANGED <<signals, phone, watchdog, recovery>>, misled => misled',
           \A h \in HeldJobs : tap = <<"complete", h>> => tap' = tap \/ misled'
    PROVE  DriverInv'
<1>1. OnScreen' /\ AnswerRight(recovery')
  BY DEF DriverInv, OnScreen
<1>2. TripTrue'
  BY DEF DriverInv, TripTrue, Follows
<1>3. HeldTrue'
  BY DEF DriverInv, HeldTrue, Watched, Follows
<1> QED
  BY <1>1, <1>2, <1>3, DriverUntold

\* A row is written: what it says of the other rides stands.
LEMMA BoardSays ==
    ASSUME DriverInv, NEW j \in Jobs, NEW s \in JobStatus,
           board' = [board EXCEPT ![j] = s], board[j] # "untold",
           s \in Held => j \in HeldJobs \/ HeldJobs = {}
    PROVE  /\ board' \in [Jobs -> JobStatus] /\ JobsApart' /\ EndedUntold \subseteq EndedUntold'
           /\ \A h \in Jobs \ {j} : h \in HeldJobs' <=> h \in HeldJobs
           /\ j \in HeldJobs' <=> s \in Held
           /\ j \in HeldJobs <=> board[j] \in Held
<1>1. board \in [Jobs -> JobStatus] /\ JobsApart
  BY DriverSays DEF DriverInv
<1>2. /\ board' \in [Jobs -> JobStatus] /\ board'[j] = s
      /\ \A h \in Jobs \ {j} : board'[h] = board[h]
  BY <1>1
<1>3. /\ \A h \in Jobs \ {j} : h \in HeldJobs' <=> h \in HeldJobs
      /\ j \in HeldJobs' <=> s \in Held
      /\ j \in HeldJobs <=> board[j] \in Held
  BY <1>2 DEF HeldJobs
<1>5. EndedUntold \subseteq EndedUntold'
  BY <1>2 DEF EndedUntold
<1>4. JobsApart'
  <2> SUFFICES ASSUME NEW h \in HeldJobs', NEW k \in HeldJobs' PROVE h = k
    BY DEF JobsApart
  <2>1. h \in Jobs /\ k \in Jobs
    BY DEF HeldJobs
  <2> QED
    BY <1>1, <1>3, <2>1 DEF JobsApart
<1> QED
  BY <1>2, <1>3, <1>4, <1>5

LEMMA SignalTyped ==
    ASSUME DriverInv, NEW event \in Signals, NEW j \in Jobs, Signal(event, j),
           board' \in [Jobs -> JobStatus], tap' \in {tap, NoTap},
           UNCHANGED <<phone, ticking, watchdog, recovery>>, misled' \in BOOLEAN
    PROVE  DriverAppTypeOK'
<1>1. signals' \in Seq(OnAir) /\ Len(signals') <= MaxSignals
  BY Zenon, SignalSays DEF DriverInv
<1>2. /\ tap \in (Taps \X Jobs) \cup {NoTap} /\ phone \in Phone /\ recovery \in Recovery
      /\ ticking \in BOOLEAN /\ watchdog \in BOOLEAN
  BY DriverSays DEF DriverInv
<1>3. tap' \in (Taps \X Jobs) \cup {NoTap}
  BY <1>2
<1> QED
  BY Zenon, <1>1, <1>2, <1>3, DriverTyped

LEMMA SilentTyped ==
    ASSUME DriverInv, signals' = signals,
           board' \in [Jobs -> JobStatus], tap' \in (Taps \X Jobs) \cup {NoTap},
           phone' \in Phone, recovery' \in Recovery,
           ticking' \in BOOLEAN, watchdog' \in BOOLEAN, misled' \in BOOLEAN
    PROVE  DriverAppTypeOK'
<1>1. signals' \in Seq(OnAir) /\ Len(signals') <= MaxSignals
  BY DriverSays DEF DriverInv
<1> QED
  BY Zenon, <1>1, DriverTyped

LEMMA DriverOffered == ASSUME DriverInv, NEW j \in Jobs, Offer(j) PROVE DriverInv'
<1>1. /\ board' = [board EXCEPT ![j] = "offered"] /\ Signal("request", j) /\ HeldJobs = {}
      /\ board[j] # "untold"
      /\ UNCHANGED <<tap, phone, ticking, watchdog, recovery, misled>>
      /\ "offered" \in JobStatus \ Held /\ "request" \in Signals
      /\ "request" \notin Confirming \cup Clearing
  BY DEF Offer, ServerOnly, JobStatus, Held, Signals, Confirming, Clearing, Ending
<1>2. /\ board' \in [Jobs -> JobStatus] /\ JobsApart' /\ EndedUntold \subseteq EndedUntold'
      /\ \A h \in Jobs \ {j} : h \in HeldJobs' <=> h \in HeldJobs
      /\ j \notin HeldJobs'
  BY <1>1, BoardSays
<1>3. DriverAppTypeOK'
  BY <1>1, <1>2, SignalTyped, DriverSays DEF DriverInv
<1> QED
  BY <1>1, <1>2, <1>3, ServerTells

LEMMA DriverOfferEnded == ASSUME DriverInv, NEW j \in Jobs, OfferEnds(j) PROVE DriverInv'
<1>1. /\ board' = [board EXCEPT ![j] = "over"] /\ board[j] \notin Held
      /\ board[j] # "untold"
      /\ UNCHANGED <<tap, phone, ticking, watchdog, recovery, misled>>
      /\ "over" \in JobStatus \ Held
      /\ signals' = signals \/ Signal("cancelled", j)
  BY DEF OfferEnds, ServerOnly, JobStatus, Held
<1>2. /\ board' \in [Jobs -> JobStatus] /\ JobsApart' /\ EndedUntold \subseteq EndedUntold'
      /\ \A h \in Jobs \ {j} : h \in HeldJobs' <=> h \in HeldJobs
      /\ j \notin HeldJobs' /\ j \notin HeldJobs
  BY <1>1, BoardSays
<1>3. HeldJobs' = HeldJobs
  <2>1. HeldJobs \subseteq Jobs /\ HeldJobs' \subseteq Jobs
    BY DEF HeldJobs
  <2> QED
    BY <1>2, <2>1
<1>4. CASE signals' = signals
  <2>1. DriverAppTypeOK'
    BY <1>1, <1>2, <1>4, SilentTyped, DriverSays DEF DriverInv
  <2> QED
    BY <1>1, <1>2, <1>3, <1>4, <2>1, ServerSilent
<1>5. CASE Signal("cancelled", j)
  <2>1. "cancelled" \in Signals /\ "cancelled" \notin Confirming
    BY DEF Signals, Confirming
  <2>2. DriverAppTypeOK'
    BY <1>1, <1>2, <1>5, <2>1, SignalTyped, DriverSays DEF DriverInv
  <2> QED
    BY <1>1, <1>2, <1>5, <2>1, <2>2, ServerTells
<1> QED
  BY <1>1, <1>4, <1>5

LEMMA DriverAssigned == ASSUME DriverInv, NEW j \in Jobs, OperationsAssigns(j) PROVE DriverInv'
<1>1. /\ board' = [board EXCEPT ![j] = "accepted"] /\ Signal("assigned", j) /\ HeldJobs = {}
      /\ board[j] # "untold"
      /\ UNCHANGED <<tap, phone, ticking, watchdog, recovery, misled>>
      /\ "accepted" \in JobStatus /\ "accepted" \in Held /\ "assigned" \in Signals
      /\ "assigned" \in Confirming /\ "assigned" \notin Clearing
  BY DEF OperationsAssigns, ServerOnly, JobStatus, Held, Signals, Confirming, Clearing, Ending
<1>2. /\ board' \in [Jobs -> JobStatus] /\ JobsApart' /\ EndedUntold \subseteq EndedUntold'
      /\ \A h \in Jobs \ {j} : h \in HeldJobs' <=> h \in HeldJobs
      /\ j \in HeldJobs'
  BY <1>1, BoardSays
<1>3. DriverAppTypeOK'
  BY <1>1, <1>2, SignalTyped, DriverSays DEF DriverInv
<1> QED
  BY <1>1, <1>2, <1>3, ServerTells

\* A ride the driver had is over, or somebody else's, and the phone is told.
LEMMA DriverLoses ==
    ASSUME DriverInv, NEW j \in Jobs, board[j] \in Held, NEW to \in JobStatus \ Held,
           board' = [board EXCEPT ![j] = to], NEW event \in Ending, Signal(event, j),
           UNCHANGED <<phone, ticking, watchdog, recovery, misled>>,
           tap' = tap \/ (tap' = NoTap /\ tap = <<"complete", j>>)
    PROVE  DriverInv'
<1>1. event \in Signals /\ event \notin Confirming
  BY DEF Signals, Confirming, Ending
<1>2. /\ board' \in [Jobs -> JobStatus] /\ JobsApart' /\ EndedUntold \subseteq EndedUntold'
      /\ \A h \in Jobs \ {j} : h \in HeldJobs' <=> h \in HeldJobs
      /\ j \notin HeldJobs'
  BY BoardSays DEF Held
<1>3. DriverAppTypeOK'
  BY <1>1, <1>2, SignalTyped, DriverSays DEF DriverInv
<1>4. \A h \in HeldJobs' : tap = <<"complete", h>> => tap' = tap
  BY <1>2
<1> QED
  BY <1>1, <1>2, <1>3, <1>4, ServerTells

LEMMA DriverJobEnded == ASSUME DriverInv, NEW j \in Jobs, JobEnds(j) PROVE DriverInv'
<1>1. PICK to \in {"over", "none"}, event \in Ending :
          Signal(event, j) /\ board' = [board EXCEPT ![j] = to]
  BY DEF JobEnds, Ending
<1>2. to \in JobStatus \ Held
  BY DEF JobStatus, Held
<1> QED
  BY <1>1, <1>2, DriverLoses DEF JobEnds, ServerOnly

\* A ride the driver had is over, and the phone is not told.
LEMMA DriverNotTold == ASSUME DriverInv, NEW j \in Jobs, JobEndsUntold(j) PROVE DriverInv'
<1>0. /\ board[j] \in Held /\ board' = [board EXCEPT ![j] = "untold"] /\ misled' = TRUE
      /\ recovery' = [recovery EXCEPT !.overtaken = (recovery.at = "answered")]
      /\ UNCHANGED <<signals, tap, phone, ticking, watchdog>>
      /\ "untold" \in JobStatus \ Held
  BY DEF JobEndsUntold, JobStatus, Held
<1>1. /\ board' \in [Jobs -> JobStatus] /\ JobsApart' /\ EndedUntold \subseteq EndedUntold'
      /\ \A h \in Jobs \ {j} : h \in HeldJobs' <=> h \in HeldJobs
      /\ j \notin HeldJobs'
  BY <1>0, BoardSays DEF Held
<1>2. HeldJobs' \subseteq HeldJobs /\ HeldJobs \subseteq HeldJobs' \cup EndedUntold'
  <2>1. j \in EndedUntold' /\ HeldJobs \subseteq Jobs /\ HeldJobs' \subseteq Jobs
    BY <1>0, DriverSays DEF DriverInv, EndedUntold, HeldJobs
  <2> QED
    BY <1>1, <2>1
<1>3. recovery \in Recovery /\ AnswerRight(recovery)
  BY DriverSays DEF DriverInv
<1>4. /\ recovery' \in Recovery /\ recovery'.at = recovery.at /\ recovery'.job = recovery.job
      /\ recovery'.step = recovery.step /\ recovery'.behind = recovery.behind
      /\ recovery'.overtaken = (recovery.at = "answered")
  BY <1>0, <1>3 DEF Recovery
<1>5. DriverAppTypeOK'
  BY <1>0, <1>1, <1>4, SilentTyped, DriverSays DEF DriverInv
<1>6. SignalsTrue'
  <2> SUFFICES ASSUME NEW i \in DOMAIN signals
               PROVE  (/\ signals[i].event \in Confirming =>
                             \/ signals[i].job \in HeldJobs \cup EndedUntold
                             \/ Follows(i, Ending, signals[i].job)
                       /\ signals[i].event \in Clearing /\ signals[i].job \in HeldJobs =>
                             Follows(i, Confirming, signals[i].job))'
    BY <1>0 DEF SignalsTrue
  <2>1. PICK e \in OnAir : e = signals[i]
    BY DriverSays DEF DriverInv
  <2>2. /\ e.event \in Confirming => e.job \in HeldJobs \cup EndedUntold \/ Follows(i, Ending, e.job)
        /\ e.event \in Clearing /\ e.job \in HeldJobs => Follows(i, Confirming, e.job)
    BY <2>1 DEF DriverInv, SignalsTrue
  <2>3. \A events, h : Follows(i, events, h) => Follows(i, events, h)'
    BY <1>0 DEF Follows
  <2>4. /\ e.event \in Confirming =>
              e.job \in HeldJobs' \cup EndedUntold' \/ Follows(i, Ending, e.job)'
        /\ e.event \in Clearing /\ e.job \in HeldJobs' => Follows(i, Confirming, e.job)'
    BY <1>1, <1>2, <2>2, <2>3
  <2> QED
    BY <1>0, <2>1, <2>4 DEF Follows
<1>7. AnswerRight(recovery)'
  BY <1>0, <1>3, <1>4 DEF AnswerRight
<1>8. OnScreen' /\ TripTrue' /\ HeldTrue'
  BY <1>0 DEF DriverInv, OnScreen, TripTrue, HeldTrue
<1> QED
  BY <1>1, <1>5, <1>6, <1>7, <1>8 DEF DriverInv

\* A tap is handled, and nothing comes of it that the driver would have to be told.
LEMMA TapDropped ==
    ASSUME DriverInv, NEW j \in Jobs, tap' = NoTap,
           \A h \in Jobs : tap = <<"complete", h>> => misled',
           board' \in [Jobs -> JobStatus], HeldJobs' = HeldJobs, signals' = signals,
           EndedUntold \subseteq EndedUntold', UNCHANGED <<phone, ticking, watchdog, recovery>>, misled' \in BOOLEAN,
           misled => misled'
    PROVE  DriverInv'
<1>1. DriverAppTypeOK'
  BY SilentTyped, DriverSays DEF DriverInv
<1>2. HeldJobs \subseteq Jobs
  BY DEF HeldJobs
<1> QED
  BY <1>1, <1>2, ServerSilent

LEMMA TapTold ==
    ASSUME DriverInv, NEW j \in Jobs, tap' = NoTap,
           \A h \in Jobs : tap # <<"complete", h>>, board' = board,
           NEW event \in {"debt", "expired"}, Signal(event, j), j \notin HeldJobs,
           UNCHANGED <<phone, ticking, watchdog, recovery, misled>>
    PROVE  DriverInv'
<1>1. event \in Signals /\ event \notin Confirming /\ event \notin Ending
  BY DEF Signals, Confirming, Ending
<1>2. HeldJobs' = HeldJobs /\ HeldJobs \subseteq Jobs /\ JobsApart' /\ EndedUntold' = EndedUntold
  BY DEF HeldJobs, DriverInv, JobsApart, EndedUntold
<1>3. DriverAppTypeOK'
  BY <1>1, SignalTyped, DriverSays DEF DriverInv
<1> QED
  BY <1>1, <1>2, <1>3, ServerTells

LEMMA DriverAccepted == ASSUME DriverInv, NEW j \in Jobs, HandleAccept(j) PROVE DriverInv'
<1>0. /\ tap = <<"accept", j>> /\ tap' = NoTap
      /\ UNCHANGED <<phone, ticking, watchdog, recovery, misled>>
      /\ \A h \in Jobs : tap # <<"complete", h>>
  BY DEF HandleAccept, TapLeft, ServerOnly
<1>1. CASE /\ HeldJobs = {} /\ board' = [board EXCEPT ![j] = "accepted"]
           /\ board[j] = "offered" /\ Signal("confirmed", j)
  <2>1. /\ "accepted" \in JobStatus /\ "accepted" \in Held /\ "confirmed" \in Signals
        /\ "confirmed" \in Confirming /\ "confirmed" \notin Clearing
    BY DEF JobStatus, Held, Signals, Confirming, Clearing, Ending
  <2>2. /\ board' \in [Jobs -> JobStatus] /\ JobsApart' /\ EndedUntold \subseteq EndedUntold'
        /\ \A h \in Jobs \ {j} : h \in HeldJobs' <=> h \in HeldJobs
        /\ j \in HeldJobs'
    BY <1>1, <2>1, BoardSays
  <2>3. DriverAppTypeOK'
    BY <1>0, <1>1, <2>1, <2>2, SignalTyped, DriverSays DEF DriverInv
  <2>4. \A h \in HeldJobs' : tap # <<"complete", h>>
    BY <1>0
  <2> QED
    BY <1>0, <1>1, <2>1, <2>2, <2>3, <2>4, ServerTells
<1>2. CASE HeldJobs = {} /\ board' = board /\ Signal("debt", j)
  BY <1>0, <1>2, TapTold
<1>3. CASE board[j] \in {"over", "untold"} /\ board' = board /\ Signal("expired", j)
  <2>1. j \notin HeldJobs
    BY <1>3 DEF HeldJobs, Held
  <2> QED
    BY <1>0, <1>3, <2>1, TapTold
<1>4. CASE board' = board /\ signals' = signals
  <2>1. board \in [Jobs -> JobStatus] /\ misled \in BOOLEAN /\ HeldJobs' = HeldJobs
        /\ EndedUntold' = EndedUntold
    BY <1>4, DriverSays DEF DriverInv, HeldJobs, EndedUntold
  <2> QED
    BY <1>0, <1>4, <2>1, TapDropped
<1> QED
  BY <1>1, <1>2, <1>3, <1>4 DEF HandleAccept

LEMMA DriverRejected == ASSUME DriverInv, NEW j \in Jobs, HandleReject(j) PROVE DriverInv'
<1>0. /\ tap = <<"reject", j>> /\ tap' = NoTap
      /\ UNCHANGED <<signals, phone, ticking, watchdog, recovery, misled>>
      /\ \A h \in Jobs : tap # <<"complete", h>>
      /\ board \in [Jobs -> JobStatus] /\ misled \in BOOLEAN
  BY DriverSays DEF HandleReject, TapLeft, ServerOnly, DriverInv
<1> DEFINE s == IF board[j] = "offered" THEN "none" ELSE board[j]
<1>1. /\ board' = [board EXCEPT ![j] = s] /\ s \in JobStatus
      /\ (s \in Held <=> board[j] \in Held) /\ (board[j] = "untold" => s = "untold")
  BY <1>0 DEF HandleReject, JobStatus, Held
<1> HIDE DEF s
<1>2. /\ board' \in [Jobs -> JobStatus]
      /\ \A h \in Jobs : board'[h] \in Held <=> board[h] \in Held
      /\ \A h \in Jobs : board[h] = "untold" => board'[h] = "untold"
  BY <1>0, <1>1
<1>3. HeldJobs' = HeldJobs /\ EndedUntold \subseteq EndedUntold'
  BY <1>2 DEF HeldJobs, EndedUntold
<1> QED
  BY <1>0, <1>2, <1>3, TapDropped

LEMMA DriverMoved == ASSUME DriverInv, NEW j \in Jobs, HandleMove(j) PROVE DriverInv'
<1>0. /\ tap' = NoTap /\ UNCHANGED <<phone, ticking, watchdog, recovery, misled>>
      /\ \A h \in Jobs : tap # <<"complete", h>>
      /\ board \in [Jobs -> JobStatus] /\ misled \in BOOLEAN
  BY DriverSays DEF HandleMove, TapLeft, ServerOnly, DriverInv
<1>1. ASSUME NEW move \in Moves, board[j] = move[2],
             board' = [board EXCEPT ![j] = move[3]], signals' = signals
      PROVE  DriverInv'
  <2>1. move[2] \in Held /\ move[3] \in Held /\ move[3] \in JobStatus /\ "untold" \notin Held
    BY DEF Moves, Held, JobStatus
  <2>2. /\ board' \in [Jobs -> JobStatus]
        /\ \A h \in Jobs : board'[h] \in Held <=> board[h] \in Held
        /\ \A h \in Jobs : board[h] = "untold" => board'[h] = "untold"
    BY <1>0, <1>1, <2>1
  <2>3. HeldJobs' = HeldJobs /\ EndedUntold \subseteq EndedUntold'
    BY <2>2 DEF HeldJobs, EndedUntold
  <2> QED
    BY <1>0, <1>1, <2>2, <2>3, TapDropped
<1>2. CASE board[j] \notin Held /\ board' = board /\ Signal("expired", j)
  <2>1. j \notin HeldJobs
    BY <1>2 DEF HeldJobs
  <2> QED
    BY <1>0, <1>2, <2>1, TapTold
<1>3. CASE board' = board /\ signals' = signals
  <2>1. HeldJobs' = HeldJobs /\ EndedUntold' = EndedUntold
    BY <1>3 DEF HeldJobs, EndedUntold
  <2> QED
    BY <1>0, <1>3, <2>1, TapDropped
<1> QED
  BY <1>1, <1>2, <1>3 DEF HandleMove

LEMMA DriverCompleted == ASSUME DriverInv, NEW j \in Jobs, HandleComplete(j) PROVE DriverInv'
<1>0. /\ tap = <<"complete", j>> /\ tap' = NoTap
      /\ UNCHANGED <<phone, ticking, watchdog, recovery>>
      /\ board \in [Jobs -> JobStatus]
  BY DriverSays DEF HandleComplete, TapLeft, DriverInv
<1>1. ASSUME board[j] = "in_progress", board' = [board EXCEPT ![j] = "over"],
             NEW event \in {"finished", "held"}, Signal(event, j), misled' = misled
      PROVE  DriverInv'
  <2>1. "over" \in JobStatus \ Held /\ event \in Ending /\ board[j] \in Held
    BY <1>1 DEF JobStatus, Held, Ending
  <2> QED
    BY <1>0, <1>1, <2>1, DriverLoses
<1>2. CASE board' = board /\ signals' = signals /\ misled' = TRUE
  <2>1. HeldJobs' = HeldJobs /\ EndedUntold' = EndedUntold
    BY <1>2 DEF HeldJobs, EndedUntold
  <2> QED
    BY <1>0, <1>2, <2>1, TapDropped
<1> QED
  BY <1>1, <1>2 DEF HandleComplete

-------------------------------------------------------------------------------
(* The driver *)

LEMMA PhoneSays ==
    ASSUME DriverInv
    PROVE  /\ board \in [Jobs -> JobStatus] /\ tap \in (Taps \X Jobs) \cup {NoTap}
           /\ phone \in Phone /\ recovery \in Recovery
           /\ ticking \in BOOLEAN /\ watchdog \in BOOLEAN /\ misled \in BOOLEAN
           /\ Free \in Phone /\ Free.step = "none" /\ Started \in Phone
           /\ Started.step = "none" /\ "none" \notin OnTrip /\ OnTrip \subseteq TripStep
           /\ NoJob \notin Jobs
BY DriverSays, DriverAppAssumption
   DEF DriverInv, Free, Started, Phone, OnTrip, TripStep, DriverAppAssumption

\* The driver's taps and timers leave the rows, the wire and the recovery alone.
LEMMA PhoneSteps ==
    ASSUME DriverInv, UNCHANGED <<board, signals, recovery>>,
           tap' \in (Taps \X Jobs) \cup {NoTap}, phone' \in Phone, ticking' \in BOOLEAN,
           watchdog' \in BOOLEAN, misled' \in BOOLEAN, misled => misled',
           OnScreen',
           ~misled' => /\ phone'.step \in OnTrip =>
                              phone'.step = phone.step \/ phone.step \in OnTrip
                       /\ phone'.step \in OnTrip => phone'.job = phone.job
                       /\ \A h \in HeldJobs : Watched(h) => Watched(h)' \/ tap' = <<"complete", h>>
                       /\ \A h \in HeldJobs : tap = <<"complete", h>> => tap' = tap
    PROVE  DriverInv'
<1>1. HeldJobs' = HeldJobs /\ EndedUntold' = EndedUntold /\ DriverAppTypeOK'
  BY SilentTyped, PhoneSays DEF HeldJobs, EndedUntold
<1>2. AnswerRight(recovery')
  BY DEF DriverInv
<1>3. TripTrue'
  BY <1>1 DEF DriverInv, TripTrue, Follows
<1>4. HeldTrue'
  BY <1>1 DEF DriverInv, HeldTrue, Follows
<1> QED
  BY <1>1, <1>2, <1>3, <1>4, DriverUntold

LEMMA DriverAccepts == ASSUME DriverInv, acceptRequest PROVE DriverInv'
<1>1. /\ phone.job \in Jobs /\ "accept" \in Taps /\ tap' = <<"accept", phone.job>>
      /\ UNCHANGED <<board, signals, recovery, phone, watchdog, misled>> /\ ticking' = FALSE
      /\ tap = NoTap
  BY PhoneSays DEF acceptRequest, PhoneOnly, Phone, Taps
<1>2. \A h \in HeldJobs : tap # <<"complete", h>>
  BY <1>1 DEF NoTap
<1> QED
  BY <1>1, <1>2, PhoneSays, PhoneSteps DEF OnScreen, DriverInv, Watched

LEMMA DriverRejects == ASSUME DriverInv, rejectRequest PROVE DriverInv'
<1>1. /\ phone.job \in Jobs /\ "reject" \in Taps /\ tap' = <<"reject", phone.job>>
      /\ UNCHANGED <<board, signals, recovery, watchdog, misled>> /\ ticking' = FALSE
      /\ phone' = Free /\ phone.step = "none" /\ tap = NoTap
  BY PhoneSays DEF rejectRequest, PhoneOnly, Phone, Taps
<1>2. \A h \in HeldJobs : tap # <<"complete", h>>
  BY <1>1 DEF NoTap
<1> QED
  BY <1>1, <1>2, PhoneSays, PhoneSteps DEF OnScreen, Watched

LEMMA DriverAdvances == ASSUME DriverInv, Advances PROVE DriverInv'
<1>0. /\ UNCHANGED <<board, signals, recovery, ticking, watchdog, misled>> /\ tap = NoTap
  BY DEF Advances, PhoneOnly
<1>1. PICK move \in Onwards : /\ phone.step = move[1] /\ tap' = <<move[2], phone.job>>
                              /\ phone' = [phone EXCEPT !.step = move[3]]
  BY DEF Advances
<1>2. /\ move[1] \in OnTrip /\ move[2] \in Taps /\ move[3] \in TripStep /\ move[3] # "none"
      /\ move[3] \in OnTrip \/ move[2] = "complete"
  BY DEF Onwards, OnTrip, Taps, TripStep
<1>3. phone' \in Phone /\ phone'.step = move[3] /\ phone'.job = phone.job
  BY <1>1, <1>2, PhoneSays DEF Phone
<1>4. phone.job \in Jobs
  BY <1>1, <1>2, PhoneSays DEF DriverInv, OnScreen, Phone
<1>5. OnScreen'
  BY <1>3, <1>4, PhoneSays DEF OnScreen
<1>6. \A h \in HeldJobs : Watched(h) => Watched(h)' \/ tap' = <<"complete", h>>
  BY <1>0, <1>1, <1>2, <1>3 DEF Watched
<1>7. \A h \in HeldJobs : tap # <<"complete", h>>
  BY <1>0 DEF NoTap
<1>8. tap' \in (Taps \X Jobs) \cup {NoTap}
  BY <1>1, <1>2, <1>4
<1> QED
  BY <1>0, <1>1, <1>2, <1>3, <1>5, <1>6, <1>7, <1>8, PhoneSays, PhoneSteps

LEMMA DriverFinishes == ASSUME DriverInv, finishAndGoAvailable PROVE DriverInv'
BY PhoneSays, PhoneSteps DEF finishAndGoAvailable, PhoneOnly, OnScreen

LEMMA DriverToggles == ASSUME DriverInv, toggleOnline PROVE DriverInv'
<1>1. /\ UNCHANGED <<board, signals, recovery, tap, ticking, watchdog, misled>>
      /\ \E op \in {"offline", "available"} : phone' = [phone EXCEPT !.op = op]
  BY DEF toggleOnline, PhoneOnly
<1>2. phone' \in Phone /\ phone'.step = phone.step /\ phone'.job = phone.job
  BY <1>1, PhoneSays DEF Phone
<1> QED
  BY <1>1, <1>2, PhoneSays, PhoneSteps DEF OnScreen, DriverInv, Watched

LEMMA DriverTimesOut == ASSUME DriverInv, HandleTimeout PROVE DriverInv'
BY PhoneSays, PhoneSteps DEF HandleTimeout, PhoneOnly, OnScreen, Watched

LEMMA DriverUnwatched == ASSUME DriverInv, WatchdogStops PROVE DriverInv'
<1>1. \A h \in HeldJobs : ~Watched(h)
  BY PhoneSays DEF WatchdogStops, Watched, HeldJobs
<1> QED
  BY <1>1, PhoneSays, PhoneSteps DEF WatchdogStops, PhoneOnly, OnScreen, DriverInv

-------------------------------------------------------------------------------
(* The socket *)

LEMMA BehindSays ==
    ASSUME DriverInv, NEW n \in Nat, n <= Len(signals), HeldJobs' = HeldJobs, NearerBy(n)
    PROVE  /\ Behind(n) \in Recovery /\ Behind(n).at = recovery.at
           /\ \A b \in Recovery : b = Behind(n) => AnswerRight(b)'
<1>0. /\ recovery \in Recovery /\ Len(signals) \in Nat /\ MaxSignals \in Nat
      /\ AnswerRight(recovery) /\ recovery.behind \in Nat
      /\ recovery.behind <= MaxSignals
  BY DriverSays, DriverAppAssumption DEF DriverInv, DriverAppAssumption, Recovery
<1>1. CASE recovery.at # "answered"
  <2>1. Behind(n) = recovery
    BY <1>1 DEF Behind
  <2> QED
    BY <1>0, <1>1, <2>1 DEF AnswerRight
<1>2. CASE recovery.at = "answered" /\ recovery.behind >= n
  <2>1. PICK m \in 0..MaxSignals : m = recovery.behind - n /\ m + n = recovery.behind
    BY <1>0, <1>2
  <2>2. m \in Nat
    BY <1>0, <2>1
  <2> DEFINE c == [recovery EXCEPT !.behind = m]
  <2>3. Behind(n) = c
    BY <1>2, <2>1 DEF Behind
  <2>4. /\ c \in Recovery /\ c.behind = m /\ c.at = recovery.at /\ c.job = recovery.job
        /\ c.step = recovery.step /\ c.overtaken = recovery.overtaken
    BY <1>0, <2>1 DEF Recovery
  <2> HIDE DEF c
  <2>5. m <= Len(signals')
    <3>1. recovery.behind <= Len(signals)
      BY <1>0, <1>2 DEF AnswerRight
    <3> DEFINE h == recovery.behind
    <3>2. h <= Len(signals) /\ m = h - n /\ h \in Nat
      BY <1>0, <2>1, <3>1
    <3> HIDE DEF h
    <3>3. m <= Len(signals) - n
      BY <1>0, <3>2
    <3> QED
      BY <3>3 DEF NearerBy
  <2>6. \A events, h : Follows(recovery.behind, events, h) => Follows(m, events, h)'
    BY <2>1, <2>2 DEF NearerBy
  <2>7. ASSUME NEW b \in Recovery, b = c PROVE AnswerRight(b)'
    <3>1. b.behind = m /\ \A events, h : Follows(m, events, h)' => Follows(b.behind, events, h)'
      BY <2>4, <2>7 DEF Follows
    <3> QED
      BY <1>0, <1>2, <2>4, <2>5, <2>6, <2>7, <3>1 DEF AnswerRight
  <2> QED
    BY <2>3, <2>4, <2>7
<1>3. CASE recovery.at = "answered" /\ ~(recovery.behind >= n)
  <2> DEFINE c == [recovery EXCEPT !.behind = 0, !.overtaken = TRUE]
  <2>1. Behind(n) = c
    BY <1>3 DEF Behind
  <2>2. 0 \in 0..MaxSignals
    BY <1>0
  <2>3. /\ c \in Recovery /\ c.behind = 0 /\ c.overtaken /\ c.at = recovery.at
        /\ c.job = recovery.job /\ c.step = recovery.step
    BY <1>0, <2>2 DEF Recovery
  <2> HIDE DEF c
  <2>4. 0 <= Len(signals')
    BY <1>0 DEF NearerBy
  <2>5. ASSUME NEW b \in Recovery, b = c PROVE AnswerRight(b)'
    <3>1. b.behind = 0 /\ b.overtaken
      BY <2>3, <2>5
    <3> QED
      BY <1>0, <1>3, <2>3, <2>4, <2>5, <3>1 DEF AnswerRight
  <2> QED
    BY <2>1, <2>3, <2>5
<1> QED
  BY <1>1, <1>2, <1>3

LEMMA RecoverySays ==
    ASSUME DriverInv, NEW n \in Nat, n <= Len(signals), HeldJobs' = HeldJobs, NearerBy(n),
           recovery' \in {Behind(n), AskFrom(Behind(n))}
    PROVE  /\ recovery' \in Recovery /\ AnswerRight(recovery)'
           /\ recovery.at # "off" => recovery'.at # "off"
           /\ recovery' = AskFrom(Behind(n)) => recovery'.at # "off"
<1>1. /\ Behind(n) \in Recovery /\ Behind(n).at = recovery.at
      /\ \A b \in Recovery : b = Behind(n) => AnswerRight(b)'
  BY Zenon, BehindSays
<1>2. /\ AskFrom(Behind(n)) \in {Behind(n), Recovering} /\ AskFrom(Behind(n)).at # "off"
      /\ Recovering \in Recovery /\ Recovering.at = "asked"
  BY RecoveringSays DEF AskFrom
<1>3. recovery' \in {Behind(n), Recovering}
  BY <1>2
<1>4. PICK b \in Recovery : b = recovery'
  BY <1>1, <1>2, <1>3
<1>5. AnswerRight(b)'
  <2>1. CASE b = Behind(n)
    BY <1>1, <2>1
  <2>2. CASE b.at = "asked"
    BY <2>2 DEF AnswerRight
  <2> QED
    BY <1>2, <1>3, <1>4, <2>1, <2>2
<1>6. AnswerRight(recovery)'
  BY <1>4, <1>5 DEF AnswerRight, Follows
<1> QED
  BY <1>1, <1>2, <1>3, <1>6

LEMMA DriverHears == ASSUME DriverInv, Receive PROVE DriverInv'
<1>e. PICK e \in OnAir : e = Head(signals)
  BY ReceivedSays DEF Receive, DriverInv
<1>0. /\ DriverAppTypeOK /\ signals # <<>> /\ signals' = Tail(signals) /\ Handle(e)
      /\ UNCHANGED <<board, tap>> /\ misled' = (misled \/ Astray(e))
      /\ recovery' = IF e.event = "assigned" /\ phone'.step # "completed"
                     THEN AskFrom(Behind(1)) ELSE Behind(1)
      /\ HeldJobs' = HeldJobs /\ Len(signals) \in Nat /\ Len(signals) <= MaxSignals
      /\ MaxSignals \in Nat /\ EndedUntold' = EndedUntold
  BY <1>e, DriverSays, DriverAppAssumption
     DEF Receive, DriverInv, HeldJobs, EndedUntold, DriverAppAssumption
<1>1. /\ signals' \in Seq(OnAir) /\ Len(signals') = Len(signals) - 1
      /\ DOMAIN signals' = 1..(Len(signals) - 1) /\ Len(signals) >= 1
      /\ \A i \in DOMAIN signals' : i + 1 \in DOMAIN signals /\ signals'[i] = signals[i + 1]
      /\ e = signals[1] /\ 1 \in DOMAIN signals /\ e \in OnAir
  BY Zenon, <1>e, <1>0, ReceivedSays
<1>2. NearerBy(1)
  BY Zenon, <1>0, ReceivedNearer
<1>3. /\ recovery' \in Recovery /\ AnswerRight(recovery)'
      /\ recovery.at # "off" => recovery'.at # "off"
      /\ e.event = "assigned" /\ phone'.step # "completed" => recovery'.at # "off"
  BY <1>0, <1>1, <1>2, RecoverySays
<1>4. /\ phone \in Phone /\ phone' \in Phone /\ OnScreen /\ OnScreen'
      /\ ticking' \in BOOLEAN /\ watchdog' \in BOOLEAN /\ misled' \in BOOLEAN
  <2>1. phone \in Phone /\ e.job \in Jobs /\ OnScreen
    BY <1>1, PhoneSays DEF OnAir, DriverInv
  <2>2. /\ [phone EXCEPT !.op = "busy", !.job = e.job] \in Phone
        /\ [phone EXCEPT !.op = "busy", !.job = e.job].job = e.job
        /\ [phone EXCEPT !.step = "accepted"] \in Phone
        /\ [phone EXCEPT !.step = "accepted"].job = phone.job
    BY <2>1 DEF Phone, TripStep, OnTrip
  <2>3. /\ \/ phone' \in {phone, Free}
           \/ phone' = [phone EXCEPT !.op = "busy", !.job = e.job]
           \/ phone' = [phone EXCEPT !.step = "accepted"] /\ phone.job = e.job
        /\ ticking' \in BOOLEAN /\ watchdog' \in BOOLEAN
    BY <1>0, PhoneSays DEF Handle, handleIncomingRequest, Confirms, Clears
  <2> QED
    BY <1>0, <2>1, <2>2, <2>3, PhoneSays DEF OnScreen, Astray
<1>5. DriverAppTypeOK'
  <2>1. Len(signals') <= MaxSignals
    BY <1>0, <1>1
  <2>2. /\ board' \in [Jobs -> JobStatus] /\ tap' \in (Taps \X Jobs) \cup {NoTap}
    BY <1>0, PhoneSays
  <2> QED
    BY Zenon, <1>1, <1>3, <1>4, <2>1, <2>2, DriverTyped
<1>6. JobsApart'
  BY <1>0 DEF DriverInv, JobsApart
<1>7. SignalsTrue'
  <2> SUFFICES ASSUME NEW i \in DOMAIN signals'
               PROVE  (/\ signals[i].event \in Confirming =>
                             \/ signals[i].job \in HeldJobs \cup EndedUntold
                             \/ Follows(i, Ending, signals[i].job)
                       /\ signals[i].event \in Clearing /\ signals[i].job \in HeldJobs =>
                             Follows(i, Confirming, signals[i].job))'
    BY DEF SignalsTrue
  <2>1. i \in Nat /\ i + 1 \in DOMAIN signals /\ signals'[i] = signals[i + 1]
    BY <1>0, <1>1
  <2>2. PICK x \in OnAir : x = signals[i + 1]
    BY <2>1, <1>0, DriverSays
  <2>3. /\ x.event \in Confirming =>
              x.job \in HeldJobs \cup EndedUntold \/ Follows(i + 1, Ending, x.job)
        /\ x.event \in Clearing /\ x.job \in HeldJobs => Follows(i + 1, Confirming, x.job)
    BY <2>1, <2>2 DEF DriverInv, SignalsTrue
  <2>4. /\ x.event \in Confirming =>
              x.job \in HeldJobs' \cup EndedUntold' \/ Follows(i, Ending, x.job)'
        /\ x.event \in Clearing /\ x.job \in HeldJobs' => Follows(i, Confirming, x.job)'
    BY <1>0, <1>2, <2>1, <2>3 DEF NearerBy
  <2> QED
    BY <2>1, <2>2, <2>4 DEF Follows
<1>8. /\ e.event \in Confirming => e.job \in HeldJobs \cup EndedUntold \/ Follows(0, Ending, e.job)'
      /\ e.event \in Clearing /\ e.job \in HeldJobs => Follows(0, Confirming, e.job)'
  <2>1. /\ e.event \in Confirming => e.job \in HeldJobs \cup EndedUntold \/ Follows(1, Ending, e.job)
        /\ e.event \in Clearing /\ e.job \in HeldJobs => Follows(1, Confirming, e.job)
    BY <1>1 DEF DriverInv, SignalsTrue
  <2>2. \A events, h : Follows(0 + 1, events, h) => Follows(0, events, h)'
    BY <1>2 DEF NearerBy
  <2>3. 0 + 1 = 1
    OBVIOUS
  <2> QED
    BY <2>1, <2>2, <2>3
<1>9. ASSUME NEW events, NEW h, Follows(0, events, h)
      PROVE  (e.event \in events /\ e.job = h) \/ Follows(0, events, h)'
  <2>1. PICK k \in DOMAIN signals :
            k > 0 /\ signals[k].event \in events /\ signals[k].job = h
    BY <1>9 DEF Follows
  <2>2. CASE k = 1
    BY <1>1, <2>1, <2>2
  <2>3. CASE k # 1
    <3>1. k > 1
      BY <1>0, <2>1, <2>3, DriverSays
    <3>2. Follows(0 + 1, events, h) /\ 0 \in Nat
      BY <2>1, <3>1 DEF Follows
    <3> QED
      BY <1>2, <3>2 DEF NearerBy
  <2> QED
    BY <2>2, <2>3
<1>10. TripTrue'
  <2> SUFFICES ASSUME ~misled', phone'.step \in OnTrip, recovery'.at = "off",
                      NEW x \in Jobs \cup {NoJob}, x = phone'.job
               PROVE  x \in HeldJobs \/ Follows(0, Ending, x)'
    <3>1. phone'.job \in Jobs \cup {NoJob}
      BY <1>4 DEF Phone
    <3> QED
      BY <1>0, <3>1 DEF TripTrue, Follows
  <2>1. CASE phone' = [phone EXCEPT !.step = "accepted"] /\ phone.job = e.job
             /\ e.event \in Confirming
    <3>1. x = e.job
      BY <1>4, <2>1 DEF Phone
    <3>2. e.job \notin EndedUntold
      BY <1>0, <2>1 DEF EndedUntold, Astray, Confirming
    <3> QED
      BY <1>8, <2>1, <3>1, <3>2
  <2>2. CASE phone' = phone
    <3>1. x \in HeldJobs \/ Follows(0, Ending, x)
      BY <1>0, <1>3, <2>2 DEF DriverInv, TripTrue
    <3>2. CASE e.event \in Ending /\ e.job = x
      <4>1. phone' = Free
        BY <1>0, <2>2, <3>2 DEF Handle, Clears, Ending
      <4> QED
        BY <4>1, PhoneSays
    <3> QED
      BY <1>9, <3>1, <3>2
  <2>3. phone' # Free
    BY PhoneSays
  <2>4. CASE phone' = [phone EXCEPT !.op = "busy", !.job = e.job] /\ phone.step \notin OnTrip
    BY <1>4, <2>4 DEF Phone
  <2> QED
    BY <1>0, <2>1, <2>2, <2>3, <2>4
       DEF Handle, handleIncomingRequest, Confirms, Clears, Confirming
<1>11. HeldTrue'
  <2> SUFFICES ASSUME ~misled', NEW h \in HeldJobs, recovery'.at = "off",
                      tap # <<"complete", h>>
               PROVE  Watched(h)' \/ Follows(0, Confirming, h)'
    BY <1>0 DEF HeldTrue
  <2>0. ~misled /\ ~Astray(e)
    BY <1>0
  <2>1. Watched(h) \/ Follows(0, Confirming, h)
    BY <1>3, <2>0 DEF DriverInv, HeldTrue
  <2>2. e.event \in Clearing /\ e.job = h => Follows(0, Confirming, h)'
    BY <1>8
  <2>3. CASE Watched(h)
    <3>1. phone.job = h /\ phone.step \in OnTrip /\ watchdog /\ phone.step # "none"
      BY <2>3, PhoneSays DEF Watched
    <3>2. CASE e.event \in Clearing /\ e.job = h
      BY <2>2, <3>2
    <3>3. CASE e.event \in Clearing /\ e.job # h
      <4>1. phone' = phone /\ watchdog' = watchdog
        BY <1>0, <2>0, <3>1, <3>3 DEF Handle, Clears, Clearing, Ending, Astray
      <4> QED
        BY <3>1, <4>1 DEF Watched
    <3>4. CASE e.event = "request"
      <4>1. phone' = phone /\ watchdog' = watchdog
        BY <1>0, <3>1, <3>4 DEF Handle, handleIncomingRequest
      <4> QED
        BY <3>1, <4>1 DEF Watched
    <3>5. CASE e.event \in Confirming
      <4>1. Confirms(e.job)
        BY <1>0, <3>5 DEF Handle, Confirming
      <4>2. phone'.job = h /\ phone'.step \in OnTrip /\ watchdog'
        BY <1>4, <3>1, <4>1 DEF Confirms, Phone, OnTrip
      <4> QED
        BY <4>2 DEF Watched
    <3> QED
      BY <1>1, <3>2, <3>3, <3>4, <3>5 DEF OnAir, Signals, Clearing, Ending, Confirming
  <2>4. CASE e.event \in Confirming /\ e.job = h
    <3>1. Confirms(e.job)
      BY <1>0, <2>4 DEF Handle, Confirming
    <3>2. CASE phone.job = h
      <4>1. phone'.job = h /\ phone'.step \in OnTrip /\ watchdog'
        BY <1>4, <2>4, <3>1, <3>2 DEF Confirms, Phone, OnTrip
      <4> QED
        BY <4>1 DEF Watched
    <3>3. CASE phone.job # h
      <4>1. e.event = "assigned" /\ phone.step # "completed"
        BY <2>0, <2>4, <3>3 DEF Astray, Confirming
      <4>2. phone' = phone
        BY <2>4, <3>1, <3>3 DEF Confirms
      <4> QED
        BY <1>3, <4>1, <4>2
    <3> QED
      BY <3>2, <3>3
  <2> QED
    BY <1>9, <2>1, <2>3, <2>4
<1> QED
  BY <1>3, <1>4, <1>5, <1>6, <1>7, <1>10, <1>11 DEF DriverInv

LEMMA DriverBackOnAir == ASSUME DriverInv, DriverReconnects PROVE DriverInv'
<1>0. /\ signals' = <<>> /\ tap' \in {tap, NoTap}
      /\ UNCHANGED <<board, phone, ticking, watchdog>>
      /\ misled' = (misled \/ signals # <<>> \/ tap' # tap)
      /\ recovery' \in {Behind(Len(signals)), AskFrom(Behind(Len(signals)))}
      /\ HeldJobs' = HeldJobs /\ DriverAppTypeOK /\ MaxSignals \in Nat
  BY DriverAppAssumption DEF DriverReconnects, HeldJobs, DriverInv, DriverAppAssumption
<1>1. /\ signals \in Seq(OnAir) /\ Len(signals) \in Nat /\ DOMAIN signals = 1..Len(signals)
  BY <1>0, DriverSays
<1>2. Len(signals') = 0 /\ DOMAIN signals' = {} /\ signals' \in Seq(OnAir)
  BY <1>0
<1>3. NearerBy(Len(signals))
  <2>1. ASSUME NEW i \in Nat, NEW events, NEW h PROVE ~Follows(i + Len(signals), events, h)
    <3>1. \A k \in DOMAIN signals : ~(k > i + Len(signals))
      BY <1>1
    <3> QED
      BY <3>1 DEF Follows
  <2> QED
    BY <1>1, <1>2, <2>1 DEF NearerBy
<1>4. /\ recovery' \in Recovery /\ AnswerRight(recovery)'
      /\ recovery.at # "off" => recovery'.at # "off"
  BY <1>0, <1>1, <1>3, RecoverySays
<1>5. DriverAppTypeOK'
  <2>1. Len(signals') <= MaxSignals /\ misled' \in BOOLEAN
    BY <1>0, <1>2, PhoneSays
  <2>2. /\ board' \in [Jobs -> JobStatus] /\ tap' \in (Taps \X Jobs) \cup {NoTap}
        /\ phone' \in Phone /\ ticking' \in BOOLEAN /\ watchdog' \in BOOLEAN
    BY <1>0, PhoneSays
  <2> QED
    BY Zenon, <1>2, <1>4, <2>1, <2>2, DriverTyped
<1>6. SignalsTrue' /\ JobsApart' /\ OnScreen'
  BY <1>0, <1>2 DEF DriverInv, SignalsTrue, JobsApart, OnScreen
<1>7. TripTrue' /\ HeldTrue'
  <2>1. ASSUME ~misled', NEW events, NEW h PROVE ~Follows(0, events, h)
    <3>0. misled' = (misled \/ signals # <<>> \/ tap' # tap)
      BY <1>0
    <3>1. signals = <<>>
      BY <2>1, <3>0
    <3>2. DOMAIN signals = {}
      BY <3>1
    <3> QED
      BY <3>2 DEF Follows
  <2>2. ~misled' => ~misled /\ tap' = tap
    BY <1>0
  <2> QED
    BY <1>0, <1>4, <2>1, <2>2 DEF DriverInv, TripTrue, HeldTrue, Watched
<1> QED
  BY <1>4, <1>5, <1>6, <1>7 DEF DriverInv

-------------------------------------------------------------------------------
(* Recovery *)

LEMMA DriverAsks == ASSUME DriverInv, recoverDriverRide PROVE DriverInv'
<1>1. /\ recovery' = Recovering /\ recovery'.at = "asked" /\ recovery' \in Recovery
      /\ UNCHANGED <<board, signals, tap, phone, ticking, watchdog, misled>>
  BY RecoveringSays DEF recoverDriverRide
<1>2. DriverAppTypeOK' /\ HeldJobs' = HeldJobs /\ EndedUntold' = EndedUntold
  BY <1>1, SilentTyped, PhoneSays DEF HeldJobs, EndedUntold
<1>3. OnScreen' /\ AnswerRight(recovery') /\ TripTrue' /\ HeldTrue'
  BY <1>1, <1>2 DEF DriverInv, OnScreen, AnswerRight, TripTrue, HeldTrue
<1> QED
  BY <1>1, <1>2, <1>3, DriverUntold

LEMMA DriverAnswered == ASSUME DriverInv, ActiveDriver PROVE DriverInv'
<1>0. /\ Len(signals) \in Nat /\ Len(signals) \in 0..MaxSignals /\ board \in [Jobs -> JobStatus]
      /\ UNCHANGED <<board, signals, tap, phone, ticking, watchdog, misled>>
      /\ HeldJobs' = HeldJobs /\ EndedUntold' = EndedUntold
  BY DriverSays, DriverAppAssumption
     DEF DriverInv, DriverAppAssumption, ActiveDriver, HeldJobs, EndedUntold
<1>1. PICK j \in HeldJobs \cup {NoJob} :
          /\ j = NoJob => HeldJobs = {}
          /\ recovery' = [at |-> "answered", job |-> j, behind |-> Len(signals),
                          overtaken |-> FALSE,
                          step |-> IF j = NoJob THEN "none" ELSE tripStepFor(board[j])]
  BY DEF ActiveDriver
<1> DEFINE s == IF j = NoJob THEN "none" ELSE tripStepFor(board[j])
<1>2. s \in TripStep /\ (j # NoJob => j \in HeldJobs /\ s \in OnTrip)
  BY DEF HeldJobs, EndedUntold, Held, TripStep, OnTrip, tripStepFor
<1>3. recovery' = [at |-> "answered", job |-> j, behind |-> Len(signals),
                   overtaken |-> FALSE, step |-> s]
  BY <1>1
<1> HIDE DEF s
<1>4. /\ recovery' \in Recovery /\ recovery'.at = "answered" /\ recovery'.job = j
      /\ recovery'.behind = Len(signals) /\ recovery'.step = s
  BY <1>0, <1>2, <1>3 DEF Recovery, HeldJobs, EndedUntold
<1>5. DriverAppTypeOK'
  BY <1>0, <1>4, SilentTyped, PhoneSays
<1>6. AnswerRight(recovery')
  <2>1. \A h \in HeldJobs : j = h
    BY <1>1, <1>2 DEF DriverInv, JobsApart
  <2> QED
    BY <1>0, <1>2, <1>4, <2>1 DEF AnswerRight
<1>7. OnScreen' /\ TripTrue' /\ HeldTrue'
  BY <1>0, <1>4 DEF DriverInv, OnScreen, TripTrue, HeldTrue
<1> QED
  BY <1>0, <1>5, <1>6, <1>7, DriverUntold

\* The answer is taken down; what it says is right, or has been overtaken.
LEMMA JobAnswerSays ==
    ASSUME DriverInv, recovery.at = "answered"
    PROVE  /\ recovery.job # NoJob => recovery.job \in Jobs /\ recovery.step \in OnTrip
           /\ recovery.overtaken \in BOOLEAN
           /\ ~recovery.overtaken =>
                 /\ recovery.job # NoJob =>
                       recovery.job \in HeldJobs \/ Follows(0, Ending, recovery.job)
                 /\ \A h \in HeldJobs : recovery.job = h \/ Follows(0, Confirming, h)
<1>1. recovery \in Recovery /\ recovery.behind \in Nat
  BY PhoneSays, DriverAppAssumption DEF Recovery, DriverAppAssumption
<1>2. \A events, h : Follows(recovery.behind, events, h) => Follows(0, events, h)
  <2>1. DOMAIN signals = 1..Len(signals) /\ Len(signals) \in Nat
    BY DriverSays DEF DriverInv
  <2>2. \A k \in DOMAIN signals : k > 0
    BY <2>1
  <2> QED
    BY <2>2 DEF Follows
<1> QED
  BY <1>1, <1>2 DEF DriverInv, AnswerRight, Recovery

LEMMA DriverFinds == ASSUME DriverInv, applyRecoveredJob PROVE DriverInv'
<1>0. /\ recovery.at = "answered" /\ recovery.job \in Jobs /\ recovery.step \in OnTrip
      /\ phone' = [op |-> "busy", step |-> recovery.step, job |-> recovery.job]
      /\ watchdog' = TRUE /\ recovery' = NotRecovering /\ misled' = recovery.overtaken
      /\ UNCHANGED <<board, signals, tap, ticking>> /\ HeldJobs' = HeldJobs /\ EndedUntold' = EndedUntold
      /\ recovery' \in Recovery /\ recovery'.at = "off"
  BY JobAnswerSays, RecoveringSays DEF applyRecoveredJob, HeldJobs, EndedUntold
<1>1. phone' \in Phone /\ OnScreen' /\ phone'.job = recovery.job /\ phone'.step = recovery.step
  BY <1>0, PhoneSays DEF Phone, OnScreen
<1>2. DriverAppTypeOK'
  BY <1>0, <1>1, JobAnswerSays, SilentTyped, PhoneSays
<1>3. AnswerRight(recovery')
  BY <1>0 DEF AnswerRight
<1>4. TripTrue'
  BY <1>0, <1>1, JobAnswerSays, PhoneSays DEF TripTrue, Follows
<1>5. HeldTrue'
  BY <1>0, <1>1, JobAnswerSays DEF HeldTrue, Watched, Follows
<1> QED
  BY <1>0, <1>1, <1>2, <1>3, <1>4, <1>5, DriverUntold

LEMMA DriverFindsNone == ASSUME DriverInv, NoJobFound PROVE DriverInv'
<1>0. /\ recovery.at = "answered" /\ recovery.job = NoJob
      /\ phone' = Free \/ (phone' = phone /\ phone.step = "none")
      /\ ticking' \in BOOLEAN /\ watchdog' \in BOOLEAN
      /\ recovery' = NotRecovering /\ misled' = recovery.overtaken
      /\ UNCHANGED <<board, signals, tap>> /\ HeldJobs' = HeldJobs /\ EndedUntold' = EndedUntold
      /\ recovery' \in Recovery /\ recovery'.at = "off"
  BY RecoveringSays, PhoneSays DEF NoJobFound, HeldJobs, EndedUntold
<1>1. phone' \in Phone /\ phone'.step = "none" /\ OnScreen'
  BY <1>0, PhoneSays DEF OnScreen
<1>2. DriverAppTypeOK'
  BY <1>0, <1>1, JobAnswerSays, SilentTyped, PhoneSays
<1>3. AnswerRight(recovery')
  BY <1>0 DEF AnswerRight
<1>4. TripTrue'
  BY <1>1, PhoneSays DEF TripTrue
<1>5. HeldTrue'
  <2>1. \A h \in HeldJobs : h # NoJob
    BY PhoneSays DEF HeldJobs, EndedUntold
  <2> QED
    BY <1>0, <2>1, JobAnswerSays DEF HeldTrue, Follows
<1> QED
  BY <1>0, <1>1, <1>2, <1>3, <1>4, <1>5, DriverUntold

LEMMA DriverFails == ASSUME DriverInv, DriverRecoveryFails PROVE DriverInv'
<1>1. /\ recovery' = NotRecovering /\ recovery'.at = "off" /\ recovery' \in Recovery
      /\ misled' = TRUE /\ UNCHANGED <<board, signals, tap, phone, ticking, watchdog>>
  BY RecoveringSays DEF DriverRecoveryFails
<1>2. DriverAppTypeOK' /\ HeldJobs' = HeldJobs /\ EndedUntold' = EndedUntold
  BY <1>1, SilentTyped, PhoneSays DEF HeldJobs, EndedUntold
<1>3. OnScreen' /\ AnswerRight(recovery') /\ TripTrue' /\ HeldTrue'
  BY <1>1 DEF DriverInv, OnScreen, AnswerRight, TripTrue, HeldTrue
<1> QED
  BY <1>1, <1>2, <1>3, DriverUntold

LEMMA DriverComesBack == ASSUME DriverInv, DriverAppRestarts PROVE DriverInv'
<1>1. /\ phone' = Started /\ ticking' = FALSE /\ watchdog' = FALSE /\ signals' = <<>>
      /\ recovery' = Recovering /\ misled' = TRUE /\ UNCHANGED <<board, tap>>
      /\ HeldJobs' = HeldJobs /\ EndedUntold' = EndedUntold /\ MaxSignals \in Nat
  BY DriverAppAssumption DEF DriverAppRestarts, HeldJobs, EndedUntold, DriverAppAssumption
<1>2. signals' \in Seq(OnAir) /\ Len(signals') <= MaxSignals /\ DOMAIN signals' = {}
  BY <1>1
<1>3. recovery' \in Recovery /\ recovery'.at = "asked"
  BY <1>1, RecoveringSays
<1>4. DriverAppTypeOK'
  BY <1>1, <1>2, <1>3, DriverTyped, PhoneSays
<1>5. SignalsTrue' /\ JobsApart' /\ OnScreen' /\ AnswerRight(recovery)'
  BY <1>1, <1>2, <1>3, PhoneSays DEF DriverInv, SignalsTrue, JobsApart, OnScreen, AnswerRight
<1>6. TripTrue' /\ HeldTrue'
  BY <1>1 DEF TripTrue, HeldTrue
<1> QED
  BY <1>4, <1>5, <1>6 DEF DriverInv

LEMMA DriverStands == ASSUME DriverInv, UNCHANGED driverVars PROVE DriverInv'
<1>1. /\ UNCHANGED <<board, signals, tap, phone, ticking, watchdog, recovery, misled>>
      /\ HeldJobs' = HeldJobs /\ EndedUntold' = EndedUntold
  BY DEF driverVars, HeldJobs, EndedUntold
<1>2. DriverAppTypeOK'
  BY <1>1, SilentTyped, PhoneSays
<1> QED
  BY <1>1, <1>2, ServerSilent

LEMMA DriverKeeps == DriverInv /\ [DriverAppNext]_driverVars => DriverInv'
BY DriverOffered, DriverOfferEnded, DriverAssigned, DriverJobEnded, DriverNotTold,
   DriverAccepted, DriverRejected, DriverMoved, DriverCompleted, DriverAnswered, DriverAccepts,
   DriverRejects, DriverAdvances, DriverFinishes, DriverToggles, DriverTimesOut,
   DriverUnwatched, DriverHears, DriverBackOnAir, DriverAsks, DriverFinds,
   DriverFindsNone, DriverFails, DriverComesBack, DriverStands
DEF DriverAppNext

\* When nothing is under way and nothing misled the phone, a ride the server has
\* for the driver is on the screen as a trip the watchdog asks about, and where the
\* server has none the screen shows no trip (DriverApp.OnTheRide).
THEOREM DriverSeesTheRide == DriverAppSpec => []OnTheRide
<1>1. DriverInv => OnTheRide
  <2> SUFFICES ASSUME DriverInv, ~misled, signals = <<>>, tap = NoTap, recovery.at = "off",
                      phone.step # "completed"
               PROVE  /\ \A j \in HeldJobs : Watched(j)
                      /\ HeldJobs = {} => phone.step = "none"
    BY DEF OnTheRide, Watched
  <2>1. \A events, h : ~Follows(0, events, h)
    BY DEF Follows
  <2>2. \A h \in HeldJobs : tap # <<"complete", h>>
    BY DEF NoTap
  <2>3. phone.step \in OnTrip => phone.job \in HeldJobs
    BY <2>1 DEF DriverInv, TripTrue
  <2>4. phone.step \in OnTrip \/ phone.step = "none"
    BY PhoneSays DEF Phone, TripStep
  <2> QED
    BY <2>1, <2>2, <2>3, <2>4 DEF DriverInv, HeldTrue
<1> QED
  BY <1>1, DriverInitially, DriverKeeps, PTL DEF DriverAppSpec

-------------------------------------------------------------------------------
(* What the card asks *)

Asking == {"open", "theirs"}
Closing == {"resolved", "cancelled", "started", "refused"}

\* The server has the question open.
StillOpen(kind) ==
    /\ asks.live
    /\ IF kind = "open" THEN DecisionOpen ELSE asks.request # 0 /\ asks.requester = "other"

\* An event that takes a question off the card, or asks what became of it, is
\* under way behind the n-th.
ClosedAfter(n) == \E k \in DOMAIN post : k > n /\ post[k].kind \in Closing

\* What is asked behind the n-th event is open, or will be closed.
SoundAfter(n) ==
    \A i \in DOMAIN post :
       i > n /\ post[i].kind \in Asking => StillOpen(post[i].kind) \/ ClosedAfter(i)
PostTrue == ~misread /\ ~card.going => SoundAfter(0)

\* So with a reading that was not overtaken.
ReadingRight(a) ==
    a.at = "answered" /\ ~a.overtaken =>
       /\ a.behind <= Len(post)
       /\ SoundAfter(a.behind)
       /\ a.kind \in Asking => StillOpen(a.kind) \/ ClosedAfter(a.behind)
ReadingsRight == \A r \in Readings : ReadingRight(reading[r])

CardTrue ==
    ~misread /\ card.kind \in Asking /\ ~card.answered =>
       \/ StillOpen(card.kind)
       \/ ClosedAfter(0)
       \/ \E r \in Readings : reading[r].at # "off"

\* A trip that goes is no longer asked about, and no event makes the phone forget
\* that it goes.
GoneFor ==
    /\ card.going =>
          ~asks.live /\ \A i \in DOMAIN post : post[i].kind \notin {"arrived", "cancelled"}
    /\ \A i \in DOMAIN post :
          /\ post[i].kind \in {"cancelled", "started"} => ~asks.live
          /\ post[i].kind = "started" =>
                \A k \in DOMAIN post : k > i => post[k].kind \notin {"arrived", "cancelled"}
          /\ post[i].kind = "arrived" => me = "passenger"

CardInv == CardTypeOK /\ PostTrue /\ ReadingsRight /\ CardTrue /\ GoneFor

-------------------------------------------------------------------------------

Letter == [kind : PostKind, moment : Moments]
Asks == [live : BOOLEAN, prompt : Moments, decided : BOOLEAN, waits : 0..MaxWaits,
         request : Moments, requester : {"me", "other"}, escalated : BOOLEAN,
         moments : Moments]
Card == [kind : CardKind, moment : Moments, submitting : BOOLEAN, answered : BOOLEAN,
         going : BOOLEAN]
Reading == [at : {"off", "asked", "answered"}, kind : CardKind, moment : Moments,
            behind : 0..MaxPost, overtaken : BOOLEAN]
Said == {"nothing", "wait", "coming", "cancel", "accept", "continue"}

LEMMA CardSays ==
    ASSUME CardTypeOK
    PROVE  /\ me \in Side /\ asks \in Asks /\ post \in Seq(Letter)
           /\ Len(post) \in Nat /\ Len(post) <= MaxPost /\ DOMAIN post = 1..Len(post)
           /\ \A i \in DOMAIN post : post[i] \in Letter
           /\ ackDue \in Moments /\ said \in Said /\ card \in Card
           /\ reading \in [Readings -> Reading] /\ misread \in BOOLEAN
<1>1. /\ me \in Side /\ asks \in Asks /\ post \in Seq(Letter) /\ Len(post) <= MaxPost
      /\ ackDue \in Moments /\ said \in Said /\ card \in Card
      /\ reading \in [Readings -> Reading] /\ misread \in BOOLEAN
  BY Zenon DEF CardTypeOK, Asks, Letter, Said, Card, Reading
<1>2. \A i \in DOMAIN post : post[i] \in Letter
  <2> HIDE DEF Letter
  <2> QED
    BY <1>1
<1> QED
  BY <1>1, <1>2

LEMMA CardTyped ==
    ASSUME me' \in Side, asks' \in Asks, post' \in Seq(Letter), Len(post') <= MaxPost,
           ackDue' \in Moments, said' \in Said, card' \in Card,
           reading' \in [Readings -> Reading], misread' \in BOOLEAN
    PROVE  CardTypeOK'
BY Zenon DEF CardTypeOK, Asks, Letter, Said, Card, Reading

LEMMA CardNumbers ==
    /\ 0 \in Moments /\ 0 \in 0..MaxPost /\ 0 \in 0..MaxWaits /\ MaxPost \in Nat
    /\ MaxMoments \in Nat /\ MaxWaits \in Nat
    /\ \A m \in Moments : m < MaxMoments => m + 1 \in Moments /\ m + 1 # 0
    /\ \A w \in 0..MaxWaits : w < MaxWaits => w + 1 \in 0..MaxWaits
BY CardAssumption DEF CardAssumption, Moments

LEMMA NothingSays ==
    /\ NoCard \in Card /\ NoCard.kind = "none" /\ ~NoCard.going
    /\ NoReading \in Reading /\ NoReading.at = "off"
    /\ [NoReading EXCEPT !.at = "asked"] \in Reading
    /\ [NoReading EXCEPT !.at = "asked"].at = "asked"
<1>1. /\ NoCard \in Card /\ NoCard.kind = "none" /\ ~NoCard.going
  BY CardNumbers DEF NoCard, Card, CardKind
<1>2. NoReading \in Reading /\ NoReading.at = "off"
  BY CardNumbers DEF NoReading, Reading, CardKind
<1> QED
  BY <1>1, <1>2 DEF Reading

LEMMA FunctionIsSeq ==
    ASSUME NEW S, NEW n \in Nat, NEW f \in [1..n -> S]
    PROVE  f \in Seq(S) /\ Len(f) = n
OBVIOUS

\* What is sent comes behind what was.
LEMMA EmitSays ==
    ASSUME CardTypeOK, NEW kinds \in Seq(PostKind), NEW m \in Moments, Emit(kinds, m)
    PROVE  /\ post' \in Seq(Letter) /\ Len(post') = Len(post) + Len(kinds)
           /\ Len(post') <= MaxPost /\ DOMAIN post' = 1..(Len(post) + Len(kinds))
           /\ Len(kinds) \in Nat /\ DOMAIN kinds = 1..Len(kinds)
           /\ \A i \in DOMAIN post : post'[i] = post[i]
           /\ \A i \in DOMAIN kinds : post'[Len(post) + i].kind = kinds[i]
<1> DEFINE new == Letters(kinds, m)
<1>1. /\ post \in Seq(Letter) /\ post' = post \o new /\ Len(kinds) \in Nat
      /\ DOMAIN kinds = 1..Len(kinds) /\ Len(post) + Len(kinds) <= MaxPost
  BY CardSays DEF Emit
<1>2. /\ new \in [1..Len(kinds) -> Letter] /\ \A i \in DOMAIN kinds : new[i].kind = kinds[i]
  BY <1>1 DEF Letters, Letter
<1>3. new \in Seq(Letter) /\ Len(new) = Len(kinds)
  <2> HIDE DEF new, Letter
  <2>1. Len(kinds) \in Nat
    BY <1>1
  <2> QED
    BY Zenon, <1>2, <2>1, FunctionIsSeq
<1> HIDE DEF new, Letter
<1>4. /\ post \o new \in Seq(Letter) /\ Len(post \o new) = Len(post) + Len(new)
      /\ \A i \in 1..Len(post) + Len(new) :
            (post \o new)[i] = IF i <= Len(post) THEN post[i] ELSE new[i - Len(post)]
  BY <1>1, <1>3, ConcatProperties
<1>5. post' \in Seq(Letter) /\ Len(post') = Len(post) + Len(kinds)
      /\ DOMAIN post' = 1..(Len(post) + Len(kinds))
  BY <1>1, <1>3, <1>4
<1>6. Len(post) \in Nat /\ DOMAIN post = 1..Len(post)
  BY CardSays
<1>7. \A i \in DOMAIN post : post'[i] = post[i]
  BY <1>1, <1>3, <1>4, <1>6
<1>8. \A i \in DOMAIN kinds : post'[Len(post) + i].kind = kinds[i]
  <2> SUFFICES ASSUME NEW i \in 1..Len(kinds) PROVE post'[Len(post) + i].kind = kinds[i]
    BY <1>1
  <2>1. /\ Len(post) + i \in 1..Len(post) + Len(new) /\ ~(Len(post) + i <= Len(post))
        /\ (Len(post) + i) - Len(post) = i
    BY <1>1, <1>3, <1>6
  <2>2. post'[Len(post) + i] = new[i]
    BY <1>1, <1>4, <2>1
  <2> QED
    BY <1>1, <1>2, <2>2
<1> QED
  BY <1>1, <1>5, <1>7, <1>8

LEMMA CardInitially == CardInit => CardInv
<1> SUFFICES ASSUME CardInit PROVE CardInv
  OBVIOUS
<1>1. CardTypeOK
  <2>1. me \in Side /\ ackDue \in Moments /\ said \in Said /\ card \in Card
        /\ reading \in [Readings -> Reading] /\ misread \in BOOLEAN
    BY CardNumbers, NothingSays DEF CardInit, Said
  <2>3. post \in Seq(Letter) /\ Len(post) <= MaxPost
    <3> HIDE DEF Letter
    <3>1. post = <<>> /\ Len(post) = 0 /\ 0 <= MaxPost
      BY CardNumbers DEF CardInit
    <3> QED
      BY <3>1
  <2>2. asks \in Asks
    BY CardNumbers DEF CardInit, Asks
  <2> QED
    BY Zenon, <2>1, <2>2, <2>3 DEF CardTypeOK, Asks, Letter, Said, Card, Reading
<1>2. DOMAIN post = {} /\ card.kind \notin Asking /\ ~card.going
  BY NothingSays DEF CardInit, Asking
<1>3. \A r \in Readings : reading[r].at = "off"
  BY NothingSays DEF CardInit
<1> QED
  BY <1>1, <1>2, <1>3
     DEF CardInv, PostTrue, SoundAfter, ReadingsRight, ReadingRight, CardTrue, GoneFor

-------------------------------------------------------------------------------
(* The server *)

\* It sends; no question is closed that nobody hears of.
LEMMA ServerWrites ==
    ASSUME CardInv, NEW kinds \in Seq(PostKind), NEW m \in Moments, Emit(kinds, m),
           PhoneLeft, asks' \in Asks, ackDue' \in Moments, said' \in Said,
           \A q \in Asking : StillOpen(q) =>
               StillOpen(q)' \/ \E i \in DOMAIN kinds : kinds[i] \in Closing,
           \A i \in DOMAIN kinds : kinds[i] \in Asking => StillOpen(kinds[i])',
           asks'.live => asks.live,
           \A i \in DOMAIN kinds :
              /\ kinds[i] \in {"arrived", "cancelled"} => asks.live
              /\ kinds[i] \in {"started", "cancelled"} => ~asks'.live
              /\ kinds[i] = "started" => Len(kinds) = 1
              /\ kinds[i] = "arrived" => me = "passenger"
    PROVE  CardInv'
<1> DEFINE closes == \E i \in DOMAIN kinds : kinds[i] \in Closing
<1> USE DEF PhoneLeft
<1>0. /\ CardTypeOK /\ Len(post) \in Nat /\ DOMAIN post = 1..Len(post)
      /\ \A i \in DOMAIN post : post[i] \in Letter
      /\ reading \in [Readings -> Reading]
  BY CardSays DEF CardInv
<1>1. /\ Len(post') = Len(post) + Len(kinds) /\ DOMAIN post' = 1..(Len(post) + Len(kinds))
      /\ Len(kinds) \in Nat /\ DOMAIN kinds = 1..Len(kinds)
      /\ \A i \in DOMAIN post : post'[i] = post[i]
      /\ \A i \in DOMAIN kinds : post'[Len(post) + i].kind = kinds[i]
  BY Zenon, <1>0, EmitSays
<1>2. ASSUME NEW i \in DOMAIN post'
      PROVE  \/ i \in DOMAIN post /\ post'[i] = post[i]
             \/ /\ i > Len(post) /\ i - Len(post) \in DOMAIN kinds
                /\ post'[i].kind = kinds[i - Len(post)]
  <2>1. CASE i <= Len(post)
    BY <1>0, <1>1, <2>1
  <2>2. CASE i > Len(post)
    <3>1. i - Len(post) \in DOMAIN kinds /\ Len(post) + (i - Len(post)) = i
      BY <1>0, <1>1, <2>2
    <3> QED
      BY <1>1, <2>2, <3>1
  <2> QED
    BY <1>0, <1>1, <2>1, <2>2
<1>3. ASSUME NEW n \in Nat PROVE ClosedAfter(n) => ClosedAfter(n)'
  <2>1. \A k \in DOMAIN post : k \in DOMAIN post' /\ post'[k] = post[k]
    BY <1>0, <1>1
  <2> QED
    BY <2>1 DEF ClosedAfter
<1>4. ASSUME NEW n \in Nat, n <= Len(post), closes PROVE ClosedAfter(n)'
  <2>1. PICK i \in DOMAIN kinds : kinds[i] \in Closing
    BY <1>4
  <2>2. Len(post) + i \in DOMAIN post' /\ Len(post) + i > n
    BY <1>0, <1>1, <1>4, <2>1
  <2> QED
    BY <1>1, <2>1, <2>2 DEF ClosedAfter
<1>5. \A q \in Asking : StillOpen(q) => StillOpen(q)' \/ closes
  OBVIOUS
<1> HIDE DEF closes
<1>6. ASSUME NEW n \in Nat, SoundAfter(n) PROVE SoundAfter(n)'
  <2> SUFFICES ASSUME NEW i \in DOMAIN post', i > n, NEW q \in Asking, q = post'[i].kind
               PROVE  StillOpen(q)' \/ ClosedAfter(i)'
    BY DEF SoundAfter, StillOpen
  <2>1. CASE i \in DOMAIN post /\ post'[i] = post[i]
    <3>1. StillOpen(q) \/ ClosedAfter(i)
      BY <1>6, <2>1 DEF SoundAfter, StillOpen
    <3>2. i \in Nat /\ i <= Len(post)
      BY <1>0, <2>1
    <3> QED
      BY <1>3, <1>4, <1>5, <3>1, <3>2
  <2>2. CASE i - Len(post) \in DOMAIN kinds /\ post'[i].kind = kinds[i - Len(post)]
    <3>1. PICK k \in DOMAIN kinds : kinds[k] = q
      BY <2>2
    <3>2. StillOpen(kinds[k])'
      BY <3>1
    <3> QED
      BY <3>1, <3>2 DEF StillOpen
  <2> QED
    BY <1>2, <2>1, <2>2
<1>11. CardTypeOK'
  <2> HIDE DEF Asks, Said, Letter
  <2>1. post' \in Seq(Letter) /\ Len(post') <= MaxPost
    BY Zenon, <1>0, EmitSays
  <2>2. me' \in Side /\ card' \in Card /\ reading' \in [Readings -> Reading]
        /\ misread' \in BOOLEAN
    BY Zenon, <1>0, CardSays
  <2> QED
    BY Zenon, <2>1, <2>2, CardTyped
<1>7. PostTrue'
  BY <1>6 DEF CardInv, PostTrue
<1>8. ReadingsRight'
  <2> SUFFICES ASSUME NEW r \in Readings, NEW a \in Reading, a = reading[r] PROVE ReadingRight(a)'
    <3>1. \A r \in Readings : reading[r] \in Reading
      BY <1>0
    <3> QED
      BY <3>1 DEF ReadingsRight, ReadingRight, SoundAfter, ClosedAfter, StillOpen
  <2>1. ReadingRight(a) /\ a.behind \in Nat
    BY CardNumbers DEF CardInv, ReadingsRight, Reading
  <2>2. a.behind <= Len(post) => a.behind <= Len(post')
    BY <1>0, <1>1, <2>1
  <2> QED
    BY <1>3, <1>4, <1>5, <1>6, <2>1, <2>2 DEF ReadingRight
<1>9. CardTrue'
  <2> SUFFICES ASSUME ~misread, ~card.answered, NEW q \in Asking, q = card.kind,
                      \A r \in Readings : reading[r].at = "off"
               PROVE  StillOpen(q)' \/ ClosedAfter(0)'
    BY DEF CardTrue, StillOpen
  <2>1. StillOpen(q) \/ ClosedAfter(0)
    BY DEF CardInv, CardTrue, StillOpen
  <2>2. 0 \in Nat /\ 0 <= Len(post)
    BY <1>0
  <2> QED
    BY <1>3, <1>4, <1>5, <2>1, <2>2
<1>10. GoneFor'
  <2>1. ASSUME card.going, NEW i \in DOMAIN post'
        PROVE  ~asks'.live /\ post'[i].kind \notin {"arrived", "cancelled"}
    BY <1>2, <2>1 DEF CardInv, GoneFor
  <2>2. ASSUME NEW i \in DOMAIN post'
        PROVE  /\ post'[i].kind \in {"cancelled", "started"} => ~asks'.live
               /\ post'[i].kind = "arrived" => me = "passenger"
    BY <1>2, <2>2 DEF CardInv, GoneFor
  <2>3. ASSUME NEW i \in DOMAIN post', post'[i].kind = "started",
               NEW k \in DOMAIN post', k > i
        PROVE  post'[k].kind \notin {"arrived", "cancelled"}
    <3>1. CASE i \in DOMAIN post /\ post'[i] = post[i]
      <4>1. ~asks.live
        BY <2>3, <3>1 DEF CardInv, GoneFor
      <4> QED
        BY <1>2, <2>3, <3>1, <4>1 DEF CardInv, GoneFor
    <3>2. CASE i > Len(post) /\ i - Len(post) \in DOMAIN kinds
               /\ post'[i].kind = kinds[i - Len(post)]
      <4>1. Len(kinds) = 1
        BY <2>3, <3>2
      <4> QED
        BY <1>0, <1>1, <2>3, <3>2, <4>1
    <3> QED
      BY <1>2, <3>1, <3>2
  <2>4. card.going => ~asks'.live
    BY DEF CardInv, GoneFor
  <2> QED
    BY <2>1, <2>2, <2>3, <2>4 DEF GoneFor
<1> QED
  BY <1>7, <1>8, <1>9, <1>10, <1>11 DEF CardInv

\* A step that sends nothing and closes no question.
LEMMA CardUntold ==
    ASSUME CardInv, CardTypeOK', UNCHANGED <<me, post>>, asks'.live = asks.live,
           card'.going = card.going,
           \A q \in Asking : StillOpen(q)' <=> StillOpen(q),
           \A r \in Readings : ReadingRight(reading'[r]),
           ~misread' /\ ~card.going => SoundAfter(0),
           ~misread' /\ card'.kind \in Asking /\ ~card'.answered =>
              \/ StillOpen(card'.kind) \/ ClosedAfter(0)
              \/ \E r \in Readings : reading'[r].at # "off"
    PROVE  CardInv'
<1>0. reading' \in [Readings -> Reading] /\ card' \in Card
  BY Zenon DEF CardTypeOK, Reading, Card
<1>1. \A n : ClosedAfter(n)' <=> ClosedAfter(n)
  BY DEF ClosedAfter
<1>2. ASSUME NEW n PROVE SoundAfter(n)' <=> SoundAfter(n)
  <2>1. \A i \in DOMAIN post : post[i].kind \in Asking =>
            (StillOpen(post[i].kind)' <=> StillOpen(post[i].kind))
    <3> SUFFICES ASSUME NEW i \in DOMAIN post, NEW q \in Asking, q = post[i].kind
                 PROVE  StillOpen(q)' <=> StillOpen(q)
      BY DEF StillOpen
    <3> QED
      OBVIOUS
  <2> QED
    BY <1>1, <2>1 DEF SoundAfter
<1>3. PostTrue'
  BY <1>2 DEF PostTrue
<1>4. ReadingsRight'
  <2> SUFFICES ASSUME NEW r \in Readings, NEW a \in Reading, a = reading'[r]
               PROVE  ReadingRight(a)'
    BY <1>0 DEF ReadingsRight, ReadingRight, SoundAfter, ClosedAfter, StillOpen
  <2>1. ReadingRight(a)
    OBVIOUS
  <2> QED
    BY <1>1, <1>2, <2>1 DEF ReadingRight
<1>5. CardTrue'
  <2> SUFFICES ASSUME ~misread', ~card'.answered, NEW q \in Asking, q = card'.kind,
                      \A r \in Readings : reading'[r].at = "off"
               PROVE  StillOpen(q)' \/ ClosedAfter(0)'
    BY DEF CardTrue, StillOpen
  <2> QED
    BY <1>1
<1>6. GoneFor'
  BY DEF CardInv, GoneFor
<1> QED
  BY <1>3, <1>4, <1>5, <1>6 DEF CardInv

LEMMA ServerSends ==
    ASSUME CardInv, NEW k \in PostKind, NEW m \in Moments, Emit(<<k>>, m),
           PhoneLeft, asks' \in Asks, ackDue' \in Moments, said' \in Said,
           \A q \in Asking : StillOpen(q) => StillOpen(q)' \/ k \in Closing,
           k \in Asking => StillOpen(k)',
           asks'.live => asks.live,
           k \in {"arrived", "cancelled"} => asks.live,
           k \in {"started", "cancelled"} => ~asks'.live,
           k = "arrived" => me = "passenger"
    PROVE  CardInv'
<1> DEFINE kinds == <<k>>
<1>1. /\ kinds \in Seq(PostKind) /\ Len(kinds) = 1 /\ DOMAIN kinds = {1} /\ kinds[1] = k
      /\ Emit(kinds, m)
  OBVIOUS
<1> HIDE DEF kinds
<1>2. \A q \in Asking : StillOpen(q) =>
          StillOpen(q)' \/ \E i \in DOMAIN kinds : kinds[i] \in Closing
  BY <1>1
<1>3. \A i \in DOMAIN kinds : i = 1
  BY <1>1
<1>4. \A i \in DOMAIN kinds : kinds[i] \in Asking => StillOpen(kinds[i])'
  <2> SUFFICES ASSUME NEW i \in DOMAIN kinds, kinds[i] \in Asking PROVE StillOpen(kinds[i])'
    OBVIOUS
  <2>1. kinds[i] = k
    BY <1>1, <1>3
  <2> QED
    BY <2>1 DEF StillOpen
<1>5. \A i \in DOMAIN kinds :
         /\ kinds[i] \in {"arrived", "cancelled"} => asks.live
         /\ kinds[i] \in {"started", "cancelled"} => ~asks'.live
         /\ kinds[i] = "started" => Len(kinds) = 1
         /\ kinds[i] = "arrived" => me = "passenger"
  BY <1>1, <1>3
<1> QED
  BY Zenon, <1>1, <1>2, <1>4, <1>5, ServerWrites

\* An answer that is told to both sides, and acknowledged.
LEMMA ServerSendsTwo ==
    ASSUME CardInv, NEW k \in Closing \ {"started"}, NEW m \in Moments,
           Emit(<<k, "ack">>, m),
           PhoneLeft, asks' \in Asks, ackDue' \in Moments, said' \in Said,
           asks'.live => asks.live,
           k = "cancelled" => asks.live /\ ~asks'.live
    PROVE  CardInv'
<1> DEFINE kinds == <<k, "ack">>
<1>1. /\ kinds \in Seq(PostKind) /\ DOMAIN kinds = {1, 2} /\ kinds[1] = k /\ kinds[2] = "ack"
      /\ Emit(kinds, m)
  BY DEF Closing, PostKind
<1> HIDE DEF kinds
<1>2. \A q \in Asking : StillOpen(q) =>
          StillOpen(q)' \/ \E i \in DOMAIN kinds : kinds[i] \in Closing
  BY <1>1
<1>3. \A i \in DOMAIN kinds : kinds[i] = k \/ kinds[i] = "ack"
  BY <1>1
<1>4. \A i \in DOMAIN kinds : kinds[i] \notin Asking
  BY <1>3 DEF Asking, Closing
<1>5. \A i \in DOMAIN kinds :
         /\ kinds[i] \in {"arrived", "cancelled"} => asks.live
         /\ kinds[i] \in {"started", "cancelled"} => ~asks'.live
         /\ kinds[i] # "started"
         /\ kinds[i] # "arrived"
  BY <1>3 DEF Closing
<1> QED
  BY Zenon, <1>1, <1>2, <1>4, <1>5, ServerWrites

LEMMA AsksSays ==
    ASSUME CardTypeOK
    PROVE  /\ asks \in Asks /\ asks.moments \in Moments /\ asks.live \in BOOLEAN
           /\ asks.waits \in 0..MaxWaits /\ asks.prompt \in Moments
           /\ asks.request \in Moments /\ asks.decided \in BOOLEAN
BY CardSays DEF Asks

LEMMA NextMoment ==
    ASSUME CardTypeOK, asks.moments < MaxMoments
    PROVE  \E m \in Moments : m = asks.moments + 1 /\ m # 0
BY AsksSays, CardNumbers

LEMMA AsksBothKeeps == ASSUME CardInv, AsksBoth PROVE CardInv'
<1>0. CardTypeOK /\ asks \in Asks /\ asks.moments < MaxMoments
  BY AsksSays DEF CardInv, AsksBoth
<1>1. PICK m \in Moments : m = asks.moments + 1 /\ m # 0
  BY <1>0, NextMoment
<1>2. asks' = [asks EXCEPT !.prompt = m, !.decided = FALSE, !.moments = m]
  BY <1>1 DEF AsksBoth
<1>3. /\ asks' \in Asks /\ asks'.live = asks.live /\ asks'.request = asks.request
      /\ asks'.requester = asks.requester /\ asks'.prompt = m /\ ~asks'.decided
  BY <1>0, <1>1, <1>2 DEF Asks
<1>4. /\ Emit(<<"open">>, m) /\ PhoneLeft /\ asks.live /\ UNCHANGED <<ackDue, said>>
  BY <1>1 DEF AsksBoth
<1>5. ackDue' \in Moments /\ said' \in Said
  BY <1>0, <1>4, CardSays
<1>6. StillOpen("open")' /\ \A q \in Asking : StillOpen(q) => StillOpen(q)'
  BY <1>1, <1>3, <1>4 DEF StillOpen, Asking, DecisionOpen
<1> QED
  BY <1>1, <1>3, <1>4, <1>5, <1>6, ServerSends DEF PostKind

LEMMA TellsKeeps == ASSUME CardInv, Tells PROVE CardInv'
<1>0. CardTypeOK /\ asks \in Asks
  BY AsksSays DEF CardInv
<1>1. PICK up \in BOOLEAN : asks' = [asks EXCEPT !.escalated = @ \/ up]
  BY DEF Tells
<1>2. PICK b \in BOOLEAN : asks' = [asks EXCEPT !.escalated = b]
  BY <1>1, <1>0 DEF Asks
<1>3. /\ asks' \in Asks /\ asks'.live = asks.live /\ asks'.request = asks.request
      /\ asks'.requester = asks.requester /\ asks'.prompt = asks.prompt
      /\ asks'.decided = asks.decided
  BY <1>0, <1>2 DEF Asks
<1>4. /\ Emit(<<"calm">>, 0) /\ PhoneLeft /\ UNCHANGED <<ackDue, said>>
  BY DEF Tells
<1>5. ackDue' \in Moments /\ said' \in Said
  BY <1>0, <1>4, CardSays
<1>6. \A q \in Asking : StillOpen(q) => StillOpen(q)'
  BY <1>3 DEF StillOpen, Asking, DecisionOpen
<1> QED
  BY <1>3, <1>4, <1>5, <1>6, CardNumbers, ServerSends DEF PostKind, Asking

LEMMA WithdrawnSays ==
    ASSUME CardTypeOK, asks.waits < MaxWaits
    PROVE  Withdraws(asks) \in Asks /\ Withdraws(asks).live = asks.live
<1>1. PICK w \in 0..MaxWaits : w = asks.waits + 1
  BY AsksSays, CardNumbers
<1>2. Withdraws(asks) = [asks EXCEPT !.decided = TRUE, !.prompt = 0, !.waits = w]
  BY <1>1 DEF Withdraws
<1> QED
  BY <1>2, AsksSays, CardNumbers DEF Asks

LEMMA OtherWaitsKeeps == ASSUME CardInv, OtherWaits PROVE CardInv'
<1>0. CardTypeOK
  BY DEF CardInv
<1>3. asks' \in Asks /\ asks'.live = asks.live
  BY <1>0, WithdrawnSays DEF OtherWaits
<1>4. /\ Emit(<<"resolved">>, 0) /\ PhoneLeft /\ UNCHANGED <<ackDue, said>>
  BY DEF OtherWaits
<1>5. ackDue' \in Moments /\ said' \in Said
  BY <1>0, <1>4, CardSays
<1> QED
  BY <1>3, <1>4, <1>5, CardNumbers, ServerSends DEF PostKind, Asking, Closing

LEMMA OtherAsksToCancelKeeps == ASSUME CardInv, OtherAsksToCancel PROVE CardInv'
<1>0. CardTypeOK /\ asks \in Asks /\ asks.moments < MaxMoments
  BY AsksSays DEF CardInv, OtherAsksToCancel
<1>1. PICK m \in Moments : m = asks.moments + 1 /\ m # 0
  BY <1>0, NextMoment
<1>2. asks' = [asks EXCEPT !.request = m, !.requester = "other", !.moments = m]
  BY <1>1 DEF OtherAsksToCancel
<1>3. /\ asks' \in Asks /\ asks'.live = asks.live /\ asks'.request = m
      /\ asks'.requester = "other" /\ asks'.prompt = asks.prompt
      /\ asks'.decided = asks.decided
  BY <1>0, <1>1, <1>2 DEF Asks
<1>4. /\ Emit(<<"theirs">>, m) /\ PhoneLeft /\ asks.live /\ asks.request = 0
      /\ UNCHANGED <<ackDue, said>>
  BY <1>1 DEF OtherAsksToCancel
<1>5. ackDue' \in Moments /\ said' \in Said
  BY <1>0, <1>4, CardSays
<1>6. StillOpen("theirs")' /\ \A q \in Asking : StillOpen(q) => StillOpen(q)'
  BY <1>1, <1>3, <1>4 DEF StillOpen, Asking, DecisionOpen
<1> QED
  BY <1>1, <1>3, <1>4, <1>5, <1>6, ServerSends DEF PostKind

LEMMA OtherDeclinesKeeps == ASSUME CardInv, OtherDeclines PROVE CardInv'
<1>0. CardTypeOK /\ asks \in Asks
  BY AsksSays DEF CardInv
<1>3. asks' \in Asks /\ asks'.live = asks.live
  BY <1>0, CardNumbers DEF OtherDeclines, Asks
<1>4. /\ Emit(<<"resolved">>, 0) /\ PhoneLeft /\ UNCHANGED <<ackDue, said>>
  BY DEF OtherDeclines
<1>5. ackDue' \in Moments /\ said' \in Said
  BY <1>0, <1>4, CardSays
<1> QED
  BY <1>3, <1>4, <1>5, CardNumbers, ServerSends DEF PostKind, Asking, Closing

LEMMA RideCancelledKeeps == ASSUME CardInv, RideCancelled PROVE CardInv'
<1>0. CardTypeOK /\ asks \in Asks
  BY AsksSays DEF CardInv
<1>3. asks' \in Asks /\ ~asks'.live /\ asks.live
  BY <1>0 DEF RideCancelled, Asks
<1>4. /\ Emit(<<"cancelled">>, 0) /\ PhoneLeft /\ UNCHANGED <<ackDue, said>>
  BY DEF RideCancelled
<1>5. ackDue' \in Moments /\ said' \in Said
  BY <1>0, <1>4, CardSays
<1> QED
  BY <1>3, <1>4, <1>5, CardNumbers, ServerSends DEF PostKind, Asking, Closing

LEMMA DriverMovesKeeps == ASSUME CardInv, DriverMoves PROVE CardInv'
<1>0. CardTypeOK /\ asks \in Asks
  BY AsksSays DEF CardInv
<1>4. PhoneLeft /\ UNCHANGED <<ackDue, said>> /\ me = "passenger" /\ asks.live
  BY DEF DriverMoves
<1>5. ackDue' \in Moments /\ said' \in Said
  BY <1>0, <1>4, CardSays
<1>1. CASE UNCHANGED asks /\ Emit(<<"arrived">>, 0)
  <2>1. \A q \in Asking : StillOpen(q) => StillOpen(q)'
    BY <1>1 DEF StillOpen, DecisionOpen
  <2>2. asks' \in Asks /\ asks'.live => asks.live
    BY <1>0, <1>1
  <2> QED
    BY <1>0, <1>1, <1>4, <1>5, <2>1, <2>2, CardNumbers, ServerSends
       DEF PostKind, Asking
<1>2. CASE asks' = [asks EXCEPT !.live = FALSE] /\ Emit(<<"started">>, 0)
  <2>1. asks' \in Asks /\ ~asks'.live
    BY <1>0, <1>2 DEF Asks
  <2> QED
    BY <1>2, <1>4, <1>5, <2>1, CardNumbers, ServerSends DEF PostKind, Asking, Closing
<1> QED
  BY <1>1, <1>2 DEF DriverMoves

-------------------------------------------------------------------------------
(* This party's taps *)

\* A tap that errs, and any step that changes neither a question nor a card.
LEMMA CardLeft ==
    ASSUME CardInv, UNCHANGED post, PhoneLeft, asks' \in Asks, ackDue' \in Moments,
           said' \in Said, asks'.live = asks.live,
           \A q \in Asking : StillOpen(q)' <=> StillOpen(q)
    PROVE  CardInv'
<1>1. CardTypeOK'
  <2> HIDE DEF Asks, Said, Letter
  <2>1. /\ me' \in Side /\ card' \in Card /\ reading' \in [Readings -> Reading]
        /\ misread' \in BOOLEAN /\ post' \in Seq(Letter) /\ Len(post') <= MaxPost
    BY CardSays DEF CardInv, PhoneLeft
  <2> QED
    BY Zenon, <2>1, CardTyped
<1>2. \A r \in Readings : ReadingRight(reading'[r])
  BY DEF PhoneLeft, CardInv, ReadingsRight
<1>3. ~misread' /\ ~card.going => SoundAfter(0)
  BY DEF PhoneLeft, CardInv, PostTrue
<1>4. ~misread' /\ card'.kind \in Asking /\ ~card'.answered =>
              \/ StillOpen(card'.kind) \/ ClosedAfter(0)
              \/ \E r \in Readings : reading'[r].at # "off"
  BY DEF PhoneLeft, CardInv, CardTrue
<1>5. UNCHANGED <<me, post>> /\ card'.going = card.going
  BY DEF PhoneLeft
<1> QED
  BY Zenon, <1>1, <1>2, <1>3, <1>4, <1>5, CardUntold

LEMMA TapErrs ==
    ASSUME CardInv, Errs, PhoneLeft, UNCHANGED ackDue, said' = "nothing"
    PROVE  CardInv'
<1>1. asks' \in Asks /\ ackDue' \in Moments /\ said' \in Said
  BY CardSays DEF CardInv, Errs, Said
<1>2. \A q \in Asking : StillOpen(q)' <=> StillOpen(q)
  BY DEF Errs, StillOpen, DecisionOpen
<1> QED
  BY <1>1, <1>2, CardLeft DEF Errs

LEMMA HearWaitKeeps == ASSUME CardInv, HearWait PROVE CardInv'
<1>0. CardTypeOK /\ asks \in Asks
  BY AsksSays DEF CardInv
<1>1. UNCHANGED ackDue /\ PhoneLeft /\ said' = "nothing"
  BY DEF HearWait, Heard
<1>2. ackDue' \in Moments /\ said' \in Said
  BY <1>0, <1>1, CardSays DEF Said
<1>3. CASE Errs
  BY <1>1, <1>3, TapErrs
<1>4. CASE UNCHANGED asks /\ Emit(<<"refused">>, 0)
  BY <1>0, <1>1, <1>2, <1>4, CardNumbers, ServerSends DEF PostKind, Asking, Closing
<1>5. CASE asks.waits < MaxWaits /\ asks' = Withdraws(asks) /\ Emit(<<"resolved", "ack">>, 0)
  <2>1. asks' \in Asks /\ asks'.live = asks.live
    BY <1>0, <1>5, WithdrawnSays
  <2> QED
    BY <1>1, <1>2, <1>5, <2>1, CardNumbers, ServerSendsTwo DEF Closing
<1>6. CASE asks' = [asks EXCEPT !.decided = TRUE] /\ Emit(<<"refused">>, 0)
  <2>1. asks' \in Asks /\ asks'.live = asks.live
    BY <1>0, <1>6 DEF Asks
  <2> QED
    BY <1>1, <1>2, <1>6, <2>1, CardNumbers, ServerSends DEF PostKind, Asking, Closing
<1> QED
  BY <1>3, <1>4, <1>5, <1>6 DEF HearWait

LEMMA HearComingKeeps == ASSUME CardInv, HearComing PROVE CardInv'
<1>0. CardTypeOK /\ asks \in Asks
  BY AsksSays DEF CardInv
<1>1. UNCHANGED ackDue /\ PhoneLeft /\ said' = "nothing"
  BY DEF HearComing, Heard
<1>2. ackDue' \in Moments /\ said' \in Said
  BY <1>0, <1>1, CardSays DEF Said
<1>3. CASE Errs
  BY <1>1, <1>3, TapErrs
<1>4. CASE /\ asks.waits < MaxWaits /\ asks' = [asks EXCEPT !.waits = @ + 1]
           /\ Emit(<<"granted">>, 0)
  <2>1. PICK w \in 0..MaxWaits : w = asks.waits + 1
    BY <1>0, <1>4, AsksSays, CardNumbers
  <2>2. asks' = [asks EXCEPT !.waits = w]
    BY <1>4, <2>1
  <2>3. /\ asks' \in Asks /\ asks'.live = asks.live /\ asks'.request = asks.request
        /\ asks'.requester = asks.requester /\ asks'.prompt = asks.prompt
        /\ asks'.decided = asks.decided
    BY <1>0, <2>2 DEF Asks
  <2>4. \A q \in Asking : StillOpen(q) => StillOpen(q)'
    BY <2>3 DEF StillOpen, Asking, DecisionOpen
  <2> QED
    BY <1>1, <1>2, <1>4, <2>3, <2>4, CardNumbers, ServerSends DEF PostKind, Asking
<1> QED
  BY <1>3, <1>4 DEF HearComing

LEMMA HearCancelKeeps == ASSUME CardInv, HearCancel PROVE CardInv'
<1>0. CardTypeOK /\ asks \in Asks
  BY AsksSays DEF CardInv
<1>1. PhoneLeft /\ said' = "nothing" /\ said' \in Said
  BY DEF HearCancel, Heard, Said
<1>2. CASE /\ asks.request = 0 /\ asks.moments < MaxMoments
           /\ asks' = [asks EXCEPT !.request = asks.moments + 1, !.requester = "me",
                                  !.moments = @ + 1]
           /\ ackDue' = asks.moments + 1 /\ UNCHANGED post
  <2>1. PICK m \in Moments : m = asks.moments + 1 /\ m # 0
    BY <1>0, <1>2, NextMoment
  <2>2. asks' = [asks EXCEPT !.request = m, !.requester = "me", !.moments = m] /\ ackDue' = m
    BY <1>2, <2>1
  <2>3. /\ asks' \in Asks /\ asks'.live = asks.live /\ asks'.request = m
        /\ asks'.requester = "me" /\ asks'.prompt = asks.prompt
        /\ asks'.decided = asks.decided
    BY <1>0, <2>1, <2>2 DEF Asks
  <2>4. \A q \in Asking : StillOpen(q)' <=> StillOpen(q)
    BY <1>2, <2>3 DEF StillOpen, Asking, DecisionOpen
  <2> QED
    BY <1>1, <1>2, <2>1, <2>2, <2>3, <2>4, CardLeft
<1>3. CASE Emit(<<"not_pending">>, 0) /\ UNCHANGED <<asks, ackDue>>
  <2>1. ackDue' \in Moments
    BY <1>0, <1>3, CardSays
  <2>2. \A q \in Asking : StillOpen(q) => StillOpen(q)'
    BY <1>3 DEF StillOpen, DecisionOpen
  <2> QED
    BY <1>0, <1>1, <1>3, <2>1, <2>2, CardNumbers, ServerSends DEF PostKind, Asking
<1>4. CASE Errs /\ UNCHANGED ackDue
  BY <1>1, <1>4, TapErrs
<1> QED
  BY <1>2, <1>3, <1>4 DEF HearCancel

LEMMA VerdictKeeps == ASSUME CardInv, VerdictOnRequest PROVE CardInv'
<1>0. CardTypeOK /\ asks \in Asks /\ ackDue \in Moments /\ said \in Said
  BY CardSays DEF CardInv
<1>1. PhoneLeft /\ UNCHANGED <<asks, said>> /\ ackDue' = 0 /\ Emit(<<"pending">>, ackDue)
  BY DEF VerdictOnRequest
<1>2. \A q \in Asking : StillOpen(q) => StillOpen(q)'
  BY <1>1 DEF StillOpen, DecisionOpen
<1> QED
  BY <1>0, <1>1, <1>2, CardNumbers, ServerSends DEF PostKind, Asking

LEMMA HearResponseKeeps == ASSUME CardInv, HearResponse PROVE CardInv'
<1>0. CardTypeOK /\ asks \in Asks
  BY AsksSays DEF CardInv
<1>1. UNCHANGED ackDue /\ PhoneLeft /\ said' = "nothing"
  BY DEF HearResponse
<1>2. ackDue' \in Moments /\ said' \in Said
  BY <1>0, <1>1, CardSays DEF Said
<1>3. CASE Errs
  BY <1>1, <1>3, TapErrs
<1>4. CASE /\ asks' = [asks EXCEPT !.request = 0, !.decided = asks.live \/ @]
           /\ Emit(<<"resolved", "ack">>, 0)
  <2>1. PICK b \in BOOLEAN : asks' = [asks EXCEPT !.request = 0, !.decided = b]
    BY <1>0, <1>4, AsksSays
  <2>2. asks' \in Asks /\ asks'.live = asks.live
    BY <1>0, <2>1, CardNumbers DEF Asks
  <2> QED
    BY <1>1, <1>2, <1>4, <2>2, CardNumbers, ServerSendsTwo DEF Closing
<1>5. CASE /\ asks' = [asks EXCEPT !.request = 0, !.live = FALSE]
           /\ IF asks.live THEN Emit(<<"cancelled", "ack">>, 0) ELSE Emit(<<"refused">>, 0)
  <2>1. asks' \in Asks /\ ~asks'.live
    BY <1>0, <1>5, CardNumbers DEF Asks
  <2>2. CASE asks.live
    BY <1>1, <1>2, <1>5, <2>1, <2>2, CardNumbers, ServerSendsTwo DEF Closing
  <2>3. CASE ~asks.live
    BY <1>1, <1>2, <1>5, <2>1, <2>3, CardNumbers, ServerSends DEF PostKind, Asking, Closing
  <2> QED
    BY <2>2, <2>3
<1> QED
  BY <1>3, <1>4, <1>5 DEF HearResponse

-------------------------------------------------------------------------------
(* The phone *)

LEMMA ReadingSays ==
    ASSUME CardTypeOK, NEW r \in Readings
    PROVE  /\ reading[r] \in Reading /\ reading[r].behind \in Nat
           /\ reading[r].kind \in CardKind /\ reading[r].moment \in Moments
<1>1. reading[r] \in Reading
  <2> HIDE DEF Reading
  <2> QED
    BY CardSays
<1> QED
  BY <1>1, CardNumbers DEF Reading

\* The phone's own steps: the server and what it sent are left alone.
LEMMA PhoneTyped ==
    ASSUME CardInv, UNCHANGED <<me, asks, post, ackDue>>, said' \in Said, card' \in Card,
           reading' \in [Readings -> Reading], misread' \in BOOLEAN
    PROVE  CardTypeOK'
<1> HIDE DEF Asks, Said, Letter, Card, Reading
<1>1. /\ me' \in Side /\ asks' \in Asks /\ ackDue' \in Moments
      /\ post' \in Seq(Letter) /\ Len(post') <= MaxPost
  BY CardSays DEF CardInv
<1> QED
  BY Zenon, <1>1, CardTyped

LEMMA SameQuestions ==
    ASSUME UNCHANGED asks PROVE \A q \in Asking : StillOpen(q)' <=> StillOpen(q)
BY DEF StillOpen, DecisionOpen

LEMMA ServeReadingKeeps ==
    ASSUME CardInv, NEW r \in Readings, ServeReading(r) PROVE CardInv'
<1>0. CardTypeOK /\ asks \in Asks
  BY AsksSays DEF CardInv
<1>1. /\ UNCHANGED <<me, asks, post, ackDue, said, card, misread>>
      /\ reading[r].at = "asked"
  BY DEF ServeReading
<1>2. PICK kind \in SnapshotKinds, m \in Moments :
         reading' = [reading EXCEPT ![r] =
                        [at |-> "answered", kind |-> kind, behind |-> Len(post),
                         moment |-> m, overtaken |-> FALSE]]
  <2>1. (IF asks.request # 0 THEN asks.request
         ELSE IF DecisionOpen THEN asks.prompt ELSE 0) \in Moments
    BY <1>0, AsksSays, CardNumbers
  <2> QED
    BY <2>1 DEF ServeReading
<1>3. kind \in CardKind /\ (kind \in Asking => StillOpen(kind))
  <2>1. asks.requester = "me" \/ asks.requester = "other"
    BY <1>0 DEF Asks
  <2> QED
    BY <2>1 DEF SnapshotKinds, CardKind, Asking, StillOpen
<1>4. PICK a \in Reading : /\ a.at = "answered" /\ a.kind = kind /\ a.behind = Len(post)
                           /\ ~a.overtaken /\ reading' = [reading EXCEPT ![r] = a]
  <2>1. Len(post) \in 0..MaxPost
    BY <1>0, CardSays, CardNumbers
  <2> QED
    BY <1>2, <1>3, <2>1 DEF Reading
<1>5. reading \in [Readings -> Reading] /\ Len(post) \in Nat /\ DOMAIN post = 1..Len(post)
  BY <1>0, CardSays
<1> HIDE DEF Reading
<1>6. reading' \in [Readings -> Reading] /\ reading'[r] = a
  BY <1>4, <1>5
<1>7. ReadingRight(a)
  <2>1. SoundAfter(Len(post))
    BY <1>5 DEF SoundAfter
  <2> QED
    BY <1>3, <1>4, <1>5, <2>1 DEF ReadingRight
<1>8. \A k \in Readings : ReadingRight(reading'[k])
  BY <1>4, <1>5, <1>6, <1>7 DEF CardInv, ReadingsRight
<1>9. CardTypeOK'
  BY <1>0, <1>1, <1>6, CardSays, PhoneTyped
<1>10. ~misread' /\ ~card.going => SoundAfter(0)
  BY <1>1 DEF CardInv, PostTrue
<1>11. reading'[r].at # "off"
  BY <1>4, <1>6
<1> QED
  BY Zenon, <1>1, <1>8, <1>9, <1>10, <1>11, SameQuestions, CardUntold

\* A reading that was not overtaken sets the card right, but for the events
\* behind it.
LEMMA ApplyReadingKeeps ==
    ASSUME CardInv, NEW r \in Readings, ApplyReading(r) PROVE CardInv'
<1>0. CardTypeOK /\ card \in Card
  BY CardSays DEF CardInv
<1> DEFINE a == reading[r]
<1>1. /\ UNCHANGED <<me, asks, post, ackDue, said>> /\ a.at = "answered"
      /\ misread' = (a.overtaken \/ (misread /\ a.behind > 0))
      /\ reading' = [reading EXCEPT ![r] = NoReading]
  BY DEF ApplyReading
<1>2. PICK mine \in BOOLEAN :
         card' = [kind |-> a.kind, moment |-> a.moment, submitting |-> FALSE,
                  answered |-> mine, going |-> card.going]
  BY DEF ApplyReading
<1>3. card' \in Card /\ card'.kind = a.kind /\ card'.going = card.going
  BY <1>0, <1>2, ReadingSays DEF Card
<1>4. ReadingRight(a) /\ a.behind \in Nat /\ a \in Reading
  BY <1>0, ReadingSays DEF CardInv, ReadingsRight
<1>5. \A n \in Nat : ClosedAfter(n) => ClosedAfter(0)
  <2>1. \A i \in DOMAIN post : i \in Nat
    BY <1>0, CardSays
  <2> QED
    BY <2>1 DEF ClosedAfter
<1>6. reading' \in [Readings -> Reading]
      /\ \A k \in Readings : reading'[k] = IF k = r THEN NoReading ELSE reading[k]
  <2> HIDE DEF Reading
  <2> QED
    BY <1>0, <1>1, NothingSays, CardSays
<1>7. \A k \in Readings : ReadingRight(reading'[k])
  BY <1>6, NothingSays DEF CardInv, ReadingsRight, ReadingRight
<1>8. ~misread' /\ ~card.going => SoundAfter(0)
  <2> SUFFICES ASSUME ~misread', ~card.going PROVE SoundAfter(0)
    OBVIOUS
  <2>1. ~a.overtaken /\ (~misread \/ a.behind = 0)
    <3>1. ~a.overtaken /\ ~(misread /\ a.behind > 0)
      BY Zenon, <1>1
    <3>2. a.behind > 0 \/ a.behind = 0
      BY <1>4
    <3> QED
      BY Zenon, <3>1, <3>2
  <2>2. CASE ~misread
    BY <2>2 DEF CardInv, PostTrue
  <2>3. CASE a.behind = 0
    BY <1>1, <1>4, <2>1, <2>3 DEF ReadingRight
  <2> QED
    BY <2>1, <2>2, <2>3
<1>9. ~misread' /\ card'.kind \in Asking => StillOpen(card'.kind) \/ ClosedAfter(0)
  BY <1>1, <1>3, <1>4, <1>5 DEF ReadingRight
<1>10. misread' \in BOOLEAN
  BY <1>1
<1>11. CardTypeOK'
  <2>1. said' \in Said
    BY <1>0, <1>1, CardSays
  <2> QED
    BY <1>1, <1>3, <1>6, <1>10, <2>1, PhoneTyped
<1> QED
  BY Zenon, <1>1, <1>3, <1>7, <1>8, <1>9, <1>11, SameQuestions, CardUntold

LEMMA ReadingFailsKeeps ==
    ASSUME CardInv, NEW r \in Readings, ReadingFails(r) PROVE CardInv'
<1>0. CardTypeOK
  BY DEF CardInv
<1>1. /\ UNCHANGED <<me, asks, post, ackDue, said, card>> /\ misread'
      /\ reading' = [reading EXCEPT ![r] = NoReading]
  BY DEF ReadingFails
<1>2. reading' \in [Readings -> Reading]
      /\ \A k \in Readings : reading'[k] = IF k = r THEN NoReading ELSE reading[k]
  <2> HIDE DEF Reading
  <2> QED
    BY <1>0, <1>1, NothingSays, CardSays
<1>3. \A k \in Readings : ReadingRight(reading'[k])
  BY <1>2, NothingSays DEF CardInv, ReadingsRight, ReadingRight
<1>4. CardTypeOK'
  <2>1. said' \in Said /\ card' \in Card /\ misread' \in BOOLEAN
    BY <1>0, <1>1, CardSays DEF ReadingFails
  <2> QED
    BY <1>1, <1>2, <2>1, PhoneTyped
<1> QED
  BY Zenon, <1>1, <1>3, <1>4, SameQuestions, CardUntold

\* A re-read that starts leaves the other readings right.
LEMMA RereadsSays ==
    ASSUME NEW from \in [Readings -> Reading], NEW r \in Readings, Rereads(from, r)
    PROVE  /\ reading' \in [Readings -> Reading] /\ reading'[r].at = "asked"
           /\ \A k \in Readings : k # r => reading'[k] = from[k]
<1> DEFINE blank == [NoReading EXCEPT !.at = "asked"]
<1>1. blank \in Reading /\ blank.at = "asked" /\ reading' = [from EXCEPT ![r] = blank]
  BY NothingSays DEF Rereads
<1> HIDE DEF Reading, blank
<1> QED
  BY <1>1

LEMMA OpenedKeeps == ASSUME CardInv, Opened PROVE CardInv'
<1>0. CardTypeOK /\ reading \in [Readings -> Reading]
  BY CardSays DEF CardInv
<1>1. UNCHANGED <<me, asks, post, ackDue, said, card, misread>>
  BY DEF Opened
<1>2. PICK r \in Readings : Rereads(reading, r)
  BY DEF Opened
<1>3. /\ reading' \in [Readings -> Reading] /\ reading'[r].at = "asked"
      /\ \A k \in Readings : k # r => reading'[k] = reading[k]
  BY Zenon, <1>0, <1>2, RereadsSays
<1>4. \A k \in Readings : ReadingRight(reading'[k])
  BY <1>3 DEF CardInv, ReadingsRight, ReadingRight
<1>5. CardTypeOK'
  BY <1>0, <1>1, <1>3, CardSays, PhoneTyped
<1>6. ~misread' /\ ~card.going => SoundAfter(0)
  BY <1>1 DEF CardInv, PostTrue
<1>7. reading'[r].at # "off"
  BY <1>3
<1> QED
  BY Zenon, <1>1, <1>4, <1>5, <1>6, <1>7, SameQuestions, CardUntold

\* A card that asks less.
LEMMA CardCalmer ==
    ASSUME CardInv, UNCHANGED <<me, asks, post, ackDue, reading, misread>>,
           said' \in Said, card' \in Card, card'.going = card.going,
           \/ card'.kind \notin Asking \/ card'.answered
           \/ card'.kind = card.kind /\ card'.answered = card.answered
    PROVE  CardInv'
<1>1. CardTypeOK'
  BY CardSays, PhoneTyped DEF CardInv
<1>2. \A k \in Readings : ReadingRight(reading'[k])
  BY DEF CardInv, ReadingsRight
<1>3. ~misread' /\ ~card.going => SoundAfter(0)
  BY DEF CardInv, PostTrue
<1>4. ~misread' /\ card'.kind \in Asking /\ ~card'.answered =>
              \/ StillOpen(card'.kind) \/ ClosedAfter(0)
              \/ \E r \in Readings : reading'[r].at # "off"
  BY DEF CardInv, CardTrue
<1> QED
  BY Zenon, <1>1, <1>2, <1>3, <1>4, SameQuestions, CardUntold

LEMMA SaysKeeps == ASSUME CardInv, NEW t \in Said, Says(t) PROVE CardInv'
<1>1. card \in Card /\ card' = [card EXCEPT !.submitting = TRUE] /\ said' = t
  BY CardSays DEF CardInv, Says
<1>2. /\ card' \in Card /\ card'.going = card.going /\ card'.kind = card.kind
      /\ card'.answered = card.answered
  BY <1>1 DEF Card
<1> QED
  BY <1>1, <1>2, CardCalmer DEF Says

LEMMA TapsKeep ==
    ASSUME CardInv, KeepsWaiting \/ AnswersRequest \/ RequestsCancel PROVE CardInv'
<1>1. PICK t \in Said : Says(t)
  BY DEF KeepsWaiting, AnswersRequest, RequestsCancel, Said
<1> QED
  BY <1>1, SaysKeeps

LEMMA OnMyWayKeeps == ASSUME CardInv, OnMyWay PROVE CardInv'
<1>1. /\ card \in Card /\ card' = Settled("calm") /\ said' \in Said
      /\ UNCHANGED <<me, asks, post, ackDue, reading, misread>>
  BY CardSays DEF CardInv, OnMyWay
<1>2. card' \in Card /\ card'.going = card.going /\ card'.kind \notin Asking
  BY <1>1 DEF Card, Settled, CardKind, OnMyWay, Asking
<1> QED
  BY <1>1, <1>2, CardCalmer

LEMMA CardPutAway ==
    ASSUME card \in Card, NEW k \in CardKind, NEW m \in Moments, NEW g \in BOOLEAN
    PROVE  LET c == [NoCard EXCEPT !.kind = k, !.moment = m, !.going = g]
           IN  c \in Card /\ c.kind = k /\ c.going = g
<1> DEFINE b == [NoCard EXCEPT !.kind = k]
           d == [b EXCEPT !.moment = m]
           c == [NoCard EXCEPT !.kind = k, !.moment = m, !.going = g]
<1>1. b \in Card /\ b.kind = k
  BY NothingSays DEF Card
<1>2. d \in Card /\ d.kind = k
  <2> HIDE DEF b
  <2> QED
    BY <1>1 DEF Card
<1>3. c = [d EXCEPT !.going = g]
  OBVIOUS
<1>4. c \in Card /\ c.kind = k /\ c.going = g
  <2> HIDE DEF c, d
  <2> QED
    BY <1>2, <1>3 DEF Card
<1> QED
  BY <1>4

LEMMA MarksArrivedKeeps == ASSUME CardInv, MarksArrived PROVE CardInv'
<1>1. /\ card \in Card /\ card' = [NoCard EXCEPT !.going = card.going] /\ said' \in Said
      /\ UNCHANGED <<me, asks, post, ackDue, reading, misread>>
  BY CardSays DEF CardInv, MarksArrived
<1>2. card' \in Card /\ card'.going = card.going /\ card'.kind \notin Asking
  <2>1. card.going \in BOOLEAN
    BY <1>1 DEF Card
  <2>2. card' = [kind |-> "none", moment |-> 0, submitting |-> FALSE, answered |-> FALSE,
                 going |-> card.going]
    BY <1>1 DEF NoCard
  <2> QED
    BY <2>1, <2>2, CardNumbers DEF Card, CardKind, Asking
<1> QED
  BY <1>1, <1>2, CardCalmer

LEMMA UntoldSays ==
    ASSUME CardTypeOK, Untold
    PROVE  /\ reading' \in [Readings -> Reading]
           /\ \A r \in Readings : reading'[r].at = "answered" => reading'[r].overtaken
<1>1. \A r \in Readings : reading[r] \in Reading
  BY ReadingSays
<1>2. \A r \in Readings :
         LET a == IF reading[r].at = "answered"
                  THEN [reading[r] EXCEPT !.overtaken = TRUE] ELSE reading[r]
         IN  a \in Reading /\ (a.at = "answered" => a.overtaken)
  <2> SUFFICES ASSUME NEW a \in Reading
               PROVE  LET b == IF a.at = "answered" THEN [a EXCEPT !.overtaken = TRUE] ELSE a
                      IN  b \in Reading /\ (b.at = "answered" => b.overtaken)
    BY <1>1
  <2> QED
    BY DEF Reading
<1> HIDE DEF Reading
<1> QED
  BY <1>2 DEF Untold

LEMMA OtherWaitsTooOftenKeeps == ASSUME CardInv, OtherWaitsTooOften PROVE CardInv'
<1>0. CardTypeOK /\ asks \in Asks
  BY CardSays DEF CardInv
<1>1. /\ asks' = [asks EXCEPT !.decided = TRUE] /\ Untold /\ misread'
      /\ misread' \in BOOLEAN /\ UNCHANGED <<me, post, ackDue, said, card>>
  BY DEF OtherWaitsTooOften
<1>2. asks' \in Asks /\ asks'.live = asks.live
  BY <1>0, <1>1 DEF Asks
<1>3. /\ reading' \in [Readings -> Reading]
      /\ \A r \in Readings : reading'[r].at = "answered" => reading'[r].overtaken
  BY <1>0, <1>1, UntoldSays
<1>4. CardTypeOK'
  <2> HIDE DEF Asks, Said, Letter, Card, Reading
  <2>1. /\ me' \in Side /\ ackDue' \in Moments /\ said' \in Said /\ card' \in Card
        /\ post' \in Seq(Letter) /\ Len(post') <= MaxPost
    BY <1>0, <1>1, CardSays
  <2> QED
    BY Zenon, <1>1, <1>2, <1>3, <2>1, CardTyped
<1>5. ReadingsRight' /\ PostTrue' /\ CardTrue'
  BY <1>1, <1>3 DEF ReadingsRight, ReadingRight, PostTrue, CardTrue
<1>6. GoneFor'
  BY <1>1, <1>2 DEF CardInv, GoneFor
<1> QED
  BY <1>4, <1>5, <1>6 DEF CardInv

\* The departure is told to the passenger alone: this phone knows it.
LEMMA StartsTripKeeps == ASSUME CardInv, StartsTrip PROVE CardInv'
<1>0. CardTypeOK /\ asks \in Asks /\ misread \in BOOLEAN
  BY CardSays DEF CardInv
<1>1. /\ asks' = [asks EXCEPT !.live = FALSE] /\ Untold /\ me = "driver" /\ asks.live
      /\ card' = [NoCard EXCEPT !.going = TRUE]
      /\ UNCHANGED <<me, post, ackDue, said, misread>>
  BY DEF StartsTrip
<1>2. asks' \in Asks /\ ~asks'.live
  BY <1>0, <1>1 DEF Asks
<1>3. /\ reading' \in [Readings -> Reading]
      /\ \A r \in Readings : reading'[r].at = "answered" => reading'[r].overtaken
  BY <1>0, <1>1, UntoldSays
<1>7. card' \in Card /\ card'.going /\ card'.kind \notin Asking
  BY <1>1, NothingSays DEF Card, Asking
<1>4. CardTypeOK'
  <2> HIDE DEF Asks, Said, Letter, Card, Reading
  <2>1. /\ me' \in Side /\ ackDue' \in Moments /\ said' \in Said /\ misread' \in BOOLEAN
        /\ post' \in Seq(Letter) /\ Len(post') <= MaxPost
    BY <1>0, <1>1, CardSays
  <2> QED
    BY Zenon, <1>2, <1>3, <1>7, <2>1, CardTyped
<1>5. ReadingsRight' /\ PostTrue' /\ CardTrue'
  BY <1>3, <1>7 DEF ReadingsRight, ReadingRight, PostTrue, CardTrue
<1>6. GoneFor'
  BY <1>1, <1>2 DEF CardInv, GoneFor
<1> QED
  BY <1>4, <1>5, <1>6 DEF CardInv

LEMMA CardReconnectsKeeps == ASSUME CardInv, CardReconnects PROVE CardInv'
<1>0. CardTypeOK /\ card \in Card /\ Len(post) \in Nat
  BY CardSays DEF CardInv
<1> DEFINE From == [k \in Readings |->
                     IF post # <<>> /\ reading[k].at = "answered"
                     THEN [reading[k] EXCEPT !.overtaken = TRUE] ELSE reading[k]]
<1>1. /\ asks.live /\ post' = <<>> /\ said' \in Said /\ misread' /\ misread' \in BOOLEAN
      /\ card' \in {card, [NoCard EXCEPT !.going = card.going]}
      /\ UNCHANGED <<me, asks, ackDue>>
  BY <1>0, CardSays DEF CardReconnects, Said
<1>2. PICK r \in Readings : Rereads(From, r)
  BY DEF CardReconnects
<1>3. ASSUME NEW k \in Readings
      PROVE  /\ From[k] \in Reading
             /\ From[k].at = "answered" /\ ~From[k].overtaken =>
                   post = <<>> /\ From[k] = reading[k]
  <2>1. reading[k] \in Reading
    BY <1>0, ReadingSays
  <2>2. \A a \in Reading : /\ [a EXCEPT !.overtaken = TRUE] \in Reading
                           /\ [a EXCEPT !.overtaken = TRUE].overtaken
    BY DEF Reading
  <2> HIDE DEF Reading
  <2> QED
    BY <2>1, <2>2
<1>4. From \in [Readings -> Reading]
  <2> HIDE DEF Reading
  <2> QED
    BY <1>3
<1> HIDE DEF From
<1>5. /\ reading' \in [Readings -> Reading] /\ reading'[r].at = "asked"
      /\ \A k \in Readings : k # r => reading'[k] = From[k]
  BY Zenon, <1>2, <1>4, RereadsSays
<1>6. card' \in Card /\ ~card'.going
  <2>1. ~card.going /\ card.going \in BOOLEAN
    BY <1>0, <1>1 DEF CardInv, GoneFor, Card
  <2> QED
    BY <1>0, <1>1, <2>1, NothingSays DEF Card
<1>7. CardTypeOK'
  <2> HIDE DEF Asks, Said, Letter, Card, Reading
  <2>1. /\ me' \in Side /\ asks' \in Asks /\ ackDue' \in Moments
        /\ post' \in Seq(Letter) /\ Len(post') <= MaxPost
    BY <1>0, <1>1, CardSays, CardNumbers
  <2> QED
    BY Zenon, <1>1, <1>5, <1>6, <2>1, CardTyped
<1>8. PostTrue' /\ CardTrue'
  BY <1>1 DEF PostTrue, CardTrue
<1>9. ReadingsRight'
  <2> SUFFICES ASSUME NEW k \in Readings, NEW a, a = reading'[k], a.at = "answered",
                      ~a.overtaken
               PROVE  ReadingRight(a)'
    BY DEF ReadingsRight, ReadingRight, SoundAfter, ClosedAfter, StillOpen, DecisionOpen
  <2>1. post = <<>> /\ a = reading[k]
    BY <1>3, <1>5
  <2>2. ReadingRight(a) /\ UNCHANGED <<post, asks>>
    BY <1>1, <2>1 DEF CardInv, ReadingsRight
  <2> QED
    BY <2>2 DEF ReadingRight, SoundAfter, ClosedAfter, StillOpen, DecisionOpen
<1>10. GoneFor'
  BY <1>1, <1>6 DEF GoneFor
<1> QED
  BY <1>7, <1>8, <1>9, <1>10 DEF CardInv

-------------------------------------------------------------------------------
(* The phone handles an event *)

\* What is under way is the same, and one nearer.
OneNearer ==
    /\ Len(post') = Len(post) - 1 /\ DOMAIN post' = 1..Len(post')
    /\ \A i \in DOMAIN post' : i + 1 \in DOMAIN post /\ post'[i] = post[i + 1]

LEMMA ComesNearer ==
    ASSUME CardTypeOK, post # <<>>, post' = Tail(post)
    PROVE  /\ OneNearer /\ post' \in Seq(Letter) /\ Len(post') <= MaxPost
           /\ 1 \in DOMAIN post /\ Head(post) = post[1] /\ Head(post) \in Letter
<1> HIDE DEF Letter
<1>1. /\ post \in Seq(Letter) /\ Len(post) \in Nat /\ Len(post) <= MaxPost
      /\ DOMAIN post = 1..Len(post) /\ MaxPost \in Nat
  BY CardSays, CardNumbers
<1>2. /\ Head(post) \in Letter /\ post' \in Seq(Letter) /\ Len(post') = Len(post) - 1
      /\ \A i \in 1..Len(post') : post'[i] = post[i + 1]
  BY <1>1, HeadTailProperties
<1>3. Len(post) # 0 /\ Len(post') \in Nat /\ DOMAIN post' = 1..Len(post')
  BY <1>1, <1>2
<1>4. \A i \in DOMAIN post' : i + 1 \in DOMAIN post
  BY <1>1, <1>2, <1>3
<1>5. 1 \in DOMAIN post /\ Head(post) = post[1]
  BY <1>1, <1>3
<1> QED
  BY <1>1, <1>2, <1>3, <1>4, <1>5 DEF OneNearer

LEMMA NearerSays ==
    ASSUME CardTypeOK, OneNearer, UNCHANGED asks, NEW n \in Nat
    PROVE  /\ ClosedAfter(n + 1) => ClosedAfter(n)'
           /\ SoundAfter(n + 1) => SoundAfter(n)'
<1>1. Len(post) \in Nat /\ DOMAIN post = 1..Len(post)
  BY CardSays
<1>2. ASSUME NEW j \in Nat, ClosedAfter(j + 1) PROVE ClosedAfter(j)'
  <2>1. PICK k \in DOMAIN post : k > j + 1 /\ post[k].kind \in Closing
    BY <1>2 DEF ClosedAfter
  <2>2. PICK i \in DOMAIN post' : i + 1 = k
    <3>1. k - 1 \in DOMAIN post' /\ (k - 1) + 1 = k
      BY <1>1, <2>1 DEF OneNearer
    <3> QED
      BY <3>1
  <2>3. i > j
    BY <1>1, <2>1, <2>2 DEF OneNearer
  <2> QED
    BY <2>1, <2>2, <2>3 DEF ClosedAfter, OneNearer
<1>3. ASSUME SoundAfter(n + 1) PROVE SoundAfter(n)'
  <2> SUFFICES ASSUME NEW i \in DOMAIN post', i > n, NEW q \in Asking, q = post'[i].kind
               PROVE  StillOpen(q)' \/ ClosedAfter(i)'
    BY DEF SoundAfter, StillOpen
  <2>1. i + 1 \in DOMAIN post /\ post[i + 1].kind = q /\ i + 1 > n + 1 /\ i \in Nat
    BY DEF OneNearer
  <2>2. StillOpen(q) \/ ClosedAfter(i + 1)
    BY <1>3, <2>1 DEF SoundAfter
  <2> QED
    BY <1>2, <2>1, <2>2, SameQuestions
<1> QED
  BY <1>2, <1>3

LEMMA ReceivedReading ==
    ASSUME NEW a \in Reading
    PROVE  /\ Received(a) \in Reading /\ Received(a).at = a.at
           /\ Received(a).kind = a.kind
           /\ Received(a).at = "answered" /\ ~Received(a).overtaken =>
                 /\ a.behind \in Nat /\ a.behind > 0 /\ ~a.overtaken
                 /\ Received(a).behind = a.behind - 1
<1>1. a.behind \in Nat /\ a.behind <= MaxPost /\ MaxPost \in Nat
  BY CardNumbers DEF Reading
<1>2. CASE a.at # "answered"
  BY <1>2 DEF Received
<1>3. CASE a.at = "answered" /\ a.behind > 0
  <2>1. PICK b \in 0..MaxPost : b = a.behind - 1
    BY <1>1, <1>3
  <2>2. Received(a) = [a EXCEPT !.behind = b]
    BY <1>3, <2>1 DEF Received
  <2> QED
    BY <1>1, <1>3, <2>1, <2>2 DEF Reading
<1>4. CASE a.at = "answered" /\ ~(a.behind > 0)
  BY <1>4 DEF Received, Reading
<1> QED
  BY <1>2, <1>3, <1>4

LEMMA ReceivedRight ==
    ASSUME CardTypeOK, OneNearer, UNCHANGED asks, NEW a \in Reading, ReadingRight(a)
    PROVE  ReadingRight(Received(a))'
<1> SUFFICES ASSUME NEW b \in Reading, b = Received(a), b.at = "answered", ~b.overtaken
             PROVE  ReadingRight(b)'
  BY ReceivedReading
     DEF ReadingRight, Received, SoundAfter, ClosedAfter, StillOpen, DecisionOpen
<1>1. /\ a.behind \in Nat /\ a.behind > 0 /\ ~a.overtaken /\ b.behind = a.behind - 1
      /\ a.at = "answered" /\ b.kind = a.kind
  BY ReceivedReading
<1>2. b.behind \in Nat /\ a.behind = b.behind + 1
  BY <1>1
<1>3. /\ a.behind <= Len(post) /\ SoundAfter(b.behind + 1)
      /\ a.kind \in Asking => StillOpen(a.kind) \/ ClosedAfter(b.behind + 1)
  BY <1>1, <1>2 DEF ReadingRight
<1>4. b.behind <= Len(post')
  BY <1>1, <1>2, <1>3, CardSays DEF OneNearer
<1>5. SoundAfter(b.behind)'
  BY <1>2, <1>3, NearerSays
<1>6. a.kind \in Asking => StillOpen(a.kind)' \/ ClosedAfter(b.behind)'
  BY <1>2, <1>3, NearerSays, SameQuestions
<1> QED
  BY <1>1, <1>4, <1>5, <1>6 DEF ReadingRight, StillOpen

\* A card that asks after an event asked before it, unless the event is the question.
LEMMA CardAfterSays ==
    ASSUME card \in Card, NEW e \in Letter
    PROVE  LET c == CardAfter(e)
           IN  /\ c \in Card
               /\ c.going => card.going \/ e.kind = "started"
               /\ card.going /\ ~c.going => e.kind \in {"arrived", "cancelled"}
               /\ c.kind \in Asking /\ ~c.answered =>
                     \/ c.kind = e.kind /\ ~card.going
                     \/ /\ c.kind = card.kind /\ ~card.answered
                        /\ e.kind \in Closing => e.kind = "refused"
<1>0. /\ e.kind \in PostKind /\ e.moment \in Moments /\ card.going \in BOOLEAN
      /\ card.kind \in CardKind
  BY DEF Letter, Card
<1>1. CASE e.kind \in {"calm", "open", "theirs"}
  <2>1. CASE card.going \/ (e.moment # 0 /\ card.moment = e.moment)
    BY <1>1, <2>1 DEF CardAfter, Shown, Closing
  <2>2. CASE ~(card.going \/ (e.moment # 0 /\ card.moment = e.moment))
    <3>1. CardAfter(e) = [kind |-> e.kind, moment |-> e.moment, submitting |-> FALSE,
                          answered |-> FALSE, going |-> FALSE]
      BY <1>1, <2>2 DEF CardAfter, Shown, NoCard
    <3> QED
      BY <1>0, <1>1, <2>2, <3>1 DEF Card, CardKind
  <2> QED
    BY <2>1, <2>2
<1>2. CASE e.kind \in {"resolved", "pending"}
  <2>1. \E k \in CardKind \ Asking, m \in Moments :
           CardAfter(e) = [kind |-> k, moment |-> m, submitting |-> FALSE,
                           answered |-> FALSE, going |-> card.going]
    <3>1. {"calm", "mine"} \subseteq CardKind \ Asking /\ 0 \in Moments
      BY CardNumbers DEF CardKind, Asking
    <3>2. CASE e.kind = "resolved"
      <4>1. CardAfter(e) = [kind |-> "calm", moment |-> 0, submitting |-> FALSE,
                            answered |-> FALSE, going |-> card.going]
        BY <3>2 DEF CardAfter, NoCard
      <4> QED
        BY <3>1, <4>1
    <3>3. CASE e.kind = "pending"
      <4>1. CardAfter(e) = [NoCard EXCEPT !.kind = "mine", !.moment = e.moment,
                                          !.going = card.going]
        BY <3>3 DEF CardAfter
      <4>2. CardAfter(e) = [kind |-> "mine", moment |-> e.moment, submitting |-> FALSE,
                            answered |-> FALSE, going |-> card.going]
        BY <4>1, Zenon DEF NoCard
      <4> QED
        BY <1>0, <3>1, <4>2
    <3> QED
      BY <1>2, <3>2, <3>3
  <2> QED
    BY <1>0, <1>2, <2>1 DEF Card
<1>3. CASE e.kind \in {"granted", "ack"}
  <2>1. PICK k \in CardKind : CardAfter(e) = Settled(k)
    BY <1>0, <1>3 DEF CardAfter, CardKind
  <2>2. CASE card.kind = "none"
    BY <1>0, <1>3, <2>1, <2>2 DEF Settled, Asking
  <2>3. CASE card.kind # "none"
    <3>1. CardAfter(e) = [card EXCEPT !.kind = k, !.submitting = FALSE, !.answered = TRUE]
      BY <2>1, <2>3 DEF Settled
    <3>2. CardAfter(e) \in Card /\ CardAfter(e).answered /\ CardAfter(e).going = card.going
      BY <3>1 DEF Card
    <3> QED
      BY <1>0, <3>2
  <2> QED
    BY <2>2, <2>3
<1>4. CASE e.kind \in {"refused", "not_pending"}
  <2>1. CardAfter(e) = [card EXCEPT !.submitting = FALSE]
    BY <1>4 DEF CardAfter
  <2>2. /\ CardAfter(e) \in Card /\ CardAfter(e).going = card.going
        /\ CardAfter(e).kind = card.kind /\ CardAfter(e).answered = card.answered
    BY <2>1 DEF Card
  <2> QED
    BY <1>0, <1>4, <2>2 DEF Closing
<1>5. CASE e.kind \in {"arrived", "cancelled"}
  BY <1>0, <1>5, NothingSays DEF CardAfter, Asking
<1>6. CASE e.kind = "started"
  <2>1. CardAfter(e) = [NoCard EXCEPT !.going = TRUE]
    BY <1>6 DEF CardAfter
  <2>2. CardAfter(e) \in Card /\ CardAfter(e).kind = "none" /\ CardAfter(e).going
    BY <2>1, NothingSays DEF Card
  <2> QED
    BY <1>6, <2>2 DEF Asking
<1> QED
  BY <1>0, <1>1, <1>2, <1>3, <1>4, <1>5, <1>6 DEF PostKind

LEMMA ReceiveCardKeeps == ASSUME CardInv, ReceiveCard PROVE CardInv'
<1> DEFINE e == Head(post)
           after == [r \in Readings |-> Received(reading[r])]
<1>0. /\ CardTypeOK /\ card \in Card /\ reading \in [Readings -> Reading]
      /\ misread \in BOOLEAN /\ asks \in Asks
  BY CardSays DEF CardInv
<1>1. /\ post # <<>> /\ post' = Tail(post) /\ card' = CardAfter(e)
      /\ UNCHANGED <<me, asks, ackDue, said, misread>>
  BY DEF ReceiveCard
<1>2. /\ OneNearer /\ post' \in Seq(Letter) /\ Len(post') <= MaxPost
      /\ 1 \in DOMAIN post /\ e = post[1] /\ e \in Letter
  BY <1>0, <1>1, ComesNearer
<1>3. after \in [Readings -> Reading]
      /\ \A r \in Readings : after[r] = Received(reading[r])
  <2> HIDE DEF Reading
  <2> QED
    BY <1>0, ReceivedReading, ReadingSays
<1>4. \/ e.kind = "refused" /\ card.kind # "none" /\ \E r \in Readings : Rereads(after, r)
      \/ e.kind = "cancelled" /\ reading' = [r \in Readings |-> NoReading]
      \/ /\ e.kind # "cancelled" /\ ~(e.kind = "refused" /\ card.kind # "none")
         /\ reading' = after
  BY DEF ReceiveCard
<1> HIDE DEF after, e
<1>5. /\ card' \in Card
      /\ card'.going => card.going \/ e.kind = "started"
      /\ card.going /\ ~card'.going => e.kind \in {"arrived", "cancelled"}
      /\ card'.kind \in Asking /\ ~card'.answered =>
            \/ card'.kind = e.kind /\ ~card.going
            \/ /\ card'.kind = card.kind /\ ~card.answered
               /\ e.kind \in Closing => e.kind = "refused"
  BY <1>0, <1>1, <1>2, CardAfterSays
<1>6. /\ reading' \in [Readings -> Reading]
      /\ \A r \in Readings : reading'[r].at \in {"off", "asked"}
                                \/ reading'[r] = Received(reading[r])
  <2>1. CASE \E r \in Readings : Rereads(after, r)
    <3>1. PICK r \in Readings : Rereads(after, r)
      BY <2>1
    <3>2. /\ reading' \in [Readings -> Reading] /\ reading'[r].at = "asked"
          /\ \A k \in Readings : k # r => reading'[k] = after[k]
      BY Zenon, <1>3, <3>1, RereadsSays
    <3> QED
      BY <1>3, <3>2
  <2>2. CASE reading' = [r \in Readings |-> NoReading]
    <3> HIDE DEF Reading
    <3> QED
      BY <2>2, NothingSays
  <2>3. CASE reading' = after
    BY <1>3, <2>3
  <2> QED
    BY <1>4, <2>1, <2>2, <2>3
<1>7. e.kind = "refused" /\ card.kind # "none" => \E r \in Readings : reading'[r].at # "off"
  <2> SUFFICES ASSUME e.kind = "refused", card.kind # "none"
               PROVE  \E r \in Readings : reading'[r].at # "off"
    OBVIOUS
  <2>1. PICK r \in Readings : Rereads(after, r)
    BY <1>4
  <2>2. reading'[r].at = "asked"
    BY Zenon, <1>3, <2>1, RereadsSays
  <2> QED
    BY <2>2
<1>8. \/ e.kind \in {"refused", "cancelled"}
      \/ \A r \in Readings : reading'[r].at = reading[r].at
  <2>1. \A r \in Readings : Received(reading[r]).at = reading[r].at
    BY <1>0, ReceivedReading, ReadingSays
  <2> QED
    BY <1>3, <1>4, <2>1
<1>9. CardTypeOK'
  <2> HIDE DEF Asks, Said, Letter, Card, Reading
  <2>1. /\ me' \in Side /\ asks' \in Asks /\ ackDue' \in Moments /\ said' \in Said
        /\ misread' \in BOOLEAN
    BY <1>0, <1>1, CardSays
  <2> QED
    BY Zenon, <1>2, <1>5, <1>6, <2>1, CardTyped
<1>10. \A n : n = 0 => /\ ClosedAfter(n + 1) => ClosedAfter(n)'
                       /\ SoundAfter(n + 1) => SoundAfter(n)'
  BY <1>0, <1>1, <1>2, NearerSays
<1>11. 0 + 1 = 1
  OBVIOUS
<1>12. /\ ClosedAfter(1) => ClosedAfter(0)'
       /\ SoundAfter(1) => SoundAfter(0)'
  BY <1>10, <1>11
<1>13. \A i \in DOMAIN post : i \in Nat
  BY <1>0, CardSays
<1>14. PostTrue'
  <2> SUFFICES ASSUME ~misread, ~card'.going PROVE SoundAfter(0)'
    BY <1>1 DEF PostTrue
  <2>1. ~card.going
    BY <1>2, <1>5 DEF CardInv, GoneFor
  <2>2. SoundAfter(0)
    BY <2>1 DEF CardInv, PostTrue
  <2>3. SoundAfter(1)
    BY <1>13, <2>2 DEF SoundAfter
  <2> QED
    BY Zenon, <1>12, <2>3
<1>15. ReadingsRight'
  <2> SUFFICES ASSUME NEW r \in Readings, NEW b, b = reading'[r] PROVE ReadingRight(b)'
    BY DEF ReadingsRight, ReadingRight, SoundAfter, ClosedAfter, StillOpen, DecisionOpen
  <2>1. CASE b.at \in {"off", "asked"}
    BY <2>1 DEF ReadingRight
  <2>2. CASE b = Received(reading[r])
    <3>1. PICK a \in Reading : a = reading[r]
      BY <1>0, ReadingSays
    <3>2. ReadingRight(a) /\ UNCHANGED asks
      BY <1>1, <3>1 DEF CardInv, ReadingsRight
    <3>3. ReadingRight(Received(a))'
      BY Zenon, <1>0, <1>2, <3>2, ReceivedRight
    <3>4. b = Received(a)
      BY <2>2, <3>1
    <3> QED
      BY <3>3, <3>4 DEF ReadingRight, SoundAfter, ClosedAfter, StillOpen, DecisionOpen
  <2> QED
    BY <1>6, <2>1, <2>2
<1>18. \A q \in Asking : StillOpen(q)' <=> StillOpen(q)
  BY <1>1, SameQuestions
<1>16. CardTrue'
  <2> SUFFICES ASSUME ~misread, NEW q \in Asking, q = card'.kind, ~card'.answered,
                      \A r \in Readings : reading'[r].at = "off"
               PROVE  StillOpen(q)' \/ ClosedAfter(0)'
    BY <1>1 DEF CardTrue, StillOpen
  <2>1. StillOpen(q) \/ ClosedAfter(1)
    <3>1. CASE q = e.kind /\ ~card.going
      <4>1. SoundAfter(0)
        BY <3>1 DEF CardInv, PostTrue
      <4> QED
        BY <1>2, <3>1, <4>1 DEF SoundAfter
    <3>2. CASE q = card.kind /\ ~card.answered /\ (e.kind \in Closing => e.kind = "refused")
      <4>1. e.kind # "refused"
        BY <1>7, <3>2 DEF Asking
      <4>2. e.kind \notin Closing
        BY <3>2, <4>1
      <4>3. \A r \in Readings : reading[r].at = "off"
        BY <1>8, <4>2 DEF Closing
      <4>4. StillOpen(q) \/ ClosedAfter(0)
        BY <3>2, <4>3 DEF CardInv, CardTrue
      <4>5. ClosedAfter(0) => ClosedAfter(1)
        <5> SUFFICES ASSUME NEW k \in DOMAIN post, post[k].kind \in Closing PROVE ClosedAfter(1)
          BY DEF ClosedAfter
        <5>1. k # 1 /\ k \in Nat /\ k >= 1
          BY <1>0, <1>2, <4>2, CardSays
        <5> QED
          BY <5>1 DEF ClosedAfter
      <4> QED
        BY <4>4, <4>5
    <3> QED
      BY <1>5, <3>1, <3>2
  <2> QED
    BY Zenon, <1>12, <1>18, <2>1
<1>17. GoneFor'
  <2>1. \A i \in DOMAIN post' : i + 1 \in DOMAIN post /\ post'[i] = post[i + 1] /\ i + 1 > 1
    BY <1>2 DEF OneNearer
  <2>2. card'.going =>
           ~asks.live /\ \A i \in DOMAIN post' : post'[i].kind \notin {"arrived", "cancelled"}
    <3>1. CASE card.going
      BY <2>1, <3>1 DEF CardInv, GoneFor
    <3>2. CASE e.kind = "started"
      BY <1>2, <2>1, <3>2 DEF CardInv, GoneFor
    <3> QED
      BY <1>5, <3>1, <3>2
  <2>3. ASSUME NEW i \in DOMAIN post'
        PROVE  /\ post'[i].kind \in {"cancelled", "started"} => ~asks.live
               /\ post'[i].kind = "arrived" => me = "passenger"
    BY <2>1 DEF CardInv, GoneFor
  <2>4. ASSUME NEW i \in DOMAIN post', post'[i].kind = "started",
               NEW k \in DOMAIN post', k > i
        PROVE  post'[k].kind \notin {"arrived", "cancelled"}
    <3>1. k + 1 > i + 1
      BY <2>4, <1>2 DEF OneNearer
    <3> QED
      BY <2>1, <2>4, <3>1 DEF CardInv, GoneFor
  <2> QED
    BY <1>1, <2>2, <2>3, <2>4 DEF GoneFor
<1> QED
  BY <1>9, <1>14, <1>15, <1>16, <1>17 DEF CardInv

-------------------------------------------------------------------------------

LEMMA CardStutters == ASSUME CardInv, UNCHANGED cardVars PROVE CardInv'
<1>1. asks' \in Asks /\ ackDue' \in Moments /\ said' \in Said
  BY CardSays DEF CardInv, cardVars
<1>2. \A q \in Asking : StillOpen(q)' <=> StillOpen(q)
  BY SameQuestions DEF cardVars
<1> QED
  BY <1>1, <1>2, CardLeft DEF cardVars, PhoneLeft

LEMMA CardSteps == ASSUME CardInv, [CardNext]_cardVars PROVE CardInv'
<1>1. CASE \/ AsksBoth \/ Tells \/ OtherWaits \/ OtherWaitsTooOften \/ OtherAsksToCancel
           \/ OtherDeclines \/ RideCancelled \/ DriverMoves
  BY <1>1, AsksBothKeeps, TellsKeeps, OtherWaitsKeeps, OtherWaitsTooOftenKeeps,
     OtherAsksToCancelKeeps, OtherDeclinesKeeps, RideCancelledKeeps, DriverMovesKeeps
<1>2. CASE HearWait \/ HearComing \/ HearCancel \/ VerdictOnRequest \/ HearResponse
  BY <1>2, HearWaitKeeps, HearComingKeeps, HearCancelKeeps, VerdictKeeps, HearResponseKeeps
<1>3. CASE \E r \in Readings : ServeReading(r) \/ ApplyReading(r) \/ ReadingFails(r)
  BY <1>3, ServeReadingKeeps, ApplyReadingKeeps, ReadingFailsKeeps
<1>4. CASE ReceiveCard \/ Opened \/ CardReconnects
  BY <1>4, ReceiveCardKeeps, OpenedKeeps, CardReconnectsKeeps
<1>5. CASE KeepsWaiting \/ AnswersRequest \/ RequestsCancel \/ OnMyWay
           \/ MarksArrived \/ StartsTrip
  BY <1>5, TapsKeep, OnMyWayKeeps, MarksArrivedKeeps, StartsTripKeeps
<1> QED
  BY <1>1, <1>2, <1>3, <1>4, <1>5, CardStutters DEF CardNext

\* A question the phone still puts to its party, when nothing is under way, is
\* one the server has open, whatever was answered, withdrawn, asked again or
\* re-read meanwhile, and in whatever order (refreshCoordination and
\* _applyCoordinationEvent).
THEOREM NoGhost == CardSpec => []NoGhostQuestion
<1>1. CardInv => NoGhostQuestion
  <2> SUFFICES ASSUME CardInv, ~misread, post = <<>>, NeedsAnswer,
                      \A r \in Readings : reading[r].at = "off"
               PROVE  StillOpen(card.kind)
    BY DEF NoGhostQuestion, StillOpen
  <2>1. card.kind \in Asking /\ ~card.answered
    BY DEF NeedsAnswer, Asking
  <2>2. ~ClosedAfter(0)
    BY DEF ClosedAfter
  <2> QED
    BY <2>1, <2>2 DEF CardInv, CardTrue
<1> QED
  BY CardInitially, CardSteps, <1>1, PTL DEF CardSpec

\* The passenger's screen, its socket and its fetches keep their types
\* (booking_controller.dart).
THEOREM AppTypes == AppSpec => []AppTypeOK
<1>1. AppInv => AppTypeOK
  BY DEF AppInv
<1> QED
  BY AppInitially, AppKeeps, <1>1, PTL DEF AppSpec

\* The driver's screen, its socket and its recovery keep their types
\* (driver_controller.dart).
THEOREM DriverTypes == DriverAppSpec => []DriverAppTypeOK
<1>1. DriverInv => DriverAppTypeOK
  BY DEF DriverInv
<1> QED
  BY DriverInitially, DriverKeeps, <1>1, PTL DEF DriverAppSpec

\* The coordination card, the server's questions and the re-reads keep their
\* types (_applyCoordinationEvent, refreshCoordination).
THEOREM CardTypes == CardSpec => []CardTypeOK
<1>1. CardInv => CardTypeOK
  BY DEF CardInv
<1> QED
  BY CardInitially, CardSteps, <1>1, PTL DEF CardSpec

-------------------------------------------------------------------------------
(* The services together *)

\* A run of the services together is, seen by each of them, a run of that
\* service: it moves as it moves alone, or not at all.  Whatever is proved of
\* a service alone therefore holds beside the others.
THEOREM EachRideServiceRuns ==
    RideSpec => /\ RoundsSpec /\ SlotSpec /\ CoordSpec /\ ParkSpec
                /\ IntentSpec /\ AppSpec /\ DriverAppSpec /\ CardSpec
<1>1. RideInit => /\ RoundsInit /\ SlotInit /\ CoordInit /\ ParkInit
                  /\ IntentInit /\ AppInit /\ DriverAppInit /\ CardInit
  BY DEF RideInit
<1>2. [RideNext]_rideVars => /\ [RoundsNext]_roundsVars /\ [SlotNext]_slotVars
                             /\ [CoordNext]_coordVars /\ [ParkNext]_parkVars
                             /\ [IntentNext]_intentVars /\ [AppNext]_appVars
                             /\ [DriverAppNext]_driverVars /\ [CardNext]_cardVars
  BY DEF RideNext, rideVars
<1> QED
  BY <1>1, <1>2, PTL DEF RideSpec, RoundsSpec, SlotSpec, CoordSpec, ParkSpec,
                         IntentSpec, AppSpec, DriverAppSpec, CardSpec

\* The state of every service keeps its type in every run of them all, for any
\* number of rides, drivers, parks, phones, events and re-reads under way.
THEOREM RideTypes == RideSpec => []RideTypeOK
<1>1. /\ RoundsTypeOK /\ SlotTypeOK /\ CoordTypeOK /\ ParkTypeOK
      /\ IntentTypeOK /\ AppTypeOK /\ DriverAppTypeOK /\ CardTypeOK
      => RideTypeOK
  BY DEF RideTypeOK
<1> QED
  BY <1>1, EachRideServiceRuns, RoundsTypes, SlotTypes, CoordTypes, ParkTypes,
     IntentTypes, AppTypes, DriverTypes, CardTypes, PTL

\* Every promise of the services around a ride stands in every run of them all:
\* a phone rings for one ride, a guarded ride is the passenger's only one, no
\* slot is orphaned, a cancellation had its cause, a search is in somebody's
\* hands, quiet screens and cards tell the truth; a search that ends frees its
\* drivers, and nobody off line is dragged back.
THEOREM RideServicesStand ==
    RideSpec => /\ [](RungByOne /\ GuardedRideAlone /\ NoOrphanSlot)
                /\ [](CancelledForCause /\ SearchHeld)
                /\ [](QuietMeansTrue /\ OnTheRide /\ NoGhostQuestion)
                /\ OwnEndFreesDrivers /\ NoDragging
BY EachRideServiceRuns, NoDoubleRing, OneGuardedRide, NobodyLockedOut, Cause,
   SomebodyLooks, QuietTrue, DriverSeesTheRide, NoGhost, EndsReleased,
   NobodyDragged, PTL

===============================================================================
