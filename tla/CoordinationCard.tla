---------------------------- MODULE CoordinationCard ----------------------------
(***************************************************************************)
(* What one party's phone shows of the conversation about a late ride      *)
(* (application/driver_controller.dart and booking_controller.dart with    *)
(* domain/ride_coordination.dart, of both apps; coordinationSnapshot of    *)
(* services/ride_coordination_contract.ts; what socket_handler.ts and      *)
(* stale_ride_sweeper.ts send).                                            *)
(*                                                                         *)
(* Coordination.tla has the row and its races.  Here a handler is one      *)
(* step, the other party answers at the server, and the question is what   *)
(* reaches this phone: events in order on the socket, a re-read over HTTP  *)
(* in no order with them, and the server's verdicts on this party's taps.  *)
(* A card is a question that is open, a request to cancel by either party, *)
(* or calm: reminders, escalation and settled questions, told apart only   *)
(* by their wording.  The set of events seen decides sounds, not cards: a  *)
(* duplicate is dropped when its card is still shown.                      *)
(***************************************************************************)
EXTENDS Naturals, Sequences

CONSTANTS
    Readings,    \* re-reads of the state that can be under way at once
    MaxWaits,    \* config.maxExtensions
    MaxMoments,  \* bound: questions asked on the ride
    MaxPost      \* bound: events under way to the phone

ASSUME CardAssumption ==
    MaxWaits \in Nat /\ MaxMoments \in Nat \ {0} /\ MaxPost \in Nat \ {0, 1}

VARIABLES
    me,       \* the party whose phone this is
    asks,     \* the ride row's coordination columns
    post,     \* events sent to the phone and not yet handled
    ackDue,   \* the request whose verdict waits for a push to be sent, or 0
    said,     \* the tap the server has not handled
    card,     \* state.coordination, and whether the trip goes
    reading,  \* reading[r]: refreshCoordination, and what it read
    misread   \* history: the card has reason to be wrong (NoGhostQuestion)

cardVars == <<me, asks, post, ackDue, said, card, reading, misread>>

-------------------------------------------------------------------------------
(* Types *)

Side == {"passenger", "driver"}
Moments == 0..MaxMoments
CardKind == {"none", "calm", "open", "mine", "theirs"}
PostKind == {"calm", "open", "theirs", "resolved", "granted", "ack", "refused",
             "pending", "not_pending", "arrived", "started", "cancelled"}

NoReading == [at |-> "off", kind |-> "none", moment |-> 0, behind |-> 0,
              overtaken |-> FALSE]

CardTypeOK ==
    /\ me \in Side
    /\ asks \in [live : BOOLEAN, prompt : Moments,
                 decided : BOOLEAN, waits : 0..MaxWaits, request : Moments,
                 requester : {"me", "other"}, escalated : BOOLEAN, moments : Moments]
    /\ post \in Seq([kind : PostKind, moment : Moments]) /\ Len(post) <= MaxPost
    /\ ackDue \in Moments
    /\ said \in {"nothing", "wait", "coming", "cancel", "accept", "continue"}
    /\ card \in [kind : CardKind, moment : Moments, submitting : BOOLEAN,
                 answered : BOOLEAN, going : BOOLEAN]
    /\ reading \in [Readings -> [at : {"off", "asked", "answered"}, kind : CardKind,
                                 moment : Moments, behind : 0..MaxPost,
                                 overtaken : BOOLEAN]]
    /\ misread \in BOOLEAN

NoCard == [kind |-> "none", moment |-> 0, submitting |-> FALSE,
           answered |-> FALSE, going |-> FALSE]

CardInit ==
    /\ me \in Side
    /\ asks = [live |-> TRUE, prompt |-> 0, decided |-> FALSE, waits |-> 0,
               request |-> 0, requester |-> "other", escalated |-> FALSE, moments |-> 0]
    /\ post = <<>> /\ ackDue = 0 /\ said = "nothing"
    /\ card = NoCard
    /\ reading = [r \in Readings |-> NoReading]
    /\ misread = FALSE

-------------------------------------------------------------------------------
(* Helpers *)

DecisionOpen == asks.prompt # 0 /\ ~asks.decided

Letters(kinds, moment) ==
    [i \in DOMAIN kinds |-> [kind |-> kinds[i], moment |-> moment]]

Emit(kinds, moment) ==
    /\ Len(post) + Len(kinds) <= MaxPost
    /\ post' = post \o Letters(kinds, moment)

\* An event handled after the row was read overtakes the reading if it was
\* sent after it as well.
Received(r) ==
    IF r.at # "answered" THEN r
    ELSE IF r.behind > 0 THEN [r EXCEPT !.behind = @ - 1]
    ELSE [r EXCEPT !.overtaken = TRUE]

\* The row changes and no event will tell.
Untold == reading' = [r \in Readings |->
                        IF reading[r].at = "answered"
                        THEN [reading[r] EXCEPT !.overtaken = TRUE] ELSE reading[r]]

PhoneLeft == UNCHANGED <<me, card, reading, misread>>

-------------------------------------------------------------------------------
(* The server: the sweeper *)

\* promptDecision, on a row read before: a request may be pending by now.
AsksBoth ==
    /\ asks.live /\ asks.prompt = 0 /\ asks.moments < MaxMoments
    /\ asks' = [asks EXCEPT !.prompt = asks.moments + 1, !.decided = FALSE,
                            !.moments = @ + 1]
    /\ Emit(<<"open">>, asks.moments + 1)
    /\ UNCHANGED <<ackDue, said>> /\ PhoneLeft

\* sendWarning and sendReminder tell and ask nothing; escalate also marks the row.
Tells ==
    /\ asks.live
    /\ \E up \in BOOLEAN : asks' = [asks EXCEPT !.escalated = @ \/ up]
    /\ Emit(<<"calm">>, 0)
    /\ UNCHANGED <<ackDue, said>> /\ PhoneLeft

-------------------------------------------------------------------------------
(* The server: the other party *)

\* Told to both sides, the answering one included.
Withdraws(a) == [a EXCEPT !.decided = TRUE, !.prompt = 0, !.waits = @ + 1]

\* Mutant: only the answering party is told.
OtherWaitsSilently ==
    /\ asks.live /\ DecisionOpen /\ asks.waits < MaxWaits
    /\ asks' = Withdraws(asks)
    /\ UNCHANGED <<me, post, ackDue, said, card, reading, misread>>

OtherWaits ==
    /\ asks.live /\ DecisionOpen /\ asks.waits < MaxWaits
    /\ asks' = Withdraws(asks)
    /\ Emit(<<"resolved">>, 0)
    /\ UNCHANGED <<ackDue, said>> /\ PhoneLeft

\* At the limit the answer is refused, and yet it was the answer: nobody is told.
OtherWaitsTooOften ==
    /\ asks.live /\ DecisionOpen /\ asks.waits = MaxWaits
    /\ asks' = [asks EXCEPT !.decided = TRUE]
    /\ Untold /\ misread' = TRUE
    /\ UNCHANGED <<me, post, ackDue, said, card>>

OtherAsksToCancel ==
    /\ asks.live /\ asks.request = 0 /\ asks.moments < MaxMoments
    /\ asks' = [asks EXCEPT !.request = asks.moments + 1, !.requester = "other",
                            !.moments = @ + 1]
    /\ Emit(<<"theirs">>, asks.moments + 1)
    /\ UNCHANGED <<ackDue, said>> /\ PhoneLeft

\* The other party declines this one's request.
OtherDeclines ==
    /\ asks.live /\ asks.request # 0 /\ asks.requester = "me"
    /\ asks' = [asks EXCEPT !.request = 0, !.decided = TRUE]
    /\ Emit(<<"resolved">>, 0)
    /\ UNCHANGED <<ackDue, said>> /\ PhoneLeft

\* Agreed, unanswered, abandoned, cancelled otherwise.
RideCancelled ==
    /\ asks.live
    /\ asks' = [asks EXCEPT !.live = FALSE]
    /\ Emit(<<"cancelled">>, 0)
    /\ UNCHANGED <<ackDue, said>> /\ PhoneLeft

\* The passenger hears of the driver's arrival, which changes no column that
\* asks, and of the departure.
DriverMoves ==
    /\ me = "passenger" /\ asks.live
    /\ \/ UNCHANGED asks /\ Emit(<<"arrived">>, 0)
       \/ asks' = [asks EXCEPT !.live = FALSE] /\ Emit(<<"started">>, 0)
    /\ UNCHANGED <<ackDue, said>> /\ PhoneLeft

-------------------------------------------------------------------------------
(* The server: this party's taps.  A ride:error changes no card. *)

Heard(tap) == said = tap /\ said' = "nothing"
Errs == UNCHANGED <<asks, post>>

\* ride:stale_decision
HearWait ==
    /\ Heard("wait")
    /\ \/ (asks.prompt = 0 \/ ~asks.live) /\ Errs
       \/ /\ asks.prompt # 0 /\ (asks.decided \/ ~asks.live)
          /\ UNCHANGED asks /\ Emit(<<"refused">>, 0)
       \/ /\ DecisionOpen /\ asks.live /\ asks.waits < MaxWaits
          /\ asks' = Withdraws(asks) /\ Emit(<<"resolved", "ack">>, 0)
       \/ /\ DecisionOpen /\ asks.live /\ asks.waits = MaxWaits
          /\ asks' = [asks EXCEPT !.decided = TRUE] /\ Emit(<<"refused">>, 0)
    /\ UNCHANGED ackDue /\ PhoneLeft

\* ride:still_coming
HearComing ==
    /\ Heard("coming")
    /\ \/ /\ asks.live /\ asks.waits < MaxWaits
          /\ asks' = [asks EXCEPT !.waits = @ + 1] /\ Emit(<<"granted">>, 0)
       \/ (~asks.live \/ asks.waits = MaxWaits) /\ Errs
    /\ UNCHANGED ackDue /\ PhoneLeft

\* ride:cancel_request: the verdict is sent once the push to the other party is.
HearCancel ==
    /\ Heard("cancel")
    /\ \/ /\ asks.live /\ asks.request = 0 /\ ackDue = 0 /\ asks.moments < MaxMoments
          /\ asks' = [asks EXCEPT !.request = asks.moments + 1, !.requester = "me",
                                  !.moments = @ + 1]
          /\ ackDue' = asks.moments + 1 /\ UNCHANGED post
       \/ asks.live /\ asks.request # 0 /\ Emit(<<"not_pending">>, 0) /\ UNCHANGED <<asks, ackDue>>
       \/ ~asks.live /\ Errs /\ UNCHANGED ackDue
    /\ PhoneLeft

VerdictOnRequest ==
    /\ ackDue # 0 /\ ackDue' = 0
    /\ Emit(<<"pending">>, ackDue)
    /\ UNCHANGED <<asks, said>> /\ PhoneLeft

\* ride:cancel_response
HearResponse ==
    /\ said \in {"accept", "continue"} /\ said' = "nothing"
    /\ \/ (asks.request = 0 \/ asks.requester = "me") /\ Errs
       \/ /\ asks.request # 0 /\ asks.requester = "other"
          /\ \/ /\ said = "continue"
                /\ asks' = [asks EXCEPT !.request = 0, !.decided = asks.live \/ @]
                /\ Emit(<<"resolved", "ack">>, 0)
             \/ /\ said = "accept"
                /\ asks' = [asks EXCEPT !.request = 0, !.live = FALSE]
                /\ IF asks.live THEN Emit(<<"cancelled", "ack">>, 0) ELSE Emit(<<"refused">>, 0)
    /\ UNCHANGED ackDue /\ PhoneLeft

\* GET /rides/:id/coordination: stageOf and coordinationSnapshot.  Escalation
\* outranks a request, a request an open decision; whether there is a delay to
\* tell of is the clock's.
SnapshotKinds ==
    IF ~asks.live THEN {"none"}
    ELSE IF asks.request # 0 /\ ~asks.escalated
         THEN {IF asks.requester = "me" THEN "mine" ELSE "theirs"}
    ELSE IF DecisionOpen THEN {"open"}
    ELSE IF asks.escalated \/ asks.decided THEN {"calm"} ELSE {"calm", "none"}

ServeReading(r) ==
    /\ reading[r].at = "asked"
    /\ \E kind \in SnapshotKinds :
          reading' = [reading EXCEPT ![r] =
                        [at |-> "answered", kind |-> kind, behind |-> Len(post),
                         moment |-> IF asks.request # 0 THEN asks.request
                                    ELSE IF DecisionOpen THEN asks.prompt ELSE 0,
                         overtaken |-> FALSE]]
    /\ UNCHANGED <<me, asks, post, ackDue, said, card, misread>>

-------------------------------------------------------------------------------
(* The phone: events *)

\* refreshCoordination on a ride the phone knows.
Rereads(from, r) ==
    /\ from[r].at = "off"
    /\ reading' = [from EXCEPT ![r] = [NoReading EXCEPT !.at = "asked"]]

\* _applyCoordinationEvent
Shown(kind, moment) ==
    IF card.going \/ (moment # 0 /\ card.moment = moment) THEN card
    ELSE [NoCard EXCEPT !.kind = kind, !.moment = moment]

\* _onCoordinationAck and _onExtensionGranted settle the card that is shown by
\* now, whichever it is.
Settled(kind) == IF card.kind = "none" THEN card
                 ELSE [card EXCEPT !.kind = kind, !.submitting = FALSE, !.answered = TRUE]

CardAfter(e) ==
    CASE e.kind \in {"calm", "open", "theirs"} -> Shown(e.kind, e.moment)
      [] e.kind = "resolved" -> [NoCard EXCEPT !.kind = "calm", !.going = card.going]
      [] e.kind = "granted" -> Settled("calm")
      [] e.kind = "ack" -> Settled(IF card.kind = "open" THEN "calm" ELSE card.kind)
      [] e.kind \in {"refused", "not_pending"} -> [card EXCEPT !.submitting = FALSE]
      [] e.kind = "pending" -> [NoCard EXCEPT !.kind = "mine", !.moment = e.moment,
                                              !.going = card.going]
      [] e.kind \in {"arrived", "cancelled"} -> NoCard
      [] e.kind = "started" -> [NoCard EXCEPT !.going = TRUE]

\* A refused answer re-reads; a cancelled ride has no card to re-read.
ReceiveCard ==
    /\ post # <<>> /\ post' = Tail(post)
    /\ card' = CardAfter(Head(post))
    /\ LET after == [r \in Readings |-> Received(reading[r])]
       IN  CASE Head(post).kind = "refused" /\ card.kind # "none" ->
                    \E r \in Readings : Rereads(after, r)
             [] Head(post).kind = "cancelled" ->
                    reading' = [r \in Readings |-> NoReading]
             [] OTHER -> reading' = after
    /\ UNCHANGED <<me, asks, ackDue, said, misread>>

\* No longer open and decided by this party, of which the columns kept here do
\* not tell: the card is taken as answered, even one that asks something new.
ApplyReading(r) ==
    /\ reading[r].at = "answered"
    /\ \E mine \in BOOLEAN :
          /\ mine => reading[r].kind \notin {"none", "open"}
          /\ card' = [kind |-> reading[r].kind, moment |-> reading[r].moment,
                      submitting |-> FALSE, answered |-> mine, going |-> card.going]
    /\ misread' = (reading[r].overtaken \/ (misread /\ reading[r].behind > 0))
    /\ reading' = [reading EXCEPT ![r] = NoReading]
    /\ UNCHANGED <<me, asks, post, ackDue, said>>

ReadingFails(r) ==
    /\ reading[r].at # "off"
    /\ reading' = [reading EXCEPT ![r] = NoReading]
    /\ misread' = TRUE
    /\ UNCHANGED <<me, asks, post, ackDue, said, card>>

\* A notification is tapped, a recovery carries the block.
Opened ==
    /\ asks.live
    /\ \E r \in Readings : Rereads(reading, r)
    /\ UNCHANGED <<me, asks, post, ackDue, said, card, misread>>

\* What was under way may be gone; a restart loses the card as well.
CardReconnects ==
    /\ asks.live /\ post' = <<>> /\ said' \in {said, "nothing"}
    /\ card' \in {card, [NoCard EXCEPT !.going = card.going]}
    /\ \E r \in Readings :
          Rereads([k \in Readings |->
                     IF post # <<>> /\ reading[k].at = "answered"
                     THEN [reading[k] EXCEPT !.overtaken = TRUE] ELSE reading[k]], r)
    /\ misread' = TRUE
    /\ UNCHANGED <<me, asks, ackDue>>

-------------------------------------------------------------------------------
(* The phone: respondToCoordination *)

NeedsAnswer == card.kind \in {"open", "theirs"} /\ ~card.submitting /\ ~card.answered

Says(tap) ==
    /\ card.kind # "none" /\ ~card.submitting /\ said = "nothing"
    /\ said' = tap
    /\ card' = [card EXCEPT !.submitting = TRUE]
    /\ UNCHANGED <<me, asks, post, ackDue, reading, misread>>

\* "Continue" of the driver is still_coming where no decision is open.
KeepsWaiting ==
    \/ card.kind \in {"open", "calm"} /\ Says("wait")
    \/ card.kind = "calm" /\ me = "driver" /\ Says("coming")

AnswersRequest == card.kind = "theirs" /\ (Says("accept") \/ Says("continue"))

RequestsCancel == card.kind \in {"open", "calm"} /\ Says("cancel")

\* onMyWay of the passenger has no verdict: the card settles at once.
OnMyWay ==
    /\ me = "passenger" /\ card.kind \in {"open", "calm"} /\ ~card.submitting
    /\ card' = Settled("calm")
    /\ UNCHANGED <<me, asks, post, ackDue, said, reading, misread>>

\* markArrived and startTrip put the card away at once.
MarksArrived ==
    /\ me = "driver" /\ asks.live
    /\ card' = [NoCard EXCEPT !.going = card.going]
    /\ UNCHANGED <<me, asks, post, ackDue, said, reading, misread>>

StartsTrip ==
    /\ me = "driver" /\ asks.live
    /\ card' = [NoCard EXCEPT !.going = TRUE]
    /\ asks' = [asks EXCEPT !.live = FALSE]
    /\ Untold
    /\ UNCHANGED <<me, post, ackDue, said, misread>>

-------------------------------------------------------------------------------

CardNext ==
    \/ AsksBoth \/ Tells \/ OtherWaits \/ OtherWaitsTooOften \/ OtherAsksToCancel
    \/ OtherDeclines \/ RideCancelled \/ DriverMoves
    \/ HearWait \/ HearComing \/ HearCancel \/ VerdictOnRequest \/ HearResponse
    \/ \E r \in Readings : ServeReading(r) \/ ApplyReading(r) \/ ReadingFails(r)
    \/ ReceiveCard \/ Opened \/ CardReconnects
    \/ KeepsWaiting \/ AnswersRequest \/ RequestsCancel \/ OnMyWay
    \/ MarksArrived \/ StartsTrip

CardSpec == CardInit /\ [][CardNext]_cardVars

-------------------------------------------------------------------------------
(* Properties *)

\* A prompt that was answered does not come back (refreshCoordination): when
\* nothing is under way, a question the phone still puts to its party is one the
\* server still has open.  Unless an event was lost, a re-read overtaken or
\* failed, or the other party's answer was refused at the limit, of which this
\* party is not told.
NoGhostQuestion ==
    ~misread /\ post = <<>> /\ said = "nothing" /\ ackDue = 0
    /\ (\A r \in Readings : reading[r].at = "off") /\ NeedsAnswer
    => /\ asks.live
       /\ IF card.kind = "open" THEN DecisionOpen
          ELSE asks.request # 0 /\ asks.requester = "other"
===============================================================================
