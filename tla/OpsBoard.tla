-------------------------------- MODULE OpsBoard --------------------------------
(***************************************************************************)
(* The Operations page of the dispatcher's phone (keke_dispatcher/         *)
(* operations.js).                                                         *)
(*                                                                         *)
(* The page redraws the live queue from every answer of a poll, of which   *)
(* several may be under way, rings for a request it has not alerted for,   *)
(* keeps renewing the leases it believes it holds, and does one deed at a  *)
(* time.  What the queue is belongs to the module OpsControl: here every   *)
(* answer may be anything, and every deed may be carried out or refused.   *)
(***************************************************************************)
EXTENDS Naturals

CONSTANTS
    Watched,       \* rides the queue may show
    NoWatch,     \* nothing open, nothing ringing
    MaxPolls    \* bound: refreshes under way beside the deed's own

ASSUME OpsBoardAssumption == NoWatch \notin Watched /\ MaxPolls \in Nat \ {0}

VARIABLES
    page,     \* OPS.active, OPS.primed
    queue,    \* OPS.rides: what each ride is, as last drawn
    opened,   \* OPS.selected
    rings,  \* ringingFor, the ride it rings for
    alerted,  \* OPS.alerted
    owned,    \* OPS.owned
    deed,     \* OPS.busy: the deed under way
    polls,    \* refreshes under way
    stray     \* history: the ring began when a refresh was answered after leave()

opsBoardVars ==
    <<page, queue, opened, rings, alerted, owned, deed, polls, stray>>

-------------------------------------------------------------------------------
(* Types *)

\* "waiting": AUTO_HEALTHY or NEEDS_ATTENTION; "mine": OPERATIONS_CONTROL of this
\* dispatcher; "other": of another, assigned, or no longer in the queue.
Queues == [Watched -> {"waiting", "mine", "other"}]
Actionable(q) == {r \in Watched : q[r] = "waiting"}
Leased(q) == {r \in Watched : q[r] = "mine"}
Undertaking == {"takeover", "release", "releaseDriver", "assign"}
NoDeed == [does |-> "nothing", on |-> NoWatch, at |-> "idle"]

OpsBoardTypeOK ==
    /\ page \in [active : BOOLEAN, primed : BOOLEAN] /\ queue \in Queues
    /\ opened \in Watched \cup {NoWatch} /\ rings \in Watched \cup {NoWatch}
    /\ alerted \subseteq Watched /\ owned \subseteq Watched
    /\ deed \in {NoDeed} \cup [does : Undertaking, on : Watched,
                             at : {"sent", "taken", "reading", "listing"}]
    /\ polls \in 0..MaxPolls /\ stray \in BOOLEAN

OpsBoardInit ==
    /\ page = [active |-> FALSE, primed |-> FALSE]
    /\ queue = [r \in Watched |-> "other"] /\ opened = NoWatch /\ rings = NoWatch
    /\ alerted = {} /\ owned = {} /\ deed = NoDeed /\ polls = 0 /\ stray = FALSE

-------------------------------------------------------------------------------
(* refresh() and evaluateRing() *)

\* What was rung for is handled, gone, or the ride now open.
StopsRing(q) == rings # NoWatch /\ (rings \notin Actionable(q) \/ rings = opened)

\* A plausible bug: what was ringing is not looked at again.
EvaluateRingOn(q) ==
    LET fresh == Actionable(q) \ alerted
    IN IF ~page.primed
       THEN /\ alerted' = alerted \cup Actionable(q)
            /\ page' = [page EXCEPT !.primed = TRUE] /\ UNCHANGED rings
       ELSE /\ UNCHANGED page
            /\ IF fresh = {}
               THEN UNCHANGED <<rings, alerted>>
               ELSE \E r \in fresh :
                       /\ alerted' = alerted \cup {r}
                       /\ rings' = IF opened = r THEN rings ELSE r

\* The first queue of a session is backlog; after it one fresh ride is alerted
\* for, aloud unless it is open.
EvaluateRing(q) ==
    LET fresh == Actionable(q) \ alerted
        quiet == IF StopsRing(q) THEN NoWatch ELSE rings
    IN IF ~page.primed
       THEN /\ alerted' = alerted \cup Actionable(q)
            /\ page' = [page EXCEPT !.primed = TRUE] /\ UNCHANGED rings
       ELSE /\ UNCHANGED page
            /\ IF fresh = {}
               THEN rings' = quiet /\ UNCHANGED alerted
               ELSE \E r \in fresh :
                       /\ alerted' \in {alerted \cup {r}, {}}   \* {}: more than 500
                       /\ rings' = IF opened = r THEN quiet ELSE r

\* The answer; leases the board does not show as mine are given up.
Drawn ==
    /\ queue' \in Queues /\ owned' = Leased(queue')
    /\ EvaluateRing(queue') /\ UNCHANGED opened
    /\ stray' = (rings' # NoWatch /\ (stray \/ ~page.active))

\* A failed poll leaves the last board up.
NotDrawn == UNCHANGED <<page, queue, opened, rings, alerted, owned, stray>>

\* refresh() does nothing once the page was left.
Refresh == polls' = IF page.active /\ polls < MaxPolls THEN polls + 1 ELSE polls

PollFires ==
    /\ page.active /\ polls < MaxPolls /\ Refresh
    /\ UNCHANGED <<page, queue, opened, rings, alerted, owned, deed, stray>>

PollAnswered ==
    /\ polls > 0 /\ polls' = polls - 1
    /\ Drawn \/ NotDrawn
    /\ UNCHANGED deed

-------------------------------------------------------------------------------
(* The dispatcher *)

RingsOn(r) == rings' = r /\ stray' = (stray /\ r # NoWatch)
Opens(r) == opened' = r /\ RingsOn(IF rings = r THEN NoWatch ELSE rings)

\* onClick on a card, or a card's close button.
OpensCard(r) ==
    /\ page.active /\ Opens(r)
    /\ UNCHANGED <<page, queue, alerted, owned, deed, polls>>

ClosesCard ==
    /\ page.active /\ opened' = NoWatch
    /\ UNCHANGED <<page, queue, rings, alerted, owned, deed, polls, stray>>

Silences ==
    /\ page.active /\ RingsOn(NoWatch)
    /\ UNCHANGED <<page, queue, opened, alerted, owned, deed, polls>>

\* enter(), from the gate or from a notification's link.
Enters ==
    /\ ~page.active /\ polls < MaxPolls
    /\ page' = [active |-> TRUE, primed |-> FALSE] /\ polls' = polls + 1
    /\ UNCHANGED <<queue, opened, rings, alerted, owned, deed, stray>>

\* openRide(), which enters a closed page first: each of the two refreshes.
OpensNotice(r) ==
    /\ polls' = polls + (IF page.active THEN 1 ELSE 2) /\ polls' <= MaxPolls
    /\ Opens(r)
    /\ page' = IF page.active THEN page ELSE [active |-> TRUE, primed |-> FALSE]
    /\ UNCHANGED <<queue, alerted, owned, deed>>

LeavesPage ==
    /\ page.active /\ page' = [page EXCEPT !.active = FALSE] /\ RingsOn(NoWatch)
    /\ UNCHANGED <<queue, opened, alerted, owned, deed, polls>>

\* renewLeases(): a lease the server says is gone is no longer renewed.
RenewRefused(r) ==
    /\ r \in owned /\ owned' = owned \ {r}
    /\ UNCHANGED <<page, queue, opened, rings, alerted, deed, polls, stray>>

\* Takeover, hand-back, reassignment and assignment of the ride that is open.
Undertakes(d) ==
    /\ page.active /\ deed = NoDeed /\ opened # NoWatch
    /\ deed' = [does |-> d, on |-> opened, at |-> "sent"]
    /\ UNCHANGED <<page, queue, opened, rings, alerted, owned, polls, stray>>

\* releaseDriver takes control first when it does not hold it.
TakenFirst ==
    /\ deed.does = "releaseDriver" /\ deed.at = "sent" /\ queue[deed.on] # "mine"
    /\ deed' = [deed EXCEPT !.at = "taken"] /\ owned' = owned \cup {deed.on}
    /\ UNCHANGED <<page, queue, opened, rings, alerted, polls, stray>>

\* The deed is done: its trace on the page, then the refresh it waits for.
Holds(r) == CASE deed.does = "takeover" -> owned \cup {r}
              [] deed.does \in {"release", "assign"} -> owned \ {r}
              [] OTHER -> owned
Awaits(at) == deed' = IF page.active THEN [deed EXCEPT !.at = at] ELSE NoDeed

DeedDone ==
    /\ deed.at \in {"sent", "taken"}
    /\ owned' = Holds(deed.on) /\ Awaits("reading")
    /\ opened' = (IF deed.does = "assign" THEN NoWatch ELSE opened)
    /\ UNCHANGED <<page, queue, rings, alerted, polls, stray>>

\* Refused or unreachable: a refused assignment reloads the drivers instead.
DeedRefused ==
    /\ deed.at \in {"sent", "taken"}
    /\ IF deed.does = "assign"
       THEN deed' = [deed EXCEPT !.at = "listing"] ELSE Awaits("reading")
    /\ UNCHANGED <<page, queue, opened, rings, alerted, owned, polls, stray>>

DeedReads ==
    /\ deed.at = "reading" /\ (Drawn \/ NotDrawn)
    /\ deed' \in {NoDeed} \cup
          (IF deed.does = "releaseDriver" THEN {[deed EXCEPT !.at = "listing"]} ELSE {})
    /\ UNCHANGED polls

DeedLists ==
    /\ deed.at = "listing" /\ deed' = NoDeed
    /\ UNCHANGED <<page, queue, opened, rings, alerted, owned, polls, stray>>

OpsBoardNext ==
    \/ \E r \in Watched : OpensCard(r) \/ OpensNotice(r) \/ RenewRefused(r)
    \/ \E d \in Undertaking : Undertakes(d)
    \/ PollFires \/ PollAnswered \/ ClosesCard \/ Silences \/ Enters \/ LeavesPage
    \/ TakenFirst \/ DeedDone \/ DeedRefused \/ DeedReads \/ DeedLists

OpsBoardSpec == OpsBoardInit /\ [][OpsBoardNext]_opsBoardVars

-------------------------------------------------------------------------------
(* Properties *)

\* The phone rings for a request that the board it shows still wants answered
\* and that is not the one open, and not with the page closed (operations.js:
\* 223-250), unless the ring began with an answer that came after leaving.
RingsForAWaitingRequest ==
    rings # NoWatch /\ ~stray =>
        page.active /\ queue[rings] = "waiting" /\ rings # opened
===============================================================================
