------------------------------ MODULE ParkRoster -------------------------------
(***************************************************************************)
(* One park's queue of drivers and where each driver is recorded to be     *)
(* (services/park_roster_service.ts, repositories/park_roster_repository   *)
(* .ts, services/driver_presence_service.ts, and the geofence that reports *)
(* for the driver's phone, services/park_auto_presence_service.ts).        *)
(*                                                                         *)
(* A clerk is one request of a dispatcher, an administrator or the park    *)
(* dispatch that is in flight: it reads the membership, saves the whole    *)
(* row, then closes the gaps of the queue and states the presence, with    *)
(* the requests of others in between.  The other park that a driver may    *)
(* be rostered at is outside the model: a presence is here, or it is not.  *)
(***************************************************************************)
EXTENDS Naturals, FiniteSets, Sequences, SequencesExt

CONSTANTS
    Queuers,    \* drivers on the park's roster
    Clerks,     \* requests that may be in flight together
    MaxOps      \* bound: requests and evaluations in all

ASSUME RosterAssumption == IsFiniteSet(Queuers) /\ MaxOps \in Nat

VARIABLES
    roster,     \* roster[d]: d's membership row
    presence,   \* presence[d]: d's driver_presence row
    clerk,      \* clerk[c]: the request in flight, and what it has read
    geofence,   \* geofence[d]: the presence an evaluation of d's heartbeat read
    ops,        \* requests and evaluations so far (bound)
    disturbed,  \* two requests were in flight together, or one failed (history)
    overtaken   \* drivers another spoke of while they were evaluated (history)

rosterVars == <<roster, presence, clerk, geofence, ops, disturbed, overtaken>>

-------------------------------------------------------------------------------
(* Types *)

\* queuePosition, 0 for null.
Membership == [status : {"ACTIVE", "SUSPENDED", "REMOVED"},
               position : 0..(Cardinality(Queuers) + MaxOps)]

PresenceState == {"OFFLINE", "ONLINE", "AT_PARK", "WAITING", "ASSIGNED", "UNAVAILABLE"}
Present == [state : PresenceState, here : BOOLEAN,
            source : {"DISPATCHER", "SYSTEM", "DRIVER_APP"}]

RowOp == {"join", "leave", "assign", "skip", "remove", "suspend", "reinstate"}

\* A clerk between two awaits: `at` names the call it makes next, `row` is the
\* membership it read, `order` the queue.
AtCounter == [op : RowOp \cup {"reorder"}, driver : Queuers,
              at : {"max", "save", "queue", "reorder", "arrive", "present"},
              row : Membership, order : UNION {SetToSeqs(D) : D \in SUBSET Queuers}]
NoClerk == [op |-> "none"]
NoReading == [state |-> "none"]

RosterTypeOK ==
    /\ roster \in [Queuers -> Membership]
    /\ presence \in [Queuers -> Present]
    /\ \A c \in Clerks : clerk[c] \in AtCounter \cup {NoClerk}
    /\ \A d \in Queuers : geofence[d] \in Present \cup {NoReading}
    /\ ops \in 0..MaxOps
    /\ disturbed \in BOOLEAN
    /\ overtaken \subseteq Queuers

Queued == {d \in Queuers : roster[d].position # 0}

\* The queue may stand in any order to begin with; those in it are waiting.
RosterInit ==
    /\ \E D \in SUBSET Queuers : \E order \in SetToSeqs(D) :
          /\ roster = [d \in Queuers |-> [status |-> "ACTIVE",
                position |-> IF d \in D THEN CHOOSE i \in DOMAIN order : order[i] = d
                                        ELSE 0]]
          /\ presence \in [Queuers -> Present]
          /\ \A d \in Queuers :
                presence[d] = IF d \in D
                    THEN [state |-> "WAITING", here |-> TRUE, source |-> "DISPATCHER"]
                    ELSE [state |-> "OFFLINE", here |-> FALSE, source |-> "SYSTEM"]
    /\ clerk = [c \in Clerks |-> NoClerk]
    /\ geofence = [d \in Queuers |-> NoReading]
    /\ ops = 0
    /\ disturbed = FALSE
    /\ overtaken = {}

-------------------------------------------------------------------------------
(* Presence *)

\* ALLOWED, for the states this module tells apart.
AllowedFrom == [
    OFFLINE     |-> {"ONLINE", "AT_PARK", "UNAVAILABLE"},
    ONLINE      |-> {"OFFLINE", "AT_PARK", "WAITING", "ASSIGNED", "UNAVAILABLE"},
    AT_PARK     |-> {"WAITING", "ONLINE", "OFFLINE", "UNAVAILABLE", "ASSIGNED"},
    WAITING     |-> {"ASSIGNED", "AT_PARK", "ONLINE", "OFFLINE", "UNAVAILABLE"},
    ASSIGNED    |-> {"WAITING", "AT_PARK", "ONLINE", "OFFLINE", "UNAVAILABLE"},
    UNAVAILABLE |-> {"ONLINE", "AT_PARK", "WAITING", "OFFLINE"}]

canTransition(from, to) == from = to \/ to \in AllowedFrom[from]

\* setState without force: an illegal change throws and writes nothing; a
\* restated one only marks the row as heard from.
setState(d, to, source) ==
    LET here == to \notin {"OFFLINE", "ONLINE"} IN
    presence' = IF /\ canTransition(presence[d].state, to)
                   /\ presence[d].state # to \/ presence[d].here # here
                THEN [presence EXCEPT ![d] =
                         [state |-> to, here |-> here, source |-> source]]
                ELSE presence

\* Somebody other than d's phone speaks of d.
SpeaksOf(d) ==
    overtaken' = IF geofence[d] # NoReading THEN overtaken \cup {d} ELSE overtaken

-------------------------------------------------------------------------------
(* The queue *)

Idling(c) == clerk[c] = NoClerk
Busy == {c \in Clerks : ~Idling(c)}

\* Mutant: a driver who joins shares the last one's place.
BesideTheLast ==
    CHOOSE p \in {0} \cup {roster[d].position : d \in Queuers} :
        \A d \in Queuers : roster[d].position <= p

BehindTheLast ==
    1 + (CHOOSE p \in {0} \cup {roster[d].position : d \in Queuers} :
            \A d \in Queuers : roster[d].position <= p)

\* findQueue: the active members that hold a position, in its order.
QueueOrders ==
    {s \in SetToSeqs({d \in Queued : roster[d].status = "ACTIVE"}) :
        \A i, j \in DOMAIN s :
            i < j => roster[s[i]].position <= roster[s[j]].position}

\* What op makes of the row it read, before it saves all of it.
Edited(op, row) ==
    CASE op \in {"leave", "assign"} -> [row EXCEPT !.position = 0]
      [] op = "remove"    -> [row EXCEPT !.status = "REMOVED", !.position = 0]
      [] op = "suspend"   -> [row EXCEPT !.status = "SUSPENDED", !.position = 0]
      [] op = "reinstate" -> [row EXCEPT !.status = "ACTIVE"]
      [] OTHER -> row

\* requireMembership and the guards that follow it.
Accepts(op, row) ==
    CASE op = "join" -> row.status = "ACTIVE" /\ row.position = 0
      [] op \in {"leave", "assign"} -> row.position # 0
      [] OTHER -> TRUE

TakesUp(c, op, d) ==
    /\ Idling(c) /\ ops < MaxOps
    /\ roster[d].status # "REMOVED"
    /\ Accepts(op, roster[d])
    /\ clerk' = [clerk EXCEPT ![c] =
          [op |-> op, driver |-> d, row |-> roster[d], order |-> <<>>,
           at |-> IF op = "join" THEN "max" ELSE "save"]]
    /\ ops' = ops + 1
    /\ disturbed' = (disturbed \/ Busy # {})
    /\ UNCHANGED <<roster, presence, geofence, overtaken>>

ReadsMax(c) ==
    /\ ~Idling(c) /\ clerk[c].at = "max"
    /\ clerk' = [clerk EXCEPT ![c].row.position = BehindTheLast, ![c].at = "save"]
    /\ UNCHANGED <<roster, presence, geofence, ops, disturbed, overtaken>>

\* The whole row is written back, with whatever it said when it was read.
SavesRow(c) ==
    LET task == clerk[c] IN
    /\ ~Idling(c) /\ task.at = "save"
    /\ roster' = [roster EXCEPT ![task.driver] = Edited(task.op, task.row)]
    /\ clerk' = [clerk EXCEPT ![c] =
          IF task.op = "join" THEN [task EXCEPT !.at = "arrive"]
          ELSE IF task.op \in {"skip", "reinstate"} THEN NoClerk
          ELSE [task EXCEPT !.at = "queue"]]
    /\ UNCHANGED <<presence, geofence, ops, disturbed, overtaken>>

\* compactQueue reads the queue and writes its order back; a dispatcher's new
\* order is checked against the queue first.
ReadsQueue(c) ==
    /\ ~Idling(c) /\ clerk[c].at = "queue"
    /\ \E order \in QueueOrders :
          clerk' = [clerk EXCEPT ![c].order = order, ![c].at = "reorder"]
    /\ UNCHANGED <<roster, presence, geofence, ops, disturbed, overtaken>>

AsksOrder(c, d) ==
    /\ Idling(c) /\ ops < MaxOps
    /\ \E order \in SetToSeqs({e \in Queued : roster[e].status = "ACTIVE"}) :
          clerk' = [clerk EXCEPT ![c] =
             [op |-> "reorder", driver |-> d, row |-> roster[d], order |-> order,
              at |-> "reorder"]]
    /\ ops' = ops + 1
    /\ disturbed' = (disturbed \/ Busy # {})
    /\ UNCHANGED <<roster, presence, geofence, overtaken>>

\* One transaction: every position of the park is cleared, the list numbered.
reorderQueue(c) ==
    LET task == clerk[c] IN
    /\ ~Idling(c) /\ task.at = "reorder"
    /\ roster' = [d \in Queuers |-> [roster[d] EXCEPT !.position =
          IF d \in ToSet(task.order) THEN CHOOSE i \in DOMAIN task.order : task.order[i] = d
          ELSE 0]]
    /\ clerk' = [clerk EXCEPT ![c] = IF task.op \in {"leave", "assign"}
          THEN [task EXCEPT !.at = "present"] ELSE NoClerk]
    /\ UNCHANGED <<presence, geofence, ops, disturbed, overtaken>>

\* joinQueue's arrival, needed only where WAITING cannot be reached directly.
Arrives(c) ==
    LET d == clerk[c].driver IN
    /\ ~Idling(c) /\ clerk[c].at = "arrive"
    /\ IF canTransition(presence[d].state, "WAITING")
       THEN UNCHANGED <<presence, overtaken>>
       ELSE setState(d, "AT_PARK", "DISPATCHER") /\ SpeaksOf(d)
    /\ clerk' = [clerk EXCEPT ![c].at = "present"]
    /\ UNCHANGED <<roster, geofence, ops, disturbed>>

\* joinQueue waits, leaveQueue stays at the park, an assignment leaves the
\* queue and then is assigned.
Presents(c) ==
    LET task == clerk[c] IN
    /\ ~Idling(c) /\ task.at = "present"
    /\ CASE task.op = "join"  -> setState(task.driver, "WAITING", "DISPATCHER")
         [] task.op = "leave" -> setState(task.driver, "AT_PARK", "DISPATCHER")
         [] OTHER             -> setState(task.driver, "ASSIGNED", "SYSTEM")
    /\ SpeaksOf(task.driver)
    /\ clerk' = [clerk EXCEPT ![c] = NoClerk]
    /\ UNCHANGED <<roster, geofence, ops, disturbed>>

\* A query fails: what the request had still to do is not done.
ClerkFails(c) ==
    /\ ~Idling(c)
    /\ clerk' = [clerk EXCEPT ![c] = NoClerk]
    /\ disturbed' = TRUE
    /\ UNCHANGED <<roster, presence, geofence, ops, overtaken>>

\* A driver declines a park offer and goes back to waiting.
DeclineReturns(d) ==
    /\ ops < MaxOps /\ presence[d].state = "ASSIGNED"
    /\ setState(d, "WAITING", "SYSTEM")
    /\ SpeaksOf(d)
    /\ ops' = ops + 1
    /\ UNCHANGED <<roster, clerk, geofence, disturbed>>

\* POST /dispatcher/presence.
DispatcherStates(d, to) ==
    /\ ops < MaxOps
    /\ setState(d, to, "DISPATCHER")
    /\ SpeaksOf(d)
    /\ ops' = ops + 1
    /\ UNCHANGED <<roster, clerk, geofence, disturbed>>

-------------------------------------------------------------------------------
(* The driver's phone *)

\* Mutant: the phone moves a driver whoever put them there.
AdjustsAnyone(reading) == TRUE

mayAdjust(reading) == reading.source \in {"SYSTEM", "DRIVER_APP"}

\* onHeartbeat past its throttle: the presence is read ...
BeginsEvaluation(d) ==
    /\ ops < MaxOps /\ geofence[d] = NoReading
    /\ roster[d].status = "ACTIVE"
    /\ geofence' = [geofence EXCEPT ![d] = presence[d]]
    /\ overtaken' = overtaken \ {d}
    /\ ops' = ops + 1
    /\ UNCHANGED <<roster, presence, clerk, disturbed>>

\* ... and markPresent or markGone decides by it, on a row read afresh.
Evaluates(d, inside) ==
    LET reading == geofence[d]
        standing == reading.here /\ reading.state \in {"AT_PARK", "WAITING"}
    IN
    /\ reading # NoReading
    /\ geofence' = [geofence EXCEPT ![d] = NoReading]
    /\ CASE inside /\ ~standing /\ reading.state \in {"OFFLINE", "ONLINE"}
                   /\ mayAdjust(reading)
              -> setState(d, "AT_PARK", "DRIVER_APP")
         [] ~inside /\ standing /\ mayAdjust(reading)
              -> setState(d, "ONLINE", "DRIVER_APP")
         [] OTHER -> UNCHANGED presence
    /\ UNCHANGED <<roster, clerk, ops, disturbed, overtaken>>

-------------------------------------------------------------------------------

RosterNext ==
    \/ \E c \in Clerks :
          \/ ReadsMax(c) \/ SavesRow(c) \/ ReadsQueue(c) \/ reorderQueue(c)
          \/ Arrives(c) \/ Presents(c) \/ ClerkFails(c)
          \/ \E d \in Queuers : AsksOrder(c, d)
          \/ \E d \in Queuers, op \in RowOp : TakesUp(c, op, d)
    \/ \E d \in Queuers :
          \/ DeclineReturns(d) \/ BeginsEvaluation(d)
          \/ \E inside \in BOOLEAN : Evaluates(d, inside)
          \/ \E to \in PresenceState : DispatcherStates(d, to)

RosterSpec == RosterInit /\ [][RosterNext]_rosterVars

-------------------------------------------------------------------------------
(* Properties *)

\* Between requests the queue is 1..n without a gap or a shared place, and only
\* active members stand in it, as long as no two requests were in flight
\* together and none failed half-way (park_roster_repository.ts:274).
QueueInOrder ==
    ~disturbed /\ Busy = {} =>
        /\ {roster[d].position : d \in Queued} = 1..Cardinality(Queued)
        /\ \A d \in Queued : roster[d].status = "ACTIVE"

\* A state a dispatcher put there is theirs: the phone never moves a driver out
\* of it, unless it was put there while the heartbeat was being evaluated
\* (park_auto_presence_service.ts:181).
DispatchersWordStands ==
    [][\A d \in Queuers :
          /\ presence'[d] # presence[d]
          /\ presence'[d].source = "DRIVER_APP"
          /\ presence[d].source = "DISPATCHER"
          => d \in overtaken]_rosterVars
===============================================================================
