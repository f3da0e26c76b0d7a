---------------------------- MODULE DispatchRounds ----------------------------
(***************************************************************************)
(* The dispatch run of a searching ride and the soft lock on the drivers   *)
(* it rings (services/dispatch_orchestrator.ts, services/dispatch_service  *)
(* .ts, and the ports and handlers of sockets/socket_handler.ts that feed  *)
(* a run).                                                                 *)
(*                                                                         *)
(* A run walks its rounds; a round discovers drivers, reserves them        *)
(* (SET NX with a TTL), offers to each in turn, and waits.  The run is one *)
(* async function, so its steps are the stretches between two awaits that  *)
(* matter; a rejection, an acceptance, a cancellation, the lifetime timer  *)
(* or a dispatcher may come in between.  The radius tiers of a round       *)
(* repeat the same steps on a wider circle: a tier is one visit of         *)
(* "discover", and MaxTiers bounds them.                                   *)
(***************************************************************************)
EXTENDS Naturals, FiniteSets

CONSTANTS
    SearchRides,    \* rides being searched for
    SearchDrivers,  \* drivers within reach
    NoOwner,        \* the key driver:reserved:{d} does not exist
    MaxRounds,      \* config.maxRounds
    MaxTiers        \* radius tiers of a round

ASSUME RoundsAssumption ==
    /\ NoOwner \notin SearchRides
    /\ MaxRounds \in Nat \ {0}
    /\ MaxTiers \in Nat \ {0}

VARIABLES
    rideState,  \* rideState[r]: ride.status as a run tells it apart
    search,     \* search[r]: r's DispatchRun and where its loop is
    owner,      \* owner[d]: the value of driver:reserved:{d}
    notified,   \* notified[r]: activeDispatches.get(r)
    closing,    \* closing[r]: the handler that has flipped r and not cleaned up
    lapsed      \* drivers whose key went away under a ride (history)

roundsVars == <<rideState, search, owner, notified, closing, lapsed>>

-------------------------------------------------------------------------------
(* Types *)

\* The await a run is suspended before: the gate and discovery of a tier, the
\* SET NX of each candidate, the loop over reserved drivers, building a
\* payload, the push, the offer window, the final release.
RunPoint == {"off", "tier", "reserve", "send", "building", "pushing",
             "waiting", "stopping"}

\* DispatchStopReason: from abort(), from a gate (which calls a cancelled row
\* "cancelled"; nothing tells it from one taken elsewhere), or a rejection.
Abort == {"accepted", "cancelled", "lifetime_exceeded"}
Stop == Abort \cup {"none", "assigned_elsewhere", "operations_control", "threw"}

\* queue: eligible drivers still to reserve; held: reserved, not yet offered;
\* open: openOffers; ringing: the driver an offer is being delivered to;
\* said_no: the explicit rejectors; rung: drivers offered in this round.
SearchRun ==
    [at : RunPoint, round : 0..MaxRounds, tier : 0..MaxTiers, stop : Stop,
     queue : SUBSET SearchDrivers, held : SUBSET SearchDrivers,
     ringing : SUBSET SearchDrivers, open : SUBSET SearchDrivers,
     said_no : SUBSET SearchDrivers, rung : SUBSET SearchDrivers]

NotStarted == [at |-> "off", round |-> 0, tier |-> 0, stop |-> "none",
               queue |-> {}, held |-> {}, ringing |-> {}, open |-> {},
               said_no |-> {}, rung |-> {}]

RoundsTypeOK ==
    /\ rideState \in [SearchRides -> {"none", "searching", "controlled", "taken", "ended"}]
    /\ search \in [SearchRides -> SearchRun]
    /\ owner \in [SearchDrivers -> SearchRides \cup {NoOwner}]
    /\ notified \in [SearchRides -> SUBSET SearchDrivers]
    /\ closing \in [SearchRides -> {"no", "accept", "cancel", "cancelled"}]
    /\ lapsed \subseteq SearchDrivers

RoundsInit ==
    /\ rideState = [r \in SearchRides |-> "none"]
    /\ search = [r \in SearchRides |-> NotStarted]
    /\ owner = [d \in SearchDrivers |-> NoOwner]
    /\ notified = [r \in SearchRides |-> {}]
    /\ closing = [r \in SearchRides |-> "no"]
    /\ lapsed = {}

-------------------------------------------------------------------------------
(* Helpers *)

Aborted(r) == search[r].stop \in Abort
Running(r) == search[r].at # "off"

\* Mutant: RELEASE_IF_OWNER compares the wrong way round.
ReleasedOfOthers(r, D) ==
    [d \in SearchDrivers |-> IF d \in D /\ owner[d] # r THEN NoOwner ELSE owner[d]]

\* RELEASE_IF_OWNER for each driver of D.
ReleasedOf(r, D) ==
    [d \in SearchDrivers |-> IF d \in D /\ owner[d] = r THEN NoOwner ELSE owner[d]]

At(r, point) == search[r].at = point
Move(r, rec) == search' = [search EXCEPT ![r] = rec]

\* abort(): the first reason wins.
AbortedWith(s, reason) ==
    IF s.at # "off" /\ s.stop = "none" THEN [s EXCEPT !.stop = reason] ELSE s

\* mayContact: never an explicit rejector, never twice in one round.
MayContact(r) == SearchDrivers \ (search[r].said_no \cup search[r].rung)

-------------------------------------------------------------------------------
(* The run *)

\* ride:request saves the row and enters startDispatchLoop.
StartSearch(r) ==
    /\ rideState[r] = "none"
    /\ rideState' = [rideState EXCEPT ![r] = "searching"]
    /\ Move(r, [NotStarted EXCEPT !.at = "tier", !.round = 1, !.tier = 1])
    /\ UNCHANGED <<owner, notified, closing, lapsed>>

\* Mutant: one round too many.
NextTierPast(s) ==
    IF s.stop \in Abort \/ (s.tier = MaxTiers /\ s.round > MaxRounds)
    THEN [s EXCEPT !.at = "stopping"]
    ELSE IF s.tier < MaxTiers
    THEN [s EXCEPT !.at = "tier", !.tier = @ + 1]
    ELSE [s EXCEPT !.at = "tier", !.tier = 1, !.round = @ + 1, !.rung = {}]

\* After the last await of a tier: the next tier, the next round, or the end.
NextTier(s) ==
    IF s.stop \in Abort \/ (s.tier = MaxTiers /\ s.round = MaxRounds)
    THEN [s EXCEPT !.at = "stopping"]
    ELSE IF s.tier < MaxTiers
    THEN [s EXCEPT !.at = "tier", !.tier = @ + 1]
    ELSE [s EXCEPT !.at = "tier", !.tier = 1, !.round = @ + 1, !.rung = {}]

\* canStartRound, at the head of every round and tier, stops the run ...
GateStops(r) ==
    /\ At(r, "tier")
    /\ Aborted(r) \/ rideState[r] # "searching"
    /\ Move(r, [search[r] EXCEPT !.at = "stopping",
          !.stop = IF Aborted(r) THEN @
                   ELSE IF rideState[r] = "controlled" THEN "operations_control"
                   ELSE "assigned_elsewhere"])
    /\ UNCHANGED <<rideState, owner, notified, closing, lapsed>>

\* ... or lets it discover: findNearby, mayContact, filterEligible and
\* filterUnreserved leave any of the contactable drivers whose key is free or
\* this ride's own.
Discover(r) ==
    /\ At(r, "tier")
    /\ ~Aborted(r) /\ rideState[r] = "searching"
    /\ \E D \in SUBSET {d \in MayContact(r) : owner[d] \in {NoOwner, r}} :
          Move(r, IF D = {} THEN NextTier(search[r])
                  ELSE [search[r] EXCEPT !.at = "reserve", !.queue = D])
    /\ UNCHANGED <<rideState, owner, notified, closing, lapsed>>

\* Mutant: the reservation is SET without NX.
ReserveAnyway(r) ==
    /\ At(r, "reserve")
    /\ \E d \in search[r].queue :
          LET s == [search[r] EXCEPT !.queue = @ \ {d}, !.held = @ \cup {d}]
          IN  /\ owner' = [owner EXCEPT ![d] = r]
              /\ Move(r, IF s.queue # {} THEN s ELSE [s EXCEPT !.at = "send"])
    /\ UNCHANGED <<rideState, notified, closing, lapsed>>

\* One candidate: stale by now, or SET NX, which an existing key refuses,
\* this ride's own included.
Reserve(r) ==
    /\ At(r, "reserve")
    /\ \E d \in search[r].queue, fresh \in BOOLEAN :
          LET won  == fresh /\ owner[d] = NoOwner
              s    == [search[r] EXCEPT !.queue = @ \ {d},
                                        !.held = IF won THEN @ \cup {d} ELSE @]
          IN  /\ owner' = IF won THEN [owner EXCEPT ![d] = r] ELSE owner
              /\ Move(r, IF s.queue # {} THEN s
                         ELSE IF s.held = {} THEN NextTier(s)
                         ELSE [s EXCEPT !.at = "send"])
    /\ UNCHANGED <<rideState, notified, closing, lapsed>>

\* The loop over the reserved drivers: the next one, or its end, or the break
\* that leaves the drivers not yet offered reserved.
NextOffer(r) ==
    /\ At(r, "send")
    /\ \/ /\ ~Aborted(r)
          /\ \E d \in search[r].held :
                Move(r, [search[r] EXCEPT !.at = "building", !.held = @ \ {d},
                                          !.ringing = {d}])
       \/ /\ Aborted(r) \/ search[r].held = {}
          /\ Move(r, IF search[r].open # {} /\ ~Aborted(r)
                     THEN [search[r] EXCEPT !.at = "waiting"]
                     ELSE NextTier(search[r]))
    /\ UNCHANGED <<rideState, owner, notified, closing, lapsed>>

\* sendOffer past its payload: the driver is tracked, then the socket rings.
Ring(r) ==
    /\ At(r, "building")
    /\ notified' = [notified EXCEPT ![r] = @ \cup search[r].ringing]
    /\ Move(r, [search[r] EXCEPT !.at = "pushing"])
    /\ UNCHANGED <<rideState, owner, closing, lapsed>>

\* The push returned: delivered, the offer is open.
OfferSent(r) ==
    /\ At(r, "pushing")
    /\ Move(r, [search[r] EXCEPT !.at = "send", !.ringing = {},
                                 !.open = @ \cup search[r].ringing,
                                 !.rung = @ \cup search[r].ringing])
    /\ UNCHANGED <<rideState, owner, notified, closing, lapsed>>

\* Neither transport delivered, or sendOffer threw before it tracked the driver.
OfferFails(r) ==
    /\ search[r].at \in {"building", "pushing"}
    /\ owner' = ReleasedOf(r, search[r].ringing)
    /\ Move(r, [search[r] EXCEPT !.at = "send", !.ringing = {}])
    /\ UNCHANGED <<rideState, notified, closing, lapsed>>

\* The offer window ends, or every open offer was answered, or abort woke it.
WindowCloses(r) ==
    /\ At(r, "waiting")
    /\ IF Aborted(r)
       THEN owner' = owner /\ Move(r, NextTier(search[r]))
       ELSE /\ owner' = ReleasedOf(r, search[r].open)
            /\ Move(r, NextTier([search[r] EXCEPT !.open = {}]))
    /\ UNCHANGED <<rideState, notified, closing, lapsed>>

\* A port rejects outside sendOffer: the run is abandoned where it stands.
RunThrows(r) ==
    /\ search[r].at \in {"tier", "reserve"}
    /\ Move(r, [search[r] EXCEPT !.at = "stopping",
                   !.stop = IF Aborted(r) THEN @ ELSE "threw"])
    /\ UNCHANGED <<rideState, owner, notified, closing, lapsed>>

\* startDispatchLoop after the run: the row nobody took fails unless a park
\* keeps it searching or a stop reason spares it; then what was rung is freed.
FinishRun(r) ==
    /\ At(r, "stopping")
    /\ \/ UNCHANGED rideState
       \/ /\ rideState[r] \in {"searching", "controlled"}
          /\ search[r].stop \notin {"accepted", "assigned_elsewhere",
                                    "operations_control", "threw"}
          /\ rideState' = [rideState EXCEPT ![r] = "ended"]
    /\ owner' = ReleasedOf(r, notified[r])
    /\ notified' = [notified EXCEPT ![r] = {}]
    /\ Move(r, NotStarted)
    /\ UNCHANGED <<closing, lapsed>>

-------------------------------------------------------------------------------
(* What happens to a run *)

\* ride:reject of a driver the offer was shown to, the run still live.
Reject(r, d) ==
    /\ Running(r)
    /\ d \in notified[r]
    /\ d \notin search[r].said_no
    /\ Move(r, [search[r] EXCEPT !.said_no = @ \cup {d}, !.open = @ \ {d}])
    /\ owner' = ReleasedOf(r, {d})
    /\ UNCHANGED <<rideState, notified, closing, lapsed>>

\* ride:accept: the UPDATE that takes the row ...
Take(r, d) ==
    /\ rideState[r] \in {"searching", "controlled"}
    /\ d \in notified[r] \cup search[r].open
    /\ d \notin search[r].said_no
    /\ rideState' = [rideState EXCEPT ![r] = "taken"]
    /\ closing' = [closing EXCEPT ![r] = "accept"]
    /\ UNCHANGED <<search, owner, notified, lapsed>>

\* ... and its tail: the run stops, every driver it rang is freed.
TakeCleans(r) ==
    /\ closing[r] = "accept"
    /\ closing' = [closing EXCEPT ![r] = "no"]
    /\ Move(r, AbortedWith(search[r], "accepted"))
    /\ owner' = ReleasedOf(r, notified[r])
    /\ notified' = [notified EXCEPT ![r] = {}]
    /\ UNCHANGED <<rideState, lapsed>>

\* ride:cancel: the row and the abort, ...
CancelSearch(r) ==
    /\ rideState[r] \in {"searching", "controlled"}
    /\ rideState' = [rideState EXCEPT ![r] = "ended"]
    /\ closing' = [closing EXCEPT ![r] = "cancel"]
    /\ Move(r, AbortedWith(search[r], "cancelled"))
    /\ UNCHANGED <<owner, notified, lapsed>>

\* ... then the reservations, ...
CancelReleases(r) ==
    /\ closing[r] = "cancel"
    /\ closing' = [closing EXCEPT ![r] = "cancelled"]
    /\ owner' = ReleasedOf(r, notified[r])
    /\ UNCHANGED <<rideState, search, notified, lapsed>>

\* ... then, two awaits later, the list the run's own release reads.
CancelForgets(r) ==
    /\ closing[r] = "cancelled"
    /\ closing' = [closing EXCEPT ![r] = "no"]
    /\ notified' = [notified EXCEPT ![r] = {}]
    /\ UNCHANGED <<rideState, search, owner, lapsed>>

\* The ceiling on the whole search.
LifetimeTimer(r) ==
    /\ Running(r) /\ ~Aborted(r)
    /\ Move(r, AbortedWith(search[r], "lifetime_exceeded"))
    /\ UNCHANGED <<rideState, owner, notified, closing, lapsed>>

\* A dispatcher takes control; the next gate sees it.
TakeControl(r) ==
    /\ rideState[r] = "searching"
    /\ rideState' = [rideState EXCEPT ![r] = "controlled"]
    /\ UNCHANGED <<search, owner, notified, closing, lapsed>>

\* The key goes away under its ride: its TTL runs out, or the driver's socket
\* drops and the disconnect handler deletes it whoever owns it.
KeyLapses(d) ==
    /\ owner[d] # NoOwner
    /\ owner' = [owner EXCEPT ![d] = NoOwner]
    /\ lapsed' = lapsed \cup {d}
    /\ UNCHANGED <<rideState, search, notified, closing>>

-------------------------------------------------------------------------------

RunStep(r) ==
    \/ GateStops(r) \/ Discover(r) \/ Reserve(r) \/ NextOffer(r) \/ Ring(r)
    \/ OfferSent(r) \/ OfferFails(r) \/ WindowCloses(r) \/ RunThrows(r)
    \/ FinishRun(r)

RoundsNext ==
    \/ \E r \in SearchRides :
          \/ StartSearch(r) \/ RunStep(r) \/ TakeCleans(r) \/ CancelSearch(r)
          \/ CancelReleases(r) \/ CancelForgets(r) \/ LifetimeTimer(r)
          \/ TakeControl(r)
          \/ \E d \in SearchDrivers : Reject(r, d) \/ Take(r, d)
    \/ \E d \in SearchDrivers : KeyLapses(d)

RoundsSpec == RoundsInit /\ [][RoundsNext]_roundsVars

-------------------------------------------------------------------------------
(* Properties *)

\* A ride whose reservation of d is what entitles it to be ringing d.
RingingNow(r, d) ==
    /\ d \in search[r].open \cup search[r].ringing
    /\ d \notin search[r].said_no
    /\ ~Aborted(r) /\ closing[r] = "no" /\ Running(r)

\* Two searches never ring one driver at the same time, as long as no
\* reservation went away under its ride (dispatch_orchestrator.ts:414).
RungByOne ==
    \A r1, r2 \in SearchRides, d \in SearchDrivers :
        RingingNow(r1, d) /\ RingingNow(r2, d) /\ r1 # r2 => d \in lapsed

\* A search that came to its own end, rather than being stopped from outside
\* or thrown out of, leaves no driver reserved: what it rang it released.
OwnEndFreesDrivers ==
    [][\A r \in SearchRides, d \in SearchDrivers :
          /\ Running(r) /\ ~Running(r)'
          /\ search[r].stop \notin Abort \cup {"threw"}
          => owner'[d] # r]_roundsVars

===============================================================================
