---------------------------- MODULE PassengerSlot ------------------------------
(***************************************************************************)
(* One passenger asking for rides: the Redis slot passenger:active:{p}     *)
(* and the database check that together keep one ride in flight            *)
(* (ride:request in sockets/socket_handler.ts, and the slot operations of  *)
(* services/dispatch_service.ts).  The app makes a fresh ride id for every *)
(* request, so a request is named by its ride.                             *)
(***************************************************************************)
EXTENDS Naturals, FiniteSets

CONSTANTS
    Requests,   \* the passenger's requests, each with its ride id
    NoRequest   \* the slot's key does not exist

ASSUME RequestsAssumption == NoRequest \notin Requests

VARIABLES
    slot,       \* passenger:active:{p}
    slotOld,    \* the slot is older than ORPHAN_SLOT_GRACE_MS
    asked,      \* asked[r]: the await r's handler is suspended before
    seen,       \* seen[r]: the slot's owner r's handler read
    rideRow,    \* rideRow[r]: r's row
    guarded,    \* requests that own the slot since they claimed it, and whose
                \* database check answered (history)
    crashed     \* the process died with a request in flight (history)

slotVars == <<slot, slotOld, asked, seen, rideRow, guarded, crashed>>

-------------------------------------------------------------------------------

AskPoint == {"new", "owner", "judge", "evict", "reclaim", "check", "zone",
             "save", "refuse", "done"}

SlotTypeOK ==
    /\ slot \in Requests \cup {NoRequest}
    /\ slotOld \in BOOLEAN
    /\ asked \in [Requests -> AskPoint]
    /\ seen \in [Requests -> Requests \cup {NoRequest}]
    /\ rideRow \in [Requests -> {"none", "live", "ending", "ended"}]
    /\ guarded \subseteq Requests
    /\ crashed \in BOOLEAN

SlotInit ==
    /\ slot = NoRequest
    /\ slotOld = FALSE
    /\ asked = [r \in Requests |-> "new"]
    /\ seen = [r \in Requests |-> NoRequest]
    /\ rideRow = [r \in Requests |-> "none"]
    /\ guarded = {}
    /\ crashed = FALSE

-------------------------------------------------------------------------------

\* r's handler, suspended before `from`, goes on to `to`.
AskGoes(r, from, to) ==
    /\ asked[r] = from
    /\ asked' = [asked EXCEPT ![r] = to]

\* SET NX: a key that exists is left as it is.
AcquireSlot(r) ==
    /\ slot' = IF slot = NoRequest THEN r ELSE slot
    /\ slotOld' = (slotOld /\ slot # NoRequest)
    /\ guarded' = IF slot = NoRequest THEN guarded \cup {r} ELSE guarded

\* The key is gone, and with it the guard of an unsaved request that held it.
DropSlot ==
    /\ slot' = NoRequest
    /\ slotOld' = FALSE
    /\ guarded' = {r \in guarded : r # slot \/ rideRow[r] # "none"}

\* RELEASE_IF_OWNER.
ReleaseSlot(r) ==
    IF slot = r THEN DropSlot ELSE UNCHANGED <<slot, slotOld, guarded>>

LiveRows == {r \in Requests : rideRow[r] = "live"}

-------------------------------------------------------------------------------
(* ride:request *)

Claim(r) ==
    /\ AskGoes(r, "new", IF slot = NoRequest THEN "check" ELSE "owner")
    /\ AcquireSlot(r)
    /\ UNCHANGED <<seen, rideRow, crashed>>

\* The claim failed: who holds the slot?  Nobody, by now: go on without it.
ReadOwner(r) ==
    /\ AskGoes(r, "owner", IF slot = NoRequest THEN "check" ELSE "judge")
    /\ seen' = [seen EXCEPT ![r] = slot]
    /\ UNCHANGED <<slot, slotOld, rideRow, guarded, crashed>>

\* A live owner, or a young slot whose ride is not saved yet, is a refusal;
\* an ended owner, or an orphan past its grace, loses the slot.
Judge(r) ==
    /\ AskGoes(r, "judge",
          CASE rideRow[seen[r]] = "live" -> "done"
            [] rideRow[seen[r]] = "none" /\ ~slotOld -> "done"
            [] OTHER -> "evict")
    /\ UNCHANGED <<slot, slotOld, seen, rideRow, guarded, crashed>>

\* The forced release deletes whatever holds the slot by now ...
Evict(r) ==
    /\ AskGoes(r, "evict", "reclaim")
    /\ DropSlot
    /\ UNCHANGED <<seen, rideRow, crashed>>

\* ... and the second claim's result is not looked at.
Reclaim(r) ==
    /\ AskGoes(r, "reclaim", "check")
    /\ AcquireSlot(r)
    /\ UNCHANGED <<seen, rideRow, crashed>>

\* Mutant: the slot is trusted, and the check's answer not looked at.
DbCheckIgnored(r, answers) ==
    /\ AskGoes(r, "check", "zone")
    /\ guarded' = IF answers THEN guarded ELSE guarded \ {r}
    /\ UNCHANGED <<slot, slotOld, seen, rideRow, crashed>>

\* The database check refuses beside another live ride; if it throws, the
\* request goes on.
DbCheck(r, answers) ==
    /\ AskGoes(r, "check", IF answers /\ LiveRows # {} THEN "refuse" ELSE "zone")
    /\ guarded' = IF answers THEN guarded ELSE guarded \ {r}
    /\ UNCHANGED <<slot, slotOld, seen, rideRow, crashed>>

\* Mutant: the refused zone returns without the release.
ZoneGateReturns(r, admitted) ==
    /\ AskGoes(r, "zone", IF admitted THEN "save" ELSE "done")
    /\ UNCHANGED <<slot, slotOld, seen, rideRow, guarded, crashed>>

\* The pickup's zone admits the ride, refuses it, or cannot be resolved while
\* the policy fails closed.
ZoneGate(r, admitted) ==
    /\ AskGoes(r, "zone", IF admitted THEN "save" ELSE "refuse")
    /\ UNCHANGED <<slot, slotOld, seen, rideRow, guarded, crashed>>

\* The row is saved, or the save throws.
Save(r, saved) ==
    /\ AskGoes(r, "save", IF saved THEN "done" ELSE "refuse")
    /\ rideRow' = IF saved THEN [rideRow EXCEPT ![r] = "live"] ELSE rideRow
    /\ UNCHANGED <<slot, slotOld, seen, guarded, crashed>>

\* Every refusal past the claim gives the request's own slot back.
Refuse(r) ==
    /\ AskGoes(r, "refuse", "done")
    /\ ReleaseSlot(r)
    /\ UNCHANGED <<seen, rideRow, crashed>>

-------------------------------------------------------------------------------
(* What the rest does to the slot *)

\* settleAndComplete gives the slot back before it writes the final status.
CompletionReleases(r) ==
    /\ rideRow[r] = "live" /\ slot = r
    /\ DropSlot
    /\ UNCHANGED <<asked, seen, rideRow, crashed>>

\* Everywhere else a ride ends by its UPDATE, then the release of its slot.
RideEnds(r) ==
    /\ rideRow[r] = "live"
    /\ rideRow' = [rideRow EXCEPT ![r] = "ending"]
    /\ UNCHANGED <<slot, slotOld, asked, seen, guarded, crashed>>

EndReleases(r) ==
    /\ rideRow[r] = "ending"
    /\ rideRow' = [rideRow EXCEPT ![r] = "ended"]
    /\ ReleaseSlot(r)
    /\ UNCHANGED <<asked, seen, crashed>>

\* Time passes: the slot outgrows its grace, or its TTL.
SlotAges ==
    /\ slot # NoRequest /\ ~slotOld
    /\ slotOld' = TRUE
    /\ UNCHANGED <<slot, asked, seen, rideRow, guarded, crashed>>

SlotExpires ==
    /\ slot # NoRequest /\ slotOld
    /\ DropSlot
    /\ UNCHANGED <<asked, seen, rideRow, crashed>>

\* The process dies: handlers are gone, Redis and the rows stay.
ServerDies ==
    /\ \E r \in Requests : asked[r] \notin {"new", "done"}
    /\ asked' = [r \in Requests |-> IF asked[r] = "new" THEN "new" ELSE "done"]
    /\ rideRow' = [r \in Requests |->
                      IF rideRow[r] = "ending" THEN "ended" ELSE rideRow[r]]
    /\ crashed' = TRUE
    /\ UNCHANGED <<slot, slotOld, seen, guarded>>

SlotNext ==
    \/ \E r \in Requests :
          \/ Claim(r) \/ ReadOwner(r) \/ Judge(r) \/ Evict(r) \/ Reclaim(r)
          \/ Refuse(r) \/ CompletionReleases(r) \/ RideEnds(r) \/ EndReleases(r)
          \/ \E ok \in BOOLEAN : DbCheck(r, ok) \/ ZoneGate(r, ok) \/ Save(r, ok)
    \/ SlotAges \/ SlotExpires \/ ServerDies

SlotSpec == SlotInit /\ [][SlotNext]_slotVars

-------------------------------------------------------------------------------
(* Properties *)

\* Slot and database check together keep one ride in flight: of two live rides
\* one was saved without the slot, or without an answer of the check.
GuardedRideAlone ==
    \A r1, r2 \in guarded : rideRow[r1] = "live" /\ rideRow[r2] = "live" => r1 = r2

\* No refusal locks the passenger out: unless the process died on the way, a
\* slot belongs to a request in flight or to a ride that exists.
NoOrphanSlot ==
    slot # NoRequest /\ ~crashed =>
        asked[slot] \notin {"new", "done"} \/ rideRow[slot] # "none"
===============================================================================
