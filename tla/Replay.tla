--------------------------------- MODULE Replay ---------------------------------
(***************************************************************************)
(* IdempotencyService.run (idempotency_service.ts): the requests that      *)
(* carry one idempotency key, in front of an action that must not happen   *)
(* twice (assigning a park's driver).  The key lives in Redis, expires,    *)
(* and may be out of reach.                                                *)
(***************************************************************************)
EXTENDS Naturals, FiniteSets

CONSTANT Calls   \* the requests with this key: the first and its retries

VARIABLES
    call,        \* what each request is doing, and what it answered
    key,         \* "absent", "in_flight", or the stored outcome
    ran,         \* requests whose own run of the action succeeded
    unprotected  \* history: Redis failed, or the key expired, on some request

replayVars == <<call, key, ran, unprotected>>

ReplayTypeOK ==
    /\ call \in [Calls -> {"new", "running", "asking", "succeeded", "failed",
                           "replayed", "in_flight_error"}]
    /\ key \in {"absent", "in_flight", "value"}
    /\ ran \subseteq Calls
    /\ unprotected \in BOOLEAN

ReplayInit ==
    /\ call = [c \in Calls |-> "new"]
    /\ key = "absent"
    /\ ran = {}
    /\ unprotected = FALSE

Turn(c, from, to) == call[c] = from /\ call' = [call EXCEPT ![c] = to]

\* Mutant: the marker is SET without NX.
ClaimMarkerAnyway(c) ==
    /\ Turn(c, "new", "running")
    /\ key' = "in_flight"
    /\ UNCHANGED <<ran, unprotected>>

\* SET NX: the marker is won, or it is somebody's.
ClaimMarker(c) ==
    \/ /\ key = "absent"
       /\ Turn(c, "new", "running")
       /\ key' = "in_flight"
       /\ UNCHANGED <<ran, unprotected>>
    \/ /\ key # "absent"
       /\ Turn(c, "new", "asking")
       /\ UNCHANGED <<key, ran, unprotected>>

\* Redis is down: the request proceeds unprotected.
ClaimUnreachable(c) ==
    /\ Turn(c, "new", "running")
    /\ unprotected' = TRUE
    /\ UNCHANGED <<key, ran>>

\* The stored outcome is replayed; a marker, or a key gone meanwhile, is
\* answered as still in flight.
Answered(c) ==
    /\ Turn(c, "asking", IF key = "value" THEN "replayed" ELSE "in_flight_error")
    /\ UNCHANGED <<key, ran, unprotected>>

\* The action succeeds and its outcome is stored, or the store fails and the
\* marker stays until it expires.
Succeeds(c) ==
    /\ Turn(c, "running", "succeeded")
    /\ key' \in {"value", key}
    /\ ran' = ran \cup {c}
    /\ UNCHANGED unprotected

\* The action fails: the key is deleted, or the delete fails.
Fails(c) ==
    /\ Turn(c, "running", "failed")
    /\ key' \in {"absent", key}
    /\ UNCHANGED <<ran, unprotected>>

KeyExpires ==
    /\ key # "absent"
    /\ key' = "absent"
    /\ unprotected' = TRUE
    /\ UNCHANGED <<call, ran>>

ReplayNext ==
    \/ KeyExpires
    \/ \E c \in Calls :
         ClaimMarker(c) \/ ClaimUnreachable(c) \/ Answered(c) \/ Succeeds(c) \/ Fails(c)

ReplaySpec == ReplayInit /\ [][ReplayNext]_replayVars

\* While the key stands, the action is running or has succeeded in one request
\* at most, so that a retry never assigns twice; and a request that was
\* answered with a stored outcome was answered with one that happened.
RunsOnce ==
    /\ ~unprotected => Cardinality(ran \cup {c \in Calls : call[c] = "running"}) <= 1
    /\ (\E c \in Calls : call[c] = "replayed") => ran # {}
===============================================================================
