----------------------------- MODULE DriverIntent ------------------------------
(***************************************************************************)
(* Whether a driver is working, and the knock on the phone of one who has  *)
(* gone quiet (services/driver_intent_service.ts, driver_wake_service.ts,  *)
(* driver_candidate_service.ts, the availability keys of                   *)
(* dispatch_service.ts, and the handlers of socket_handler.ts, driver_     *)
(* routes.ts and admin_routes.ts that feed them).                          *)
(*                                                                         *)
(* The intent is a row nothing but a person ends; the availability is a    *)
(* Redis key that lives 45 seconds after each beat.  A handler is one call *)
(* on some node: its steps are the stretches between awaits.               *)
(***************************************************************************)
EXTENDS Naturals, FiniteSets

CONSTANTS
    Riders,     \* drivers
    Beats,      \* beats in flight at once
    Knocks,     \* dispatch rounds knocking at once
    UnreachableAfter,   \* UNREACHABLE_AFTER_FAILED_WAKES
    MaxToggles  \* bound: changes of mind

ASSUME IntentAssumption == MaxToggles \in Nat /\ UnreachableAfter \in Nat

VARIABLES
    intent,     \* intent[d]: the driver_presence_intents row
    available,  \* drivers whose driver:available key exists
    tombstone,  \* drivers whose driver:offline key exists
    missed,     \* missed[d]: failedWakeCount
    beat,       \* beat[b]: a heartbeat in its handler
    leaving,    \* drivers whose setOffline has saved and not yet cleared Redis
    knock,      \* knock[k]: a wake in its function
    cooldown,   \* drivers whose driver:wake key exists
    toggles     \* changes of mind so far (bound)

intentVars == <<intent, available, tombstone, missed, beat, leaving, knock,
                cooldown, toggles>>

-------------------------------------------------------------------------------
(* Types *)

Intent == [state : {"NONE", "ONLINE", "OFFLINE"},
           setBy : {"DRIVER", "ADMIN", "LOGOUT", "SYSTEM"},
           recent : BOOLEAN]      \* since is within the last 60 seconds

NeverSeen == [state |-> "NONE", setBy |-> "SYSTEM", recent |-> FALSE]
NoBeat == [at |-> "off"]
\* sentBefore: the driver left after the phone sent it; read: the row as the
\* handler read it; excused: it read the row before the driver left, or a
\* minute has passed since they did.
BeatInFlight == [at : {"sent", "located", "read"}, driver : Riders,
                 sentBefore : BOOLEAN, read : Intent, excused : BOOLEAN]

NoKnock == [at |-> "off"]
KnockInFlight == [at : {"claim", "send", "wait"}, driver : Riders]

IntentTypeOK ==
    /\ intent \in [Riders -> Intent]
    /\ available \subseteq Riders /\ tombstone \subseteq Riders
    /\ missed \in [Riders -> 0..UnreachableAfter]
    /\ beat \in [Beats -> BeatInFlight \cup {NoBeat}]
    /\ leaving \subseteq Riders
    /\ knock \in [Knocks -> KnockInFlight \cup {NoKnock}]
    /\ cooldown \subseteq Riders
    /\ toggles \in 0..MaxToggles

IntentInit ==
    /\ intent = [d \in Riders |-> NeverSeen]
    /\ available = {} /\ tombstone = {} /\ leaving = {}
    /\ missed = [d \in Riders |-> 0]
    /\ beat = [b \in Beats |-> NoBeat]
    /\ knock = [k \in Knocks |-> NoKnock]
    /\ cooldown = {}
    /\ toggles = 0

-------------------------------------------------------------------------------
(* The driver's word *)

Declared(state, by) == [state |-> state, setBy |-> by, recent |-> TRUE]

\* setOnline: a driver already ONLINE is left as they are.
setOnline(d, by) ==
    /\ by \in {"DRIVER", "ADMIN"} /\ toggles < MaxToggles
    /\ IF intent[d].state = "ONLINE" THEN UNCHANGED <<intent, missed,
                                                      tombstone>>
       ELSE /\ intent' = [intent EXCEPT ![d] = Declared("ONLINE", by)]
            /\ missed' = [missed EXCEPT ![d] = 0]
            /\ tombstone' = tombstone \ {d}
    /\ toggles' = toggles + 1
    /\ UNCHANGED <<available, beat, leaving, knock, cooldown>>

\* setOffline saves the row; every beat the phone has sent is now an old one ...
setOffline(d, by) ==
    /\ by \in {"DRIVER", "ADMIN", "LOGOUT"} /\ toggles < MaxToggles
    /\ intent' = [intent EXCEPT ![d] = Declared("OFFLINE", by)]
    /\ missed' = [missed EXCEPT ![d] = 0]
    /\ leaving' = leaving \cup {d}
    /\ beat' = [b \in Beats |->
          IF beat[b] # NoBeat /\ beat[b].driver = d
          THEN [beat[b] EXCEPT !.sentBefore = TRUE, !.excused = (beat[b].at = "read")]
          ELSE beat[b]]
    /\ toggles' = toggles + 1
    /\ UNCHANGED <<available, tombstone, knock, cooldown>>

\* ... then takes them out of the live index.
removeDriverAvailability(d) ==
    /\ d \in leaving
    /\ leaving' = leaving \ {d}
    /\ available' = available \ {d}
    /\ tombstone' = tombstone \cup {d}
    /\ UNCHANGED <<intent, missed, beat, knock, cooldown, toggles>>

-------------------------------------------------------------------------------
(* A heartbeat *)

PhoneBeats(b, d) ==
    /\ beat[b] = NoBeat
    /\ beat' = [beat EXCEPT ![b] = [at |-> "sent", driver |-> d, sentBefore |-> FALSE,
                                    read |-> NeverSeen, excused |-> FALSE]]
    /\ UNCHANGED <<intent, available, tombstone, missed, leaving, knock,
                   cooldown, toggles>>

\* updateDriverLocation, or the refusal of a driver not approved, who is taken
\* out of the live index over HTTP and merely told over the socket.
updateDriverLocation(b) ==
    /\ beat[b] # NoBeat /\ beat[b].at = "sent"
    /\ LET d == beat[b].driver IN
       \/ /\ available' = available \cup {d}
          /\ tombstone' = tombstone \ {d}
          /\ beat' = [beat EXCEPT ![b].at = "located"]
       \/ /\ available' = available \ {d}
          /\ tombstone' = tombstone \cup {d}
          /\ beat' = [beat EXCEPT ![b] = NoBeat]
       \/ /\ beat' = [beat EXCEPT ![b] = NoBeat]
          /\ UNCHANGED <<available, tombstone>>
    /\ UNCHANGED <<intent, missed, leaving, knock, cooldown, toggles>>

recordHeartbeat(b) ==
    /\ beat[b] # NoBeat /\ beat[b].at = "located"
    /\ beat' = [beat EXCEPT ![b].at = "read", ![b].read = intent[beat[b].driver]]
    /\ UNCHANGED <<intent, available, tombstone, missed, leaving, knock,
                   cooldown, toggles>>

\* Mutant: a logout is not taken for a deliberate OFFLINE.
DiscardsNotLogout(read) ==
    /\ read.state = "OFFLINE" /\ read.recent
    /\ read.setBy \in {"DRIVER", "ADMIN"}

\* A deliberate OFFLINE of the last minute wins over the beat.
Discards(read) ==
    /\ read.state = "OFFLINE" /\ read.recent
    /\ read.setBy \in {"DRIVER", "ADMIN", "LOGOUT"}

\* Anything else is the driver working; one ONLINE already has only answered.
BeatDeclares(b) ==
    LET d == beat[b].driver IN
    /\ beat[b] # NoBeat /\ beat[b].at = "read"
    /\ beat' = [beat EXCEPT ![b] = NoBeat]
    /\ CASE Discards(beat[b].read) -> UNCHANGED <<intent, missed, tombstone>>
         [] beat[b].read.state = "ONLINE" ->
              /\ missed' = [missed EXCEPT ![d] = 0]
              /\ UNCHANGED <<intent, tombstone>>
         [] OTHER ->
              /\ intent' = [intent EXCEPT ![d] = Declared("ONLINE", "SYSTEM")]
              /\ missed' = [missed EXCEPT ![d] = 0]
              /\ tombstone' = tombstone \ {d}
    /\ UNCHANGED <<available, leaving, knock, cooldown, toggles>>

-------------------------------------------------------------------------------
(* The knock *)

\* reachability of a working driver, as healthOf tells it: only one who is not
\* FRESH is knocked for, the unreachable ones too.
staleOnlineNear == {d \in Riders : intent[d].state = "ONLINE" /\ d \notin available}

\* findFor picks d.  Which knocks may ring aloud (once per driver and ride) is
\* left out.
Knocking(k, d) ==
    /\ knock[k] = NoKnock
    /\ d \in staleOnlineNear
    /\ knock' = [knock EXCEPT ![k] = [at |-> "claim", driver |-> d]]
    /\ UNCHANGED <<intent, available, tombstone, missed, beat, leaving,
                   cooldown, toggles>>

\* The cooldown's SET NX; a second knock only waits for the first one's answer.
ClaimsKnock(k) ==
    LET d == knock[k].driver IN
    /\ knock[k] # NoKnock /\ knock[k].at = "claim"
    /\ knock' = [knock EXCEPT ![k] =
          IF d \in cooldown THEN NoKnock ELSE [knock[k] EXCEPT !.at = "send"]]
    /\ cooldown' = cooldown \cup {d}
    /\ UNCHANGED <<intent, available, tombstone, missed, beat, leaving,
                   toggles>>

OneMore(n) == IF n < UnreachableAfter THEN n + 1 ELSE n

\* The push goes out, or there is no token, no provider, or it is refused.
Pushes(k, accepted) ==
    LET d == knock[k].driver IN
    /\ knock[k] # NoKnock /\ knock[k].at = "send"
    /\ IF accepted
       THEN /\ knock' = [knock EXCEPT ![k].at = "wait"]
            /\ UNCHANGED missed
       ELSE /\ knock' = [knock EXCEPT ![k] = NoKnock]
            /\ missed' = [missed EXCEPT ![d] = OneMore(@)]
    /\ UNCHANGED <<intent, available, tombstone, beat, leaving, cooldown,
                   toggles>>

\* A fresh beat answers within the window, or it does not; recordWakeAttempt.
WakeAnswered(k, answered) ==
    LET d == knock[k].driver IN
    /\ knock[k] # NoKnock /\ knock[k].at = "wait"
    /\ answered => d \in available
    /\ knock' = [knock EXCEPT ![k] = NoKnock]
    /\ missed' = [missed EXCEPT ![d] = IF answered THEN 0 ELSE OneMore(@)]
    /\ UNCHANGED <<intent, available, tombstone, beat, leaving, cooldown,
                   toggles>>

-------------------------------------------------------------------------------
(* Time *)

\* The availability key, or the knock's cooldown, runs out.
AvailabilityLapses(d) ==
    /\ d \in available
    /\ available' = available \ {d}
    /\ UNCHANGED <<intent, tombstone, missed, beat, leaving, knock, cooldown,
                   toggles>>

CooldownEnds(d) ==
    /\ d \in cooldown
    /\ cooldown' = cooldown \ {d}
    /\ UNCHANGED <<intent, available, tombstone, missed, beat, leaving, knock,
                   toggles>>

\* A minute passes since the driver spoke.
MinutePasses(d) ==
    /\ intent[d].recent
    /\ intent' = [intent EXCEPT ![d].recent = FALSE]
    /\ beat' = [b \in Beats |->
          IF beat[b] # NoBeat /\ beat[b].driver = d
          THEN [beat[b] EXCEPT !.excused = TRUE] ELSE beat[b]]
    /\ UNCHANGED <<available, tombstone, missed, leaving, knock, cooldown,
                   toggles>>

-------------------------------------------------------------------------------

IntentNext ==
    \/ \E d \in Riders :
          \/ removeDriverAvailability(d) \/ AvailabilityLapses(d)
          \/ CooldownEnds(d) \/ MinutePasses(d)
          \/ \E by \in {"DRIVER", "ADMIN", "LOGOUT"} : setOnline(d, by) \/ setOffline(d, by)
          \/ \E b \in Beats : PhoneBeats(b, d)
          \/ \E k \in Knocks : Knocking(k, d)
    \/ \E b \in Beats :
          updateDriverLocation(b) \/ recordHeartbeat(b) \/ BeatDeclares(b)
    \/ \E k \in Knocks :
          \/ ClaimsKnock(k)
          \/ \E ok \in BOOLEAN : Pushes(k, ok) \/ WakeAnswered(k, ok)

IntentSpec == IntentInit /\ [][IntentNext]_intentVars

-------------------------------------------------------------------------------
(* Properties *)

\* A beat that was under way when the driver left does not drag them back on,
\* unless it had read their row before they did or took a minute
\* (driver_intent_service.ts:127).
NoDragging ==
    [][\A b \in Beats :
          /\ beat[b] # NoBeat /\ beat[b].sentBefore /\ ~beat[b].excused
          /\ beat'[b] = NoBeat
          => intent' = intent]_intentVars
===============================================================================
