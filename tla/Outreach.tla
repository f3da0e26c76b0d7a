-------------------------------- MODULE Outreach --------------------------------
(***************************************************************************)
(* A lifecycle automation: the one message a ride's outcome earns its      *)
(* passenger (lifecycle_automation_service.ts).  A ride event claims a row *)
(* per ride; the workers of the API processes claim due rows and deliver   *)
(* them by push, whose provider does not recognise a repeated message.     *)
(***************************************************************************)
EXTENDS Naturals, FiniteSets

CONSTANTS OutreachRides, Automators, MaxTries

ASSUME OutreachAssumption == MaxTries \in Nat \ {0}

VARIABLES
    dispatch,    \* the row of each ride: its status and attempts
    reach,       \* may the automation reach the passenger now (switch,
                 \* cohort, consent, suppression)
    batch,       \* rows each worker claimed and has still to deliver
    told,        \* what the provider told each worker of its current row
    pushes,      \* messages that reached the passenger, per ride
    answerLost,  \* history: rides one of whose messages arrived unconfirmed
    unrecorded   \* history: rides one of whose messages was confirmed, and its
                 \* row put back in the queue all the same

outreachVars == <<dispatch, reach, batch, told, pushes, answerLost, unrecorded>>

NoRow == [status |-> "none", attempts |-> 0]
NotTold == [ride |-> {}, ok |-> FALSE]

OutreachTypeOK ==
    /\ dispatch \in [OutreachRides ->
           [status : {"none", "queued", "sending", "sent", "skipped", "failed"},
            attempts : 0..MaxTries]]
    /\ reach \in BOOLEAN
    /\ batch \in [Automators -> SUBSET OutreachRides]
    /\ told \in [Automators -> [ride : SUBSET OutreachRides, ok : BOOLEAN]]
    /\ pushes \in [OutreachRides -> 0..MaxTries]
    /\ answerLost \subseteq OutreachRides /\ unrecorded \subseteq OutreachRides

OutreachInit ==
    /\ dispatch = [r \in OutreachRides |-> NoRow]
    /\ reach \in BOOLEAN
    /\ batch = [p \in Automators |-> {}]
    /\ told = [p \in Automators |-> NotTold]
    /\ pushes = [r \in OutreachRides |-> 0]
    /\ answerLost = {} /\ unrecorded = {}

ReachChanges ==
    /\ reach' = ~reach
    /\ UNCHANGED <<dispatch, batch, told, pushes, answerLost, unrecorded>>

\* A ride event, which may be raised again: the unique index keeps the first
\* row.  The row is a skip when the passenger may not be reached.
claimAndQueue(r) ==
    /\ dispatch' = [dispatch EXCEPT ![r] =
           IF @ # NoRow THEN @
           ELSE [status |-> IF reach THEN "queued" ELSE "skipped", attempts |-> 0]]
    /\ UNCHANGED <<reach, batch, told, pushes, answerLost, unrecorded>>

\* The conditional UPDATE that claims due rows for one worker.
Due == {r \in OutreachRides :
          dispatch[r].status = "queued" /\ dispatch[r].attempts < MaxTries}
\* Mutant: a claimed row stays queued.
ClaimedRowQueued(row) == [status |-> "queued", attempts |-> row.attempts + 1]

ClaimedRow(row) == [status |-> "sending", attempts |-> row.attempts + 1]

sendDue(p) ==
    /\ batch[p] = {} /\ told[p] = NotTold
    /\ \E rows \in (SUBSET Due) \ {{}} :
         /\ dispatch' = [r \in OutreachRides |->
                IF r \in rows THEN ClaimedRow(dispatch[r]) ELSE dispatch[r]]
         /\ batch' = [batch EXCEPT ![p] = rows]
    /\ UNCHANGED <<reach, told, pushes, answerLost, unrecorded>>

\* The switch, the cohort and the consent are read again before the send.  A
\* passenger without a device is a skip as well.
Refused(p) == \E r \in batch[p] :
    /\ told[p] = NotTold
    /\ dispatch' = [dispatch EXCEPT ![r].status = "skipped"]
    /\ batch' = [batch EXCEPT ![p] = @ \ {r}]
    /\ UNCHANGED <<reach, told, pushes, answerLost, unrecorded>>

\* The push goes out; the provider's answer may be lost.
deliverPush(p) == \E r \in batch[p], arrived \in BOOLEAN, ok \in BOOLEAN :
    /\ told[p] = NotTold
    /\ reach
    /\ ok => arrived
    /\ pushes' = [pushes EXCEPT ![r] = IF arrived THEN @ + 1 ELSE @]
    /\ answerLost' = IF arrived /\ ~ok THEN answerLost \cup {r} ELSE answerLost
    /\ told' = [told EXCEPT ![p] = [ride |-> {r}, ok |-> ok]]
    /\ batch' = [batch EXCEPT ![p] = @ \ {r}]
    /\ UNCHANGED <<dispatch, reach, unrecorded>>

\* A row that was not sent is queued again until the tries are used up.
Requeued(r) == IF dispatch[r].attempts >= MaxTries THEN "failed" ELSE "queued"

\* Nothing is pushed: a read throws, or there is no trigger or text to send.
DeliveryFails(p) == \E r \in batch[p] : \E outcome \in {"failed", Requeued(r)} :
    /\ told[p] = NotTold
    /\ dispatch' = [dispatch EXCEPT ![r].status = outcome]
    /\ batch' = [batch EXCEPT ![p] = @ \ {r}]
    /\ UNCHANGED <<reach, told, pushes, answerLost, unrecorded>>

\* The outcome is written.  When that fails, or counting what was sent does, the
\* catch of sendDue takes the delivery for failed whatever the provider said.
Recorded(p) == \E r \in told[p].ride, fails \in BOOLEAN :
    /\ dispatch' = [dispatch EXCEPT ![r].status =
                      IF told[p].ok /\ ~fails THEN "sent" ELSE Requeued(r)]
    /\ unrecorded' = IF told[p].ok /\ fails THEN unrecorded \cup {r} ELSE unrecorded
    /\ told' = [told EXCEPT ![p] = NotTold]
    /\ UNCHANGED <<reach, batch, pushes, answerLost>>

\* The process dies: nothing returns its rows from 'sending'.
AutomatorDies(p) ==
    /\ batch[p] # {} \/ told[p] # NotTold
    /\ batch' = [batch EXCEPT ![p] = {}]
    /\ told' = [told EXCEPT ![p] = NotTold]
    /\ UNCHANGED <<dispatch, reach, pushes, answerLost, unrecorded>>

OutreachNext ==
    \/ ReachChanges
    \/ \E r \in OutreachRides : claimAndQueue(r)
    \/ \E p \in Automators :
         \/ sendDue(p) \/ Refused(p) \/ DeliveryFails(p) \/ deliverPush(p)
         \/ Recorded(p) \/ AutomatorDies(p)

OutreachSpec == OutreachInit /\ [][OutreachNext]_outreachVars

\* The passenger gets at most one message for a ride, whatever workers run,
\* crash or claim again (lifecycle_automation_service.ts:291: one CLAIM is not
\* one DELIVERY), unless the provider's answer was lost or could not be written;
\* and then no more than there were tries.
PushedOnce ==
    \A r \in OutreachRides :
        /\ r \notin answerLost \cup unrecorded => pushes[r] <= 1
        /\ pushes[r] <= dispatch[r].attempts
===============================================================================
