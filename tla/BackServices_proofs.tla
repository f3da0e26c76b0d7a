------------------------- MODULE BackServices_proofs --------------------------
(*****************************************************************************)
(* What must not happen twice, or at all, for any number of retries,         *)
(* workers, senders, marketers, handlers, desks and phones.                  *)
(*                                                                           *)
(* A replayed request: while the key stands, it is present from the claim    *)
(* on, so the request that runs or has run the action is the only one.       *)
(*                                                                           *)
(* The message a ride's outcome earns: a row that is `sending` is in the     *)
(* hands of one worker at most, either still to be delivered or delivered    *)
(* and not yet recorded, and a delivered row returns to the queue only       *)
(* when the provider said it was not, or what it said could not be written;  *)
(* otherwise the message has not arrived.                                    *)
(*                                                                           *)
(* A campaign: what is approved is what was reviewed, in the row and in      *)
(* every copy of it that an operation may save; once it has begun, its       *)
(* text no longer moves; and a recipient who has been mailed is out of the   *)
(* queue and of every batch, or about to be written down as sent.            *)
(*                                                                           *)
(* Mail feedback: an address that is barred is in the suppression list,      *)
(* unless staff lifted it.                                                   *)
(*                                                                           *)
(* Duty: a phone that rings is of a dispatcher with an open shift, or the    *)
(* end of that shift has yet to reach it, or it was told about its own       *)
(* shift.                                                                    *)
(*                                                                           *)
(* A park's queue: as long as no two requests met, the one in flight is at a *)
(* known call, and the rows it has read are still the rows; so a joining     *)
(* driver is placed behind the last, and a reorder numbers whom it read.     *)
(* A driver's presence is what the last reading nobody overtook said.        *)
(*                                                                           *)
(* The wallet: the pending money is the sum of the open payouts, and the     *)
(* columns add up to what came in less what was sent, until two admins write *)
(* one payout at once; what an admin has read is then still what the row     *)
(* says.  The library defines the sum over a set by recursion on it, so the  *)
(* lemmas about sums are proved of a smallest subset where they would fail.  *)
(*****************************************************************************)
EXTENDS MCBackServices, FiniteSetTheorems, WellFoundedInduction, TLAPS

-------------------------------------------------------------------------------
(* Replayed requests, and a ride's messages *)

\* The requests whose run of the action is under way or has succeeded.
Runners == ran \cup {c \in Calls : call[c] = "running"}

\* Who ran has returned, the first runner holds the key and is alone, and an
\* outcome is stored by a run that succeeded.
ReplayInv ==
    /\ ReplayTypeOK
    /\ \A c \in ran : call[c] = "succeeded"
    /\ ~unprotected => /\ \A c1, c2 \in Runners : c1 = c2
                       /\ Runners # {} => key # "absent"
    /\ key = "value" => ran # {}
    /\ \A c \in Calls : call[c] = "replayed" => ran # {}

LEMMA ReplayInvInit == ReplayInit => ReplayInv
BY DEF ReplayInit, ReplayInv, ReplayTypeOK, Runners

LEMMA ReplayInvStep == ReplayInv /\ [ReplayNext]_replayVars => ReplayInv'
<1> SUFFICES ASSUME ReplayInv, [ReplayNext]_replayVars
             PROVE  ReplayInv'
  OBVIOUS
<1> USE DEF ReplayInv, ReplayTypeOK, Runners
<1>1. CASE KeyExpires
  BY <1>1 DEF KeyExpires
<1>2. ASSUME NEW c \in Calls, ClaimMarker(c)
      PROVE  ReplayInv'
  <2>1. CASE key = "absent"
    BY <1>2, <2>1 DEF ClaimMarker, Turn
  <2>2. CASE key # "absent"
    BY <1>2, <2>2 DEF ClaimMarker, Turn
  <2> QED
    BY <2>1, <2>2
<1>3. ASSUME NEW c \in Calls, ClaimUnreachable(c)
      PROVE  ReplayInv'
  BY <1>3 DEF ClaimUnreachable, Turn
<1>4. ASSUME NEW c \in Calls, Answered(c)
      PROVE  ReplayInv'
  BY <1>4 DEF Answered, Turn
<1>5. ASSUME NEW c \in Calls, Succeeds(c)
      PROVE  ReplayInv'
  BY <1>5 DEF Succeeds, Turn
<1>6. ASSUME NEW c \in Calls, Fails(c)
      PROVE  ReplayInv'
  BY <1>6 DEF Fails, Turn
<1>7. CASE UNCHANGED replayVars
  BY <1>7 DEF replayVars
<1> QED
  BY <1>1, <1>2, <1>3, <1>4, <1>5, <1>6, <1>7 DEF ReplayNext

\* A set whose members are all equal has at most one of them.
LEMMA AllEqual ==
    ASSUME NEW S, \A x, y \in S : x = y
    PROVE  Cardinality(S) <= 1
<1>1. CASE S = {}
  BY <1>1, FS_EmptySet
<1>2. ASSUME NEW x \in S
      PROVE  Cardinality(S) <= 1
  <2>1. S = {x}
    OBVIOUS
  <2> QED
    BY <2>1, FS_Singleton
<1> QED
  BY <1>1, <1>2

\* A retry never runs the action a second time while its key stands, and what
\* it is answered with happened (IdempotencyService.run).
THEOREM RetryRunsOnce == ReplaySpec => []RunsOnce
<1>1. ReplayInv => RunsOnce
  <2> SUFFICES ASSUME ReplayInv
               PROVE  RunsOnce
    OBVIOUS
  <2>1. ~unprotected => Cardinality(Runners) <= 1
    BY AllEqual DEF ReplayInv
  <2>2. (\E c \in Calls : call[c] = "replayed") => ran # {}
    BY DEF ReplayInv
  <2> QED
    BY <2>1, <2>2 DEF RunsOnce, Runners
<1> QED
  BY <1>1, ReplayInvInit, ReplayInvStep, PTL DEF ReplaySpec

-------------------------------------------------------------------------------
(* Lifecycle pushes *)

\* A row in hands is `sending`, in one worker's hands, and there once.
HandsInv ==
    /\ \A p \in Automators : \A r \in batch[p] : dispatch[r].status = "sending"
    /\ \A p \in Automators : \A r \in told[p].ride : dispatch[r].status = "sending"
    /\ \A p, q \in Automators : p # q => batch[p] \cap batch[q] = {}
    /\ \A p, q \in Automators : p # q => told[p].ride \cap told[q].ride = {}
    /\ \A p, q \in Automators : batch[p] \cap told[q].ride = {}

\* Each attempt sends one message at most, and an attempt claimed and not yet
\* made has sent none.
AttemptsInv ==
    /\ \A r \in OutreachRides : pushes[r] <= dispatch[r].attempts
    /\ \A p \in Automators : \A r \in batch[p] : pushes[r] < dispatch[r].attempts

\* A row that may still be delivered has no message out.
UnsentInv ==
    \A r \in OutreachRides : r \notin answerLost \cup unrecorded =>
       /\ pushes[r] <= 1
       /\ dispatch[r].status \in {"none", "queued"} => pushes[r] = 0
       /\ \A p \in Automators : r \in batch[p] => pushes[r] = 0
       /\ \A p \in Automators : r \in told[p].ride /\ ~told[p].ok => pushes[r] = 0

OutInv == OutreachTypeOK /\ HandsInv /\ AttemptsInv /\ UnsentInv

-------------------------------------------------------------------------------

LEMMA OutInvInit == OutreachInit => OutInv
<1> SUFFICES ASSUME OutreachInit
             PROVE  OutInv
  OBVIOUS
<1>1. OutreachTypeOK
  BY OutreachAssumption DEF OutreachInit, OutreachTypeOK, NoRow, NotTold
<1>2. HandsInv /\ AttemptsInv /\ UnsentInv
  BY DEF OutreachInit, HandsInv, AttemptsInv, UnsentInv, NoRow, NotTold
<1> QED
  BY <1>1, <1>2 DEF OutInv

LEMMA ClaimAndQueueKeeps ==
    ASSUME OutInv, NEW r \in OutreachRides, claimAndQueue(r)
    PROVE  OutInv'
<1> DEFINE first == [status |-> IF reach THEN "queued" ELSE "skipped", attempts |-> 0]
<1>1. dispatch' = [dispatch EXCEPT ![r] = IF dispatch[r] # NoRow THEN dispatch[r] ELSE first]
  BY DEF claimAndQueue
<1>2. CASE dispatch[r] # NoRow
  <2>1. dispatch' = dispatch
    BY <1>1, <1>2 DEF OutInv, OutreachTypeOK
  <2> QED
    BY <2>1 DEF claimAndQueue, OutInv, OutreachTypeOK, HandsInv, AttemptsInv, UnsentInv
<1>3. CASE dispatch[r] = NoRow
  <2>1. /\ dispatch' = [dispatch EXCEPT ![r] = first]
        /\ dispatch[r].status = "none" /\ dispatch[r].attempts = 0
    BY <1>1, <1>3 DEF NoRow
  <2>2. /\ first.status \in {"queued", "skipped"} /\ first.attempts = 0
        /\ first \in [status : {"none", "queued", "sending", "sent", "skipped", "failed"},
                      attempts : 0..MaxTries]
    BY OutreachAssumption
  <2> HIDE DEF first
  <2>3. UNCHANGED <<reach, batch, told, pushes, answerLost, unrecorded>>
    BY DEF claimAndQueue
  <2>4. OutreachTypeOK'
    BY <2>1, <2>2, <2>3 DEF OutInv, OutreachTypeOK
  <2>5. HandsInv'
    BY <2>1, <2>2, <2>3 DEF OutInv, OutreachTypeOK, HandsInv
  <2>6. AttemptsInv' /\ UnsentInv'
    BY <2>1, <2>2, <2>3 DEF OutInv, OutreachTypeOK, HandsInv, AttemptsInv, UnsentInv
  <2> QED
    BY <2>4, <2>5, <2>6 DEF OutInv
<1> QED
  BY <1>2, <1>3

LEMMA SendDueKeeps ==
    ASSUME OutInv, NEW p \in Automators, sendDue(p)
    PROVE  OutInv'
<1> PICK rows \in (SUBSET Due) \ {{}} :
      /\ dispatch' = [r \in OutreachRides |->
                         IF r \in rows THEN ClaimedRow(dispatch[r]) ELSE dispatch[r]]
      /\ batch' = [batch EXCEPT ![p] = rows]
  BY DEF sendDue
<1>1. /\ batch[p] = {} /\ told[p] = NotTold
      /\ UNCHANGED <<reach, told, pushes, answerLost, unrecorded>>
  BY DEF sendDue
<1>2. \A r \in rows : /\ r \in OutreachRides
                      /\ dispatch[r].status = "queued"
                      /\ dispatch[r].attempts < MaxTries
                      /\ dispatch'[r].status = "sending"
                      /\ dispatch'[r].attempts = dispatch[r].attempts + 1
                      /\ dispatch'[r] \in [status : {"sending"}, attempts : 0..MaxTries]
  BY OutreachAssumption DEF Due, ClaimedRow, OutInv, OutreachTypeOK
<1>3. \A r \in OutreachRides \ rows : dispatch'[r] = dispatch[r]
  OBVIOUS
<1>4. OutreachTypeOK'
  BY <1>1, <1>2, <1>3 DEF OutInv, OutreachTypeOK
<1>5. \A q \in Automators : /\ q # p => batch'[q] = batch[q]
                            /\ batch'[p] = rows
                            /\ rows \cap batch[q] = {} /\ rows \cap told[q].ride = {}
  BY <1>2 DEF OutInv, OutreachTypeOK, HandsInv
<1>6. HandsInv'
  <2>1. \A q \in Automators : \A r \in batch'[q] : dispatch'[r].status = "sending"
    BY <1>2, <1>3, <1>5 DEF OutInv, OutreachTypeOK, HandsInv
  <2>2. \A q \in Automators : \A r \in told[q].ride : dispatch'[r].status = "sending"
    BY <1>2, <1>3, <1>5 DEF OutInv, OutreachTypeOK, HandsInv
  <2>3. \A q1, q2 \in Automators : q1 # q2 => batch'[q1] \cap batch'[q2] = {}
    BY <1>5 DEF OutInv, HandsInv
  <2>4. \A q1, q2 \in Automators : batch'[q1] \cap told[q2].ride = {}
    BY <1>5 DEF OutInv, HandsInv
  <2> QED
    BY <1>1, <2>1, <2>2, <2>3, <2>4 DEF OutInv, HandsInv
<1>7. AttemptsInv'
  <2>1. \A r \in OutreachRides : /\ pushes[r] \in Nat /\ dispatch[r].attempts \in Nat
                                 /\ pushes[r] <= dispatch[r].attempts
    BY OutreachAssumption DEF OutInv, OutreachTypeOK, AttemptsInv
  <2>2. \A r \in OutreachRides : pushes[r] <= dispatch'[r].attempts
    BY <1>2, <1>3, <2>1
  <2>3. ASSUME NEW r \in rows
        PROVE  pushes[r] < dispatch'[r].attempts
    <3>1. r \in OutreachRides /\ dispatch'[r].attempts = dispatch[r].attempts + 1
      BY <1>2
    <3> QED
      BY <2>1, <3>1
  <2>4. \A q \in Automators : q # p => \A r \in batch[q] : pushes[r] < dispatch'[r].attempts
    BY <1>3, <1>5 DEF OutInv, OutreachTypeOK, AttemptsInv
  <2> QED
    BY <1>1, <1>5, <2>2, <2>3, <2>4 DEF AttemptsInv
<1>8. UnsentInv'
  <2> SUFFICES ASSUME NEW r \in OutreachRides, r \notin answerLost \cup unrecorded
               PROVE  /\ pushes[r] <= 1
                      /\ dispatch'[r].status \in {"none", "queued"} => pushes[r] = 0
                      /\ \A q \in Automators : r \in batch'[q] => pushes[r] = 0
                      /\ \A q \in Automators : r \in told[q].ride /\ ~told[q].ok => pushes[r] = 0
    BY <1>1 DEF UnsentInv
  <2>1. CASE r \in rows
    BY <2>1, <1>2 DEF OutInv, UnsentInv
  <2>2. CASE r \notin rows
    BY <2>2, <1>3, <1>5 DEF OutInv, UnsentInv
  <2> QED
    BY <2>1, <2>2
<1> QED
  BY <1>4, <1>6, <1>7, <1>8 DEF OutInv

\* A row that leaves a worker's hands unsent may go back to the queue.
LEMMA UnsentKeeps ==
    ASSUME OutInv, NEW p \in Automators, Refused(p) \/ DeliveryFails(p)
    PROVE  OutInv'
<1> PICK r \in batch[p], outcome \in {"skipped", "failed", "queued"} :
      /\ told[p] = NotTold
      /\ dispatch' = [dispatch EXCEPT ![r].status = outcome]
      /\ batch' = [batch EXCEPT ![p] = @ \ {r}]
      /\ UNCHANGED <<reach, told, pushes, answerLost, unrecorded>>
  BY DEF Refused, DeliveryFails, Requeued
<1>0. r \in OutreachRides
  BY DEF OutInv, OutreachTypeOK
<1> DEFINE new == [dispatch[r] EXCEPT !.status = outcome]
<1>a. /\ new.status = outcome /\ new.attempts = dispatch[r].attempts
      /\ new \in [status : {"none", "queued", "sending", "sent", "skipped", "failed"},
                  attempts : 0..MaxTries]
  BY <1>0 DEF OutInv, OutreachTypeOK
<1>b. dispatch' = [dispatch EXCEPT ![r] = new]
  OBVIOUS
<1> HIDE DEF new
<1>1. OutreachTypeOK'
  BY <1>0, <1>a, <1>b DEF OutInv, OutreachTypeOK
<1>2. \A q \in Automators : r \notin batch'[q] /\ r \notin told[q].ride /\ batch'[q] \subseteq batch[q]
  BY DEF OutInv, OutreachTypeOK, HandsInv
<1>3. \A x \in OutreachRides : /\ dispatch'[x].attempts = dispatch[x].attempts
                               /\ x # r => dispatch'[x] = dispatch[x]
                               /\ dispatch'[r].status = outcome
  BY <1>0, <1>a, <1>b DEF OutInv, OutreachTypeOK
<1>4. HandsInv'
  BY <1>2, <1>3 DEF OutInv, OutreachTypeOK, HandsInv
<1>5. AttemptsInv' /\ UnsentInv'
  BY <1>2, <1>3 DEF OutInv, OutreachTypeOK, AttemptsInv, UnsentInv
<1> QED
  BY <1>1, <1>4, <1>5 DEF OutInv

LEMMA DeliverPushKeeps ==
    ASSUME OutInv, NEW p \in Automators, deliverPush(p)
    PROVE  OutInv'
<1> PICK r \in batch[p], arrived \in BOOLEAN, ok \in BOOLEAN :
      /\ told[p] = NotTold
      /\ ok => arrived
      /\ pushes' = [pushes EXCEPT ![r] = IF arrived THEN @ + 1 ELSE @]
      /\ answerLost' = IF arrived /\ ~ok THEN answerLost \cup {r} ELSE answerLost
      /\ told' = [told EXCEPT ![p] = [ride |-> {r}, ok |-> ok]]
      /\ batch' = [batch EXCEPT ![p] = @ \ {r}]
      /\ UNCHANGED <<dispatch, reach, unrecorded>>
  BY DEF deliverPush
<1>1. r \in OutreachRides /\ dispatch[r].status = "sending" /\ pushes[r] < dispatch[r].attempts
  BY DEF OutInv, OutreachTypeOK, HandsInv, AttemptsInv
<1>2. /\ told'[p].ride = {r} /\ told'[p].ok = ok /\ r \notin batch'[p]
      /\ \A q \in Automators : /\ q # p => told'[q] = told[q]
                               /\ batch'[q] \subseteq batch[q]
                               /\ r \notin batch'[q]
                               /\ r \notin told[q].ride
  BY DEF OutInv, OutreachTypeOK, HandsInv
<1>3. \A x \in OutreachRides : x # r => pushes'[x] = pushes[x]
  BY DEF OutInv, OutreachTypeOK
<1>4. pushes'[r] = IF arrived THEN pushes[r] + 1 ELSE pushes[r]
  BY <1>1 DEF OutInv, OutreachTypeOK
<1>5. OutreachTypeOK'
  <2>1. pushes'[r] \in 0..MaxTries
    BY <1>1, <1>4, OutreachAssumption DEF OutInv, OutreachTypeOK
  <2>2. pushes' \in [OutreachRides -> 0..MaxTries]
    BY <2>1, <1>1, <1>3 DEF OutInv, OutreachTypeOK
  <2>3. told' \in [Automators -> [ride : SUBSET OutreachRides, ok : BOOLEAN]]
    BY <1>1 DEF OutInv, OutreachTypeOK
  <2> QED
    BY <2>2, <2>3, <1>1 DEF OutInv, OutreachTypeOK
<1>6. HandsInv'
  <2>1. \A q \in Automators : \A x \in told'[q].ride : dispatch[x].status = "sending"
    BY <1>1, <1>2 DEF OutInv, HandsInv
  <2>2. \A q1, q2 \in Automators : q1 # q2 => told'[q1].ride \cap told'[q2].ride = {}
    BY <1>2 DEF OutInv, HandsInv
  <2>3. \A q1, q2 \in Automators : batch'[q1] \cap told'[q2].ride = {}
    BY <1>2 DEF OutInv, HandsInv
  <2> QED
    BY <2>1, <2>2, <2>3, <1>2 DEF OutInv, HandsInv
<1>7. AttemptsInv'
  BY <1>1, <1>2, <1>3, <1>4 DEF OutInv, OutreachTypeOK, AttemptsInv
<1>8. UnsentInv'
  <2>1. ASSUME r \notin answerLost' \cup unrecorded'
        PROVE  /\ pushes'[r] <= 1
               /\ ~ok => pushes'[r] = 0
    BY <2>1, <1>1, <1>4 DEF OutInv, OutreachTypeOK, UnsentInv
  <2> QED
    BY <2>1, <1>1, <1>2, <1>3 DEF OutInv, OutreachTypeOK, UnsentInv
<1> QED
  BY <1>5, <1>6, <1>7, <1>8 DEF OutInv

LEMMA RecordedKeeps ==
    ASSUME OutInv, NEW p \in Automators, Recorded(p)
    PROVE  OutInv'
<1> PICK r \in told[p].ride, outcome \in {"sent", "failed", "queued"} :
      /\ dispatch' = [dispatch EXCEPT ![r].status = outcome]
      /\ outcome = "queued" => ~told[p].ok \/ r \in unrecorded'
      /\ unrecorded' \in {unrecorded, unrecorded \cup {r}}
      /\ told' = [told EXCEPT ![p] = NotTold]
      /\ UNCHANGED <<reach, batch, pushes, answerLost>>
  <2>1. PICK r \in told[p].ride, fails \in BOOLEAN :
          /\ dispatch' = [dispatch EXCEPT ![r].status =
                            IF told[p].ok /\ ~fails THEN "sent" ELSE Requeued(r)]
          /\ unrecorded' = IF told[p].ok /\ fails THEN unrecorded \cup {r} ELSE unrecorded
          /\ told' = [told EXCEPT ![p] = NotTold]
          /\ UNCHANGED <<reach, batch, pushes, answerLost>>
    BY DEF Recorded
  <2> DEFINE outcome == IF told[p].ok /\ ~fails THEN "sent" ELSE Requeued(r)
  <2>2. /\ outcome \in {"sent", "failed", "queued"}
        /\ outcome = "queued" => ~told[p].ok \/ fails
    BY DEF Requeued
  <2>3. dispatch' = [dispatch EXCEPT ![r].status = outcome] BY <2>1
  <2>4. outcome = "queued" => ~told[p].ok \/ r \in unrecorded' BY <2>1, <2>2
  <2> HIDE DEF outcome
  <2> QED BY <2>1, <2>2, <2>3, <2>4
<1>2. NotTold.ride = {} /\ NotTold \in [ride : SUBSET OutreachRides, ok : BOOLEAN]
  BY DEF NotTold
<1>3. r \in OutreachRides
  BY DEF OutInv, OutreachTypeOK
<1>4. OutreachTypeOK'
  BY <1>2, <1>3 DEF OutInv, OutreachTypeOK
<1>5. /\ told'[p].ride = {}
      /\ \A q \in Automators : /\ q # p => told'[q] = told[q]
                               /\ told'[q].ride \subseteq told[q].ride
                               /\ r \notin told'[q].ride /\ r \notin batch[q]
  BY <1>2 DEF OutInv, OutreachTypeOK, HandsInv
<1>6. \A x \in OutreachRides : /\ dispatch'[x].attempts = dispatch[x].attempts
                               /\ x # r => dispatch'[x] = dispatch[x]
                               /\ dispatch'[r].status = outcome
  BY <1>3 DEF OutInv, OutreachTypeOK
<1>7. HandsInv'
  BY <1>5, <1>6 DEF OutInv, OutreachTypeOK, HandsInv
<1>8. AttemptsInv' /\ UnsentInv'
  BY <1>3, <1>5, <1>6 DEF OutInv, OutreachTypeOK, AttemptsInv, UnsentInv
<1> QED
  BY <1>4, <1>7, <1>8 DEF OutInv

LEMMA AutomatorDiesKeeps ==
    ASSUME OutInv, NEW p \in Automators, AutomatorDies(p)
    PROVE  OutInv'
<1>1. NotTold.ride = {} /\ NotTold \in [ride : SUBSET OutreachRides, ok : BOOLEAN]
  BY DEF NotTold
<1>2. /\ batch' = [batch EXCEPT ![p] = {}]
      /\ told' = [told EXCEPT ![p] = NotTold]
      /\ UNCHANGED <<dispatch, reach, pushes, answerLost, unrecorded>>
  BY DEF AutomatorDies
<1>3. OutreachTypeOK'
  BY <1>1, <1>2 DEF OutInv, OutreachTypeOK
<1>4. /\ told'[p].ride = {} /\ batch'[p] = {}
      /\ \A q \in Automators : q # p => told'[q] = told[q] /\ batch'[q] = batch[q]
  BY <1>1, <1>2 DEF OutInv, OutreachTypeOK
<1>5. HandsInv'
  BY <1>2, <1>4 DEF OutInv, HandsInv
<1>6. AttemptsInv' /\ UnsentInv'
  BY <1>2, <1>4 DEF OutInv, AttemptsInv, UnsentInv
<1> QED
  BY <1>3, <1>5, <1>6 DEF OutInv

-------------------------------------------------------------------------------

LEMMA OutInvStep == OutInv /\ [OutreachNext]_outreachVars => OutInv'
<1> SUFFICES ASSUME OutInv, [OutreachNext]_outreachVars
             PROVE  OutInv'
  OBVIOUS
<1>1. CASE ReachChanges
  BY <1>1 DEF ReachChanges, OutInv, OutreachTypeOK, HandsInv, AttemptsInv, UnsentInv
<1>2. CASE UNCHANGED outreachVars
  BY <1>2 DEF outreachVars, OutInv, OutreachTypeOK, HandsInv, AttemptsInv, UnsentInv
<1> QED
  BY <1>1, <1>2, ClaimAndQueueKeeps, SendDueKeeps, UnsentKeeps, DeliverPushKeeps,
     RecordedKeeps, AutomatorDiesKeeps DEF OutreachNext

\* A ride's outcome sends its passenger one message at most, for every number
\* of workers and tries, unless the provider's answer was lost or could not be
\* written, and then one for each try at most (lifecycle_automation_service.ts).
THEOREM OnePush == OutreachSpec => []PushedOnce
<1>1. OutInv => PushedOnce
  BY DEF OutInv, UnsentInv, AttemptsInv, PushedOnce
<1> QED
  BY <1>1, OutInvInit, OutInvStep, PTL DEF OutreachSpec

-------------------------------------------------------------------------------
(* Campaigns *)

Desk == [at : {"idle", "read", "written"}, seen : Row]
Job == [at : {"idle", "build", "batch", "record"},
        todo : SUBSET Passengers, to : Passengers \cup {NoOne},
        text : 0..MaxEdits, ok : BOOLEAN]

\* Who is in no doubt is in the hands of one worker at most, and has one message
\* at most; with it they are out of the queue, and of every batch, or the worker
\* that sent it is about to write so.
Mailed(u) == \E m \in inbox : m.to = u
OneHand ==
    \A u \in Passengers \ doubtful : \A v, w \in Senders :
        u \in InHand(v) /\ u \in InHand(w) => v = w
OutOfQueue ==
    \A u \in Passengers \ doubtful : Mailed(u) =>
        /\ mail[u] # "none"
        /\ mail[u] = "queued" =>
             \E w \in Senders : worker[w].at = "record" /\ worker[w].to = u /\ worker[w].ok
        /\ \A w \in Senders : worker[w].at \in {"batch", "record"} => u \notin worker[w].todo
        /\ \A w \in Senders :
             worker[w].at = "record" /\ worker[w].to = u => worker[w].ok
HaveRows ==
    \A w \in Senders : InHand(w) \subseteq {u \in Passengers : mail[u] # "none"}
MailInHand == OneHand /\ OutOfQueue /\ HaveRows

ReviewedRow(row) ==
    row.status \in {"approved", "scheduled", "sending", "completed"} =>
        row.tested /\ row.approver \notin {NoOne, Author}

\* The row, and every copy of it an operation may save over it.
RowsReviewed == 
    /\ ReviewedRow(campaign)
    /\ \A s \in Marketers : ReviewedRow(desk[s].seen)

Begun == campaign.begun =>
    /\ campaign.status \in {"sending", "completed", "cancelled"}
    /\ campaign.approved = content
Released == campaign.status = "sending" \/ campaign.lease # NoOne => campaign.begun
Approved ==
    /\ campaign.status \in {"approved", "scheduled"}
    /\ \A s \in Marketers : desk[s].at # "written"
    => campaign.approved = content
WorkersSend == \A w \in Senders : 
    /\ worker[w].at # "idle" => campaign.begun
    /\ worker[w].at \in {"batch", "record"} => worker[w].text = content
MailSays ==
    /\ inbox # {} => campaign.begun
    /\ \A m \in inbox : m.text = content
Editing == \A s \in Marketers : desk[s].at = "written" =>
    /\ desk[s].seen = campaign
    /\ campaign.status \notin {"sending", "completed", "cancelled"}
TextInv == ~overlapped =>
    Begun /\ Released /\ Approved /\ WorkersSend /\ MailSays /\ Editing

CampaignInv ==
    CampaignTypeOK /\ MailInHand /\ EmailOnce /\ RowsReviewed /\ TextInv

-----------------------------------------------------------------------------
(* What an operation saves, and what the steps do.                         *)

LEMMA RowFields == ASSUME NEW r \in Row PROVE
    /\ r.status \in Statuses /\ r.tested \in BOOLEAN
    /\ r.approver \in Marketers \cup {NoOne} /\ r.approved \in 0..MaxEdits
    /\ r.placed \in BOOLEAN /\ r.begun \in BOOLEAN /\ r.lease \in Senders \cup {NoOne}
BY DEF Row

LEMMA NewRowOK == NewRow \in Row /\ ReviewedRow(NewRow)
BY CampaignAssumption DEF NewRow, Row, Statuses, ReviewedRow, CampaignAssumption

LEMMA SavedOK ==
    ASSUME NEW r \in Row, NEW s \in Marketers, NEW op \in Operations,
           content \in 0..MaxEdits, Allowed(op, s, r), ReviewedRow(r)
    PROVE /\ Saved(op, s, r) \in Row
          /\ ReviewedRow(Saved(op, s, r))
          /\ Saved(op, s, r).begun = r.begun
          /\ Saved(op, s, r).lease = r.lease
<1>0. 0 \in 0..MaxEdits BY CampaignAssumption DEF CampaignAssumption
<1>1. CASE op = "edit"
  BY <1>0, <1>1 DEF Saved, invalidateApproval, Row, Statuses, ReviewedRow
<1>2. CASE op = "test"
  BY <1>2 DEF Saved, Row, Statuses, ReviewedRow
<1>3. CASE op = "requestApproval"
  BY <1>3 DEF Saved, Row, Statuses, ReviewedRow
<1>4. CASE op = "approve"
  BY <1>4, CampaignAssumption
     DEF Saved, Row, Statuses, ReviewedRow, Allowed, mayApprove, CampaignAssumption
<1>5. CASE op = "reschedule"
  BY <1>5 DEF Saved, Row, Statuses, ReviewedRow, Allowed
<1>6. CASE op = "cancel"
  BY <1>6 DEF Saved, Row, Statuses, ReviewedRow
<1> QED BY <1>1, <1>2, <1>3, <1>4, <1>5, <1>6 DEF Operations

LEMMA InvalidOK ==
    ASSUME NEW r \in Row, ReviewedRow(r)
    PROVE /\ invalidateApproval(r) \in Row /\ ReviewedRow(invalidateApproval(r))
          /\ invalidateApproval(r).begun = r.begun
          /\ invalidateApproval(r).lease = r.lease
          /\ invalidateApproval(r).status \notin {"approved", "scheduled"}
          /\ invalidateApproval(r) # r =>
               invalidateApproval(r).status = "draft"
<1>0. 0 \in 0..MaxEdits BY CampaignAssumption DEF CampaignAssumption
<1> QED BY <1>0 DEF invalidateApproval, Row, Statuses, ReviewedRow

LEMMA CampaignInvInit == CampaignInit => CampaignInv
<1> SUFFICES ASSUME CampaignInit PROVE CampaignInv OBVIOUS
<1>0. 0 \in 0..MaxEdits BY CampaignAssumption DEF CampaignAssumption
<1>1. campaign \in Row /\ ReviewedRow(campaign) /\ ~campaign.begun
      /\ campaign.lease = NoOne /\ campaign.approved = 0
      /\ campaign.status \in {"draft", "scheduled"}
  <2>1. CASE campaign = NewRow BY <2>1, NewRowOK DEF NewRow
  <2>2. CASE \E s \in Marketers \ {Author} : campaign = ScheduledRow(s)
    <3>1. PICK s \in Marketers \ {Author} : campaign = ScheduledRow(s) BY <2>2
    <3> QED BY <1>0, <3>1, CampaignAssumption
            DEF ScheduledRow, NewRow, Row, Statuses, ReviewedRow, CampaignAssumption
  <2> QED BY <2>1, <2>2 DEF CampaignInit
<1>2. NoTask \in Desk BY NewRowOK DEF NoTask, Desk
<1>3. Resting \in Job BY <1>0 DEF Resting, Job
<1>4. CampaignTypeOK
  <2>1. desk \in [Marketers -> Desk] BY <1>2 DEF CampaignInit
  <2>2. worker \in [Senders -> Job] BY <1>3 DEF CampaignInit
  <2> QED BY <1>0, <1>1, <2>1, <2>2 DEF CampaignInit, CampaignTypeOK, Desk, Job
<1>5. MailInHand /\ EmailOnce
  BY DEF CampaignInit, MailInHand, OneHand, OutOfQueue, HaveRows, Mailed, InHand,
         Resting, EmailOnce
<1>6. RowsReviewed BY <1>1, NewRowOK DEF CampaignInit, RowsReviewed, NoTask
<1>7. TextInv
  BY <1>1 DEF CampaignInit, TextInv, Begun, Released, Approved, WorkersSend,
     MailSays, Editing, NoTask, Resting
<1> QED BY <1>4, <1>5, <1>6, <1>7 DEF CampaignInv

\* The parts of the type invariant and of RowsReviewed, by variable.
RowSound(r) == r \in Row /\ ReviewedRow(r)
DeskSound ==
    /\ desk \in [Marketers -> Desk]
    /\ \A s \in Marketers : ReviewedRow(desk[s].seen)
Sound ==
    /\ RowSound(campaign) /\ DeskSound
    /\ content \in 0..MaxEdits /\ overlapped \in BOOLEAN
    /\ mail \in [Passengers -> {"none", "queued", "sent", "skipped", "failed"}]
    /\ worker \in [Senders -> Job]
    /\ \A m \in inbox : m.to \in Passengers /\ m.text \in 0..MaxEdits
    /\ twice \subseteq Passengers /\ doubtful \subseteq Passengers \cup {NoOne}

LEMMA SoundIs == Sound <=> CampaignTypeOK /\ RowsReviewed
BY DEF Sound, RowSound, DeskSound, CampaignTypeOK, RowsReviewed, Desk, Job

LEMMA DeskKept ==
    ASSUME DeskSound, NEW s \in Marketers, NEW d \in Desk, ReviewedRow(d.seen),
           desk' = [desk EXCEPT ![s] = d]
    PROVE  DeskSound'
BY DEF DeskSound

LEMMA StaffSound ==
    ASSUME Sound, NEW s \in Marketers,
           Reads(s) \/ setChannel(s) \/ SetChannelSettles(s) \/ Saves(s) \/ Leaves(s)
    PROVE  Sound'
<1>1. NoTask \in Desk /\ ReviewedRow(NoTask.seen) BY NewRowOK DEF NoTask, Desk
<1>2. desk[s] \in Desk /\ desk[s].seen \in Row /\ ReviewedRow(desk[s].seen)
  BY DEF Sound, DeskSound, Desk
<1>3. CASE Reads(s)
  <2>1. [at |-> "read", seen |-> campaign] \in Desk BY DEF Sound, RowSound, Desk
  <2>2. DeskSound' BY <1>3, <2>1, DeskKept DEF Reads, Sound, RowSound
  <2> QED BY <1>3, <2>2 DEF Reads, Sound
<1>4. CASE setChannel(s)
  <2>1. [desk[s] EXCEPT !.at = "written"] \in Desk BY <1>2 DEF Desk
  <2>2. [desk[s] EXCEPT !.at = "written"].seen = desk[s].seen BY <1>2 DEF Desk
  <2>3. desk' = [desk EXCEPT ![s] = [desk[s] EXCEPT !.at = "written"]]
    BY <1>4 DEF setChannel, Sound, DeskSound
  <2>4. DeskSound' BY <1>2, <2>1, <2>2, <2>3, DeskKept DEF Sound
  <2>5. content' \in 0..MaxEdits
    BY <1>4, CampaignAssumption DEF setChannel, Sound, CampaignAssumption
  <2>6. overlapped' \in BOOLEAN BY <1>4 DEF setChannel, Sound, Overlaps
  <2> QED BY <1>4, <2>4, <2>5, <2>6 DEF setChannel, Sound
<1>5. CASE SetChannelSettles(s)
  <2>1. DeskSound' BY <1>1, <1>5, DeskKept DEF SetChannelSettles, Sound
  <2>2. RowSound(campaign)'
    BY <1>2, <1>5, InvalidOK DEF SetChannelSettles, Sound, RowSound
  <2>3. overlapped' \in BOOLEAN BY <1>5 DEF SetChannelSettles, Sound, Overlaps
  <2> QED BY <1>5, <2>1, <2>2, <2>3 DEF SetChannelSettles, Sound
<1>6. CASE Saves(s)
  <2>1. PICK op \in Operations :
          /\ Allowed(op, s, desk[s].seen)
          /\ campaign' = Saved(op, s, desk[s].seen)
    BY <1>6 DEF Saves
  <2>2. DeskSound' BY <1>1, <1>6, DeskKept DEF Saves, Sound
  <2>3. RowSound(campaign)' BY <1>2, <2>1, SavedOK DEF Sound, RowSound
  <2>4. overlapped' \in BOOLEAN BY <1>6 DEF Saves, Sound, Overlaps
  <2> QED BY <1>6, <2>2, <2>3, <2>4 DEF Saves, Sound
<1>7. CASE Leaves(s)
  <2>1. DeskSound' BY <1>1, <1>7, DeskKept DEF Leaves, Sound
  <2> QED BY <1>7, <2>1 DEF Leaves, Sound
<1> QED BY <1>3, <1>4, <1>5, <1>6, <1>7

\* What a worker's step does to the row: nothing, or one of three writes, each
\* of which leaves what was approved alone.
RowMoves(w) ==
    \/ campaign' = campaign
    \/ campaign' = [campaign EXCEPT !.lease = w] 
    \/ /\ campaign.status = "scheduled" /\ campaign.approver # NoOne
       /\ campaign' = [campaign EXCEPT !.status = "sending", !.begun = TRUE,
                                       !.lease = w]
    \/ /\ campaign.status = "sending"
       /\ campaign' = [campaign EXCEPT !.status = "completed", !.lease = NoOne]

\* What it does to the worker: every step leaves a job of the right shape.
JobMoves(w) == \E j \in Job : worker' = [worker EXCEPT ![w] = j]

LEMMA FinishMoves ==
    ASSUME NEW w \in Senders, Sound, finishIfDone(w)
    PROVE  /\ RowMoves(w) /\ JobMoves(w)
           /\ worker' = [worker EXCEPT ![w] = Resting]
<1>1. Resting \in Job
  BY CampaignAssumption DEF Resting, Job, CampaignAssumption
<1>2. JobMoves(w) BY <1>1 DEF finishIfDone, JobMoves
<1>3. RowMoves(w) BY DEF finishIfDone, RowMoves
<1> QED BY <1>2, <1>3 DEF finishIfDone

LEMMA WorkerMoves ==
    ASSUME NEW w \in Senders, Sound,
           \/ progressSending(w) \/ ensureRecipients(w)
           \/ LoadsBatch(w) \/ Held(w) \/ Skips(w) \/ Mails(w) \/ Records(w)
           \/ BatchEnds(w) \/ Dies(w)
    PROVE  /\ RowMoves(w) /\ JobMoves(w)
           /\ UNCHANGED <<content, desk, overlapped>>
<1>0. worker[w] \in Job /\ worker \in [Senders -> Job] BY DEF Sound
<1>1. Resting \in Job
  BY CampaignAssumption DEF Resting, Job, CampaignAssumption
<1>2. CASE progressSending(w)
  <2> DEFINE all == IF \A u \in Passengers : mail[u] = "none" THEN Passengers ELSE {}
  <2>1. [worker[w] EXCEPT !.at = "build", !.todo = all] \in Job BY <1>0 DEF Job
  <2>2. worker' = [worker EXCEPT ![w] = [worker[w] EXCEPT !.at = "build", !.todo = all]]
    BY <1>0, <1>2 DEF progressSending
  <2> QED BY <1>2, <2>1, <2>2 DEF progressSending, RowMoves, JobMoves
<1>3. CASE ensureRecipients(w)
  <2>1. PICK u \in worker[w].todo : worker' = [worker EXCEPT ![w].todo = @ \ {u}]
    BY <1>3 DEF ensureRecipients
  <2>2. [worker[w] EXCEPT !.todo = @ \ {u}] \in Job BY <1>0 DEF Job
  <2>3. worker' = [worker EXCEPT ![w] = [worker[w] EXCEPT !.todo = @ \ {u}]]
    BY <1>0, <2>1
  <2> QED BY <1>3, <2>2, <2>3 DEF ensureRecipients, RowMoves, JobMoves
<1>4. CASE LoadsBatch(w)
  <2> USE DEF Batch
  <2> DEFINE due == {u \in Passengers : mail[u] = "queued"}
  <2>1. CASE finishIfDone(w) BY <1>4, <2>1, FinishMoves DEF LoadsBatch
  <2>2. CASE /\ worker' = [worker EXCEPT ![w].at = "batch", ![w].todo = due,
                                         ![w].text = content]
             /\ UNCHANGED campaign
    <3>1. [worker[w] EXCEPT !.at = "batch", !.todo = due, !.text = content] \in Job
      BY <1>0 DEF Job, Sound
    <3>2. worker' = [worker EXCEPT ![w] =
                       [worker[w] EXCEPT !.at = "batch", !.todo = due, !.text = content]]
      BY <1>0, <2>2
    <3> QED BY <1>4, <2>2, <3>1, <3>2 DEF LoadsBatch, RowMoves, JobMoves
  <2> QED BY <1>4, <2>1, <2>2 DEF LoadsBatch
<1>5. CASE Held(w) BY <1>1, <1>5 DEF Held, RowMoves, JobMoves
<1>6. CASE Skips(w)
  <2>1. PICK u \in worker[w].todo : worker' = [worker EXCEPT ![w].todo = @ \ {u}]
    BY <1>6 DEF Skips
  <2>2. [worker[w] EXCEPT !.todo = @ \ {u}] \in Job BY <1>0 DEF Job
  <2>3. worker' = [worker EXCEPT ![w] = [worker[w] EXCEPT !.todo = @ \ {u}]]
    BY <1>0, <2>1
  <2> QED BY <1>6, <2>2, <2>3 DEF Skips, RowMoves, JobMoves
<1>7. CASE Mails(w)
  <2>1. PICK u \in worker[w].todo, ok \in BOOLEAN :
          worker' = [worker EXCEPT ![w].at = "record", ![w].todo = @ \ {u},
                                   ![w].to = u, ![w].ok = ok]
    BY <1>7 DEF Mails
  <2>2. [worker[w] EXCEPT !.at = "record", !.todo = @ \ {u}, !.to = u, !.ok = ok]
          \in Job
    BY <1>0 DEF Job
  <2>3. worker' = [worker EXCEPT ![w] = [worker[w] EXCEPT !.at = "record",
                     !.todo = @ \ {u}, !.to = u, !.ok = ok]]
    BY <1>0, <2>1
  <2> QED BY <1>7, <2>2, <2>3 DEF Mails, RowMoves, JobMoves
<1>8. CASE Records(w)
  <2>1. [worker[w] EXCEPT !.at = "batch", !.to = NoOne, !.ok = TRUE] \in Job
    BY <1>0 DEF Job
  <2>2. worker' = [worker EXCEPT ![w] =
                     [worker[w] EXCEPT !.at = "batch", !.to = NoOne, !.ok = TRUE]]
    BY <1>0, <1>8 DEF Records
  <2> QED BY <1>8, <2>1, <2>2 DEF Records, RowMoves, JobMoves
<1>9. CASE BatchEnds(w) BY <1>9, FinishMoves DEF BatchEnds
<1>10. CASE Dies(w) BY <1>1, <1>10 DEF Dies, RowMoves, JobMoves
<1> QED BY <1>2, <1>3, <1>4, <1>5, <1>6, <1>7, <1>8, <1>9, <1>10

LEMMA MovedRow ==
    ASSUME NEW w \in Senders, RowSound(campaign), RowMoves(w)
    PROVE  RowSound(campaign)'
<1> USE CampaignAssumption DEF CampaignAssumption, RowSound, Row, Statuses, ReviewedRow
<1>1. CASE campaign' = campaign BY <1>1
<1>2. CASE campaign' = [campaign EXCEPT !.lease = w] BY <1>2
<1>3. CASE /\ campaign.status = "scheduled" /\ campaign.approver # NoOne
           /\ campaign' = [campaign EXCEPT !.status = "sending", !.begun = TRUE,
                                           !.lease = w]
  <2>1. campaign' \in Row BY <1>3
  <2> QED BY <1>3, <2>1
<1>4. CASE /\ campaign.status = "sending"
           /\ campaign' = [campaign EXCEPT !.status = "completed", !.lease = NoOne]
  <2>1. campaign' \in Row BY <1>4
  <2> QED BY <1>4, <2>1
<1> QED BY <1>1, <1>2, <1>3, <1>4 DEF RowMoves

LEMMA MailKept ==
    ASSUME NEW w \in Senders, Sound,
           \/ progressSending(w) \/ ensureRecipients(w)
           \/ LoadsBatch(w) \/ Held(w) \/ Skips(w) \/ Mails(w) \/ Records(w)
           \/ BatchEnds(w) \/ Dies(w)
    PROVE  mail' \in [Passengers -> {"none", "queued", "sent", "skipped", "failed"}]
<1>0. /\ worker[w] \in Job
      /\ mail \in [Passengers -> {"none", "queued", "sent", "skipped", "failed"}]
  BY DEF Sound
<1>1. CASE ensureRecipients(w) BY <1>0, <1>1 DEF ensureRecipients
<1>2. CASE Skips(w) BY <1>0, <1>2 DEF Skips
<1>3. CASE Records(w) BY <1>0, <1>3 DEF Records
<1>4. CASE ~(ensureRecipients(w) \/ Skips(w) \/ Records(w))
  <2>1. mail' = mail
    BY <1>4 DEF progressSending, LoadsBatch, Batch, Held, Mails, BatchEnds, Dies
  <2> QED BY <1>0, <2>1
<1> QED BY <1>1, <1>2, <1>3, <1>4

\* The histories of the mail name passengers.
LEMMA HistoryKept ==
    ASSUME NEW w \in Senders, Sound,
           \/ progressSending(w) \/ ensureRecipients(w)
           \/ LoadsBatch(w) \/ Held(w) \/ Skips(w) \/ Mails(w) \/ Records(w)
           \/ BatchEnds(w) \/ Dies(w)
    PROVE  twice' \subseteq Passengers /\ doubtful' \subseteq Passengers \cup {NoOne}
<1>0. /\ worker[w].todo \subseteq Passengers /\ worker[w].to \in Passengers \cup {NoOne}
      /\ twice \subseteq Passengers /\ doubtful \subseteq Passengers \cup {NoOne}
  BY DEF Sound, Job
<1>1. CASE Mails(w) BY <1>0, <1>1 DEF Mails
<1>2. CASE Dies(w)
  BY <1>0, <1>2 DEF Dies
<1>3. CASE LoadsBatch(w) BY <1>0, <1>3 DEF LoadsBatch, Batch
<1>4. CASE UNCHANGED <<twice, doubtful>> BY <1>0, <1>4
<1> QED
  BY <1>1, <1>2, <1>3, <1>4
     DEF progressSending, ensureRecipients, Held, Skips, Records, BatchEnds

\* Only Mails touches the inbox.
LEMMA InboxKept ==
    ASSUME NEW w \in Senders,
           \/ progressSending(w) \/ ensureRecipients(w)
           \/ LoadsBatch(w) \/ Held(w) \/ Skips(w) \/ Records(w)
           \/ BatchEnds(w) \/ Dies(w) \/ promoteDue(w)
    PROVE  inbox' = inbox
BY DEF progressSending, ensureRecipients, LoadsBatch, Batch, Held, Skips, Records,
   BatchEnds, Dies, promoteDue

LEMMA MailsAdds ==
    ASSUME NEW w \in Senders, Sound, Mails(w)
    PROVE  \/ inbox' = inbox
           \/ \E u \in Passengers : inbox' = inbox \cup {[to |-> u, text |-> worker[w].text]}
<1>1. worker[w].todo \subseteq Passengers BY DEF Sound, Job
<1> QED BY <1>1 DEF Mails

LEMMA SoundStep ==
    ASSUME Sound, [CampaignNext]_campaignVars
    PROVE  Sound'
<1>1. CASE UNCHANGED campaignVars
  BY <1>1 DEF campaignVars, Sound, RowSound, DeskSound
<1>2. CASE LeaseLapses
  <2>1. RowSound(campaign)'
    BY <1>2 DEF LeaseLapses, Sound, RowSound, Row, ReviewedRow
  <2> QED BY <1>2, <2>1 DEF LeaseLapses, Sound, DeskSound
<1>3. CASE \E s \in Marketers :
         Reads(s) \/ setChannel(s) \/ SetChannelSettles(s) \/ Saves(s) \/ Leaves(s)
  BY <1>3, StaffSound
<1>4. CASE \E w \in Senders : promoteDue(w)
  <2>1. PICK w \in Senders : promoteDue(w) BY <1>4
  <2>2. RowMoves(w) BY <2>1 DEF promoteDue, RowMoves
  <2>3. RowSound(campaign)' BY <2>2, MovedRow DEF Sound
  <2>4. overlapped' \in BOOLEAN BY <2>1 DEF promoteDue, Sound
  <2> QED BY <2>1, <2>3, <2>4 DEF promoteDue, Sound, DeskSound
<1>5. ASSUME NEW w \in Senders,
             \/ progressSending(w) \/ ensureRecipients(w)
             \/ LoadsBatch(w) \/ Held(w) \/ Skips(w) \/ Mails(w) \/ Records(w)
             \/ BatchEnds(w) \/ Dies(w)
      PROVE  Sound'
  <2>1. /\ RowMoves(w) /\ JobMoves(w)
        /\ UNCHANGED <<content, desk, overlapped>>
    BY <1>5, WorkerMoves
  <2>2. RowSound(campaign)' BY <2>1, MovedRow DEF Sound
  <2>3. worker' \in [Senders -> Job] BY <2>1 DEF JobMoves, Sound
  <2>4. mail' \in [Passengers -> {"none", "queued", "sent", "skipped", "failed"}]
    BY <1>5, MailKept
  <2>5. (\A m \in inbox : m.to \in Passengers /\ m.text \in 0..MaxEdits)'
    <3>1. worker[w].text \in 0..MaxEdits BY DEF Sound, Job
    <3>2. CASE inbox' = inbox BY <3>2 DEF Sound
    <3>3. CASE Mails(w) BY <3>1, <3>2, <3>3, MailsAdds DEF Sound
    <3> QED BY <1>5, <3>2, <3>3, InboxKept
  <2>6. twice' \subseteq Passengers /\ doubtful' \subseteq Passengers \cup {NoOne}
    BY <1>5, HistoryKept
  <2> QED BY <2>1, <2>2, <2>3, <2>4, <2>5, <2>6 DEF Sound, DeskSound
<1> QED BY <1>1, <1>2, <1>3, <1>4, <1>5 DEF CampaignNext

LEMMA MailStep ==
    ASSUME Sound, MailInHand, EmailOnce, [CampaignNext]_campaignVars
    PROVE  MailInHand' /\ EmailOnce'
<1>0. /\ worker \in [Senders -> Job] /\ inbox = inbox
      /\ mail \in [Passengers -> {"none", "queued", "sent", "skipped", "failed"}]
      /\ OneHand /\ OutOfQueue /\ HaveRows
  BY DEF Sound, MailInHand
<1> USE DEF MailInHand, EmailOnce
\* Nothing of it changes.
<1>1. ASSUME UNCHANGED <<worker, mail, inbox, twice, doubtful>>
      PROVE  MailInHand' /\ EmailOnce'
  BY <1>0, <1>1 DEF OneHand, OutOfQueue, HaveRows, Mailed, InHand
\* A worker lets go, or builds: it has nothing in its hands afterwards.
<1>2. ASSUME NEW w \in Senders, NEW job \in Job, job.at \in {"idle", "build"},
             worker' = [worker EXCEPT ![w] = job],
             UNCHANGED <<inbox, twice>>, doubtful \subseteq doubtful',
             mail' = mail \/ \E u \in Passengers :
                mail[u] = "none" /\ mail' = [mail EXCEPT ![u] = "queued"],
             worker[w].at = "record" /\ worker[w].ok => worker[w].to \in doubtful'
      PROVE  MailInHand' /\ EmailOnce'
  <2>1. /\ worker'[w] = job /\ \A v \in Senders \ {w} : worker'[v] = worker[v]
        /\ InHand(w)' = {} /\ \A v \in Senders \ {w} : InHand(v)' = InHand(v)
    BY <1>0, <1>2 DEF InHand
  <2>2. \A u \in Passengers : /\ mail[u] # "none" => mail'[u] = mail[u]
                              /\ mail'[u] # mail[u] => mail'[u] = "queued"
    BY <1>0, <1>2
  <2>3. OneHand' BY <1>0, <1>2, <2>1 DEF OneHand
  <2>4. OutOfQueue' BY <1>0, <1>2, <2>1, <2>2 DEF OutOfQueue, Mailed
  <2>5. HaveRows' BY <1>0, <2>1, <2>2 DEF HaveRows
  <2> QED BY <1>2, <2>3, <2>4, <2>5
<1>3. ASSUME NEW w \in Senders, finishIfDone(w), worker[w].at # "record",
             UNCHANGED <<mail, inbox, twice>>, doubtful \subseteq doubtful'
      PROVE  MailInHand' /\ EmailOnce'
  <2>1. Resting \in Job /\ Resting.at = "idle"
    BY CampaignAssumption DEF Resting, Job, CampaignAssumption
  <2>2. worker' = [worker EXCEPT ![w] = Resting] BY <1>3 DEF finishIfDone
  <2> QED BY <1>2, <1>3, <2>1, <2>2
<1>4. ASSUME NEW w \in Senders, progressSending(w) \/ ensureRecipients(w)
      PROVE  MailInHand' /\ EmailOnce'
  <2>1. PICK job \in Job : job.at = "build" /\ worker' = [worker EXCEPT ![w] = job]
    <3>1. CASE progressSending(w)
      <4> DEFINE all == IF \A u \in Passengers : mail[u] = "none" THEN Passengers ELSE {}
      <4> DEFINE job == [worker[w] EXCEPT !.at = "build", !.todo = all]
      <4>1. job \in Job /\ job.at = "build" BY <1>0 DEF Job
      <4>2. worker' = [worker EXCEPT ![w] = job] BY <1>0, <3>1 DEF progressSending
      <4> HIDE DEF job
      <4> QED BY <4>1, <4>2
    <3>2. CASE ensureRecipients(w)
      <4>1. PICK u \in worker[w].todo : worker' = [worker EXCEPT ![w].todo = @ \ {u}]
        BY <3>2 DEF ensureRecipients
      <4> DEFINE job == [worker[w] EXCEPT !.todo = @ \ {u}]
      <4>2. job \in Job /\ job.at = "build" BY <1>0, <3>2 DEF ensureRecipients, Job
      <4>3. worker' = [worker EXCEPT ![w] = job] BY <1>0, <4>1
      <4> HIDE DEF job
      <4> QED BY <4>2, <4>3
    <3> QED BY <1>4, <3>1, <3>2
  <2>2. /\ UNCHANGED <<inbox, twice, doubtful>> /\ worker[w].at # "record"
        /\ \/ mail' = mail
           \/ \E u \in Passengers :
                mail[u] = "none" /\ mail' = [mail EXCEPT ![u] = "queued"]
    <3>1. CASE progressSending(w) BY <3>1 DEF progressSending
    <3>2. CASE ensureRecipients(w)
      <4>1. PICK u \in worker[w].todo :
              mail' = [mail EXCEPT ![u] = IF @ = "none" THEN "queued" ELSE @]
        BY <3>2 DEF ensureRecipients
      <4>2. u \in Passengers BY <1>0 DEF Job
      <4>3. CASE mail[u] = "none" BY <1>0, <3>2, <4>1, <4>2, <4>3 DEF ensureRecipients
      <4>4. CASE mail[u] # "none"
        <5>1. mail' = mail BY <1>0, <4>1, <4>2, <4>4
        <5> QED BY <3>2, <5>1 DEF ensureRecipients
      <4> QED BY <4>3, <4>4
    <3> QED BY <1>4, <3>1, <3>2
  <2> QED BY <1>2, <2>1, <2>2
<1>5. ASSUME NEW w \in Senders, LoadsBatch(w)
      PROVE  MailInHand' /\ EmailOnce'
  <2> DEFINE due == {u \in Passengers : mail[u] = "queued"}
             held == UNION {InHand(v) : v \in Senders \ {w}}
  <2>1. /\ worker[w].at = "build"
        /\ doubtful' = doubtful \cup (due \cap held) /\ UNCHANGED <<mail, inbox, twice>>
    BY <1>5 DEF LoadsBatch, Batch
  <2>2. CASE finishIfDone(w) BY <1>3, <2>1, <2>2
  <2>3. CASE worker' = [worker EXCEPT ![w].at = "batch", ![w].todo = due,
                                      ![w].text = content]
    <3>1. /\ worker'[w].at = "batch" /\ worker'[w].todo = due
          /\ \A v \in Senders \ {w} : worker'[v] = worker[v]
          /\ InHand(w)' = due /\ \A v \in Senders \ {w} : InHand(v)' = InHand(v)
      BY <1>0, <2>3 DEF InHand, Job
    <3>2. OneHand' BY <1>0, <2>1, <3>1 DEF OneHand
    <3>3. ASSUME NEW u \in Passengers, u \notin doubtful', Mailed(u)
          PROVE  u \notin due
      <4>1. SUFFICES ASSUME u \in due PROVE FALSE OBVIOUS
      <4>2. PICK v \in Senders : worker[v].at = "record" /\ worker[v].to = u
        BY <1>0, <2>1, <3>3, <4>1 DEF OutOfQueue
      <4>3. v # w /\ u \in InHand(v) BY <2>1, <4>2 DEF InHand
      <4> QED BY <2>1, <3>3, <4>1, <4>3
    <3>4. OutOfQueue'
      <4> SUFFICES ASSUME NEW u \in Passengers, u \notin doubtful', Mailed(u)
                   PROVE  /\ mail[u] # "none"
                          /\ mail[u] # "queued"
                          /\ \A v \in Senders : worker'[v].at \in {"batch", "record"}
                                => u \notin worker'[v].todo
                          /\ \A v \in Senders : worker'[v].at = "record" /\ worker'[v].to = u
                                => worker'[v].ok
        BY <2>1 DEF OutOfQueue, Mailed
      <4> QED BY <1>0, <2>1, <3>1, <3>3 DEF OutOfQueue
    <3>5. HaveRows' BY <1>0, <2>1, <3>1 DEF HaveRows
    <3> QED BY <2>1, <3>2, <3>4, <3>5
  <2> QED BY <1>5, <2>2, <2>3 DEF LoadsBatch, Batch
<1>6. ASSUME NEW w \in Senders, Skips(w)
      PROVE  MailInHand' /\ EmailOnce'
  <2>1. PICK u \in worker[w].todo :
          /\ worker[w].at = "batch"
          /\ mail' = [mail EXCEPT ![u] = "skipped"]
          /\ worker' = [worker EXCEPT ![w].todo = @ \ {u}]
          /\ UNCHANGED <<inbox, twice, doubtful>>
    BY <1>6 DEF Skips
  <2>2. /\ u \in Passengers /\ u \in InHand(w)
        /\ worker'[w].at = "batch" /\ worker'[w].todo = worker[w].todo \ {u}
        /\ \A v \in Senders \ {w} : worker'[v] = worker[v]
        /\ InHand(w)' = InHand(w) \ {u} /\ \A v \in Senders \ {w} : InHand(v)' = InHand(v)
        /\ mail'[u] = "skipped" /\ \A x \in Passengers \ {u} : mail'[x] = mail[x]
    BY <1>0, <2>1 DEF Job, InHand
  <2>3. OneHand' BY <1>0, <2>1, <2>2 DEF OneHand
  <2>4. OutOfQueue' BY <1>0, <2>1, <2>2 DEF OutOfQueue, Mailed
  <2>5. HaveRows' BY <1>0, <2>2 DEF HaveRows
  <2> QED BY <2>1, <2>3, <2>4, <2>5
<1>7. ASSUME NEW w \in Senders, Mails(w)
      PROVE  MailInHand' /\ EmailOnce'
  <2>1. PICK u \in worker[w].todo, accepted \in BOOLEAN, ok \in BOOLEAN :
          /\ worker[w].at = "batch" /\ (ok => accepted)
          /\ inbox' = IF accepted THEN inbox \cup {[to |-> u, text |-> worker[w].text]}
                      ELSE inbox
          /\ twice' = IF accepted /\ Mailed(u) THEN twice \cup {u} ELSE twice
          /\ doubtful' = IF accepted /\ ~ok THEN doubtful \cup {u} ELSE doubtful
          /\ worker' = [worker EXCEPT ![w].at = "record", ![w].todo = @ \ {u},
                                      ![w].to = u, ![w].ok = ok]
          /\ mail' = mail
    BY <1>7 DEF Mails, Mailed
  <2>2. /\ u \in Passengers /\ u \in InHand(w)
        /\ worker'[w].at = "record" /\ worker'[w].todo = worker[w].todo \ {u}
        /\ worker'[w].to = u /\ worker'[w].ok = ok
        /\ \A v \in Senders \ {w} : worker'[v] = worker[v]
        /\ InHand(w)' = InHand(w) /\ \A v \in Senders \ {w} : InHand(v)' = InHand(v)
    BY <1>0, <2>1 DEF Job, InHand
  <2>3. OneHand' BY <1>0, <2>1, <2>2 DEF OneHand
  <2>4. \A x \in Passengers : Mailed(x)' => Mailed(x) \/ (x = u /\ accepted)
    BY <2>1 DEF Mailed
  <2>5. u \notin doubtful => ~Mailed(u) BY <1>0, <2>1, <2>2 DEF OutOfQueue
  <2>6. ASSUME u \notin doubtful', accepted
        PROVE  /\ ok /\ mail[u] # "none"
               /\ \A v \in Senders \ {w} : u \notin InHand(v)
    BY <1>0, <2>1, <2>2, <2>6 DEF OneHand, HaveRows
  <2>7. OutOfQueue'
    <3> SUFFICES ASSUME NEW x \in Passengers, x \notin doubtful', Mailed(x)'
                 PROVE  /\ mail[x] # "none"
                        /\ mail[x] = "queued" => \E v \in Senders :
                              worker'[v].at = "record" /\ worker'[v].to = x /\ worker'[v].ok
                        /\ \A v \in Senders : worker'[v].at \in {"batch", "record"}
                              => x \notin worker'[v].todo
                        /\ \A v \in Senders : worker'[v].at = "record" /\ worker'[v].to = x
                              => worker'[v].ok
      BY <2>1 DEF OutOfQueue
    <3>1. CASE x = u
      <4>1. accepted BY <2>1, <2>4, <2>5, <3>1
      <4>2. \A v \in Senders \ {w} : u \notin InHand(v)' BY <2>2, <2>6, <3>1, <4>1
      <4> QED BY <2>2, <2>6, <3>1, <4>1, <4>2 DEF InHand
    <3>2. CASE x # u
      <4>1. Mailed(x) /\ x \notin doubtful BY <2>1, <2>4, <3>2
      <4> QED BY <1>0, <2>1, <2>2, <3>2, <4>1 DEF OutOfQueue
    <3> QED BY <3>1, <3>2
  <2>8. HaveRows' BY <1>0, <2>1, <2>2 DEF HaveRows
  <2>9. EmailOnce' BY <2>1, <2>5
  <2> QED BY <2>3, <2>7, <2>8, <2>9
<1>8. ASSUME NEW w \in Senders, Records(w)
      PROVE  MailInHand' /\ EmailOnce'
  <2> DEFINE u == worker[w].to
  <2>1. PICK outcome \in {"sent", "queued", "failed"} :
          /\ worker[w].at = "record" /\ (worker[w].ok => outcome = "sent")
          /\ mail' = [mail EXCEPT ![u] = outcome]
          /\ worker' = [worker EXCEPT ![w].at = "batch", ![w].to = NoOne, ![w].ok = TRUE]
          /\ UNCHANGED <<inbox, twice, doubtful>>
    BY <1>8 DEF Records
  <2>2. /\ u \in InHand(w) /\ u \in Passengers
        /\ worker'[w].at = "batch" /\ worker'[w].todo = worker[w].todo
        /\ \A v \in Senders \ {w} : worker'[v] = worker[v]
        /\ InHand(w)' \subseteq InHand(w)
        /\ \A v \in Senders \ {w} : InHand(v)' = InHand(v)
        /\ mail'[u] = outcome /\ \A x \in Passengers \ {u} : mail'[x] = mail[x]
    BY <1>0, <2>1 DEF Job, InHand, HaveRows
  <2>3. OneHand' BY <1>0, <2>1, <2>2 DEF OneHand
  <2>4. OutOfQueue' BY <1>0, <2>1, <2>2 DEF OutOfQueue, Mailed
  <2>5. HaveRows' BY <1>0, <2>2 DEF HaveRows
  <2> QED BY <2>1, <2>3, <2>4, <2>5
<1>9. ASSUME NEW w \in Senders, Dies(w) \/ BatchEnds(w) \/ Held(w) \/ promoteDue(w)
      PROVE  MailInHand' /\ EmailOnce'
  <2>1. Resting \in Job /\ Resting.at = "idle"
    BY CampaignAssumption DEF Resting, Job, CampaignAssumption
  <2>2. CASE promoteDue(w) BY <1>1, <2>2 DEF promoteDue
  <2>3. CASE BatchEnds(w) BY <1>3, <2>3 DEF BatchEnds
  <2>4. CASE Held(w) BY <1>2, <2>1, <2>4 DEF Held
  <2>5. CASE Dies(w) BY <1>2, <2>1, <2>5 DEF Dies
  <2> QED BY <1>9, <2>2, <2>3, <2>4, <2>5
<1>10. CASE LeaseLapses \/ UNCHANGED campaignVars
  BY <1>1, <1>10 DEF LeaseLapses, campaignVars
<1>11. CASE \E s \in Marketers :
         Reads(s) \/ setChannel(s) \/ SetChannelSettles(s) \/ Saves(s) \/ Leaves(s)
  BY <1>1, <1>11 DEF Reads, setChannel, SetChannelSettles, Saves, Leaves
<1> QED BY <1>4, <1>5, <1>6, <1>7, <1>8, <1>9, <1>10, <1>11 DEF CampaignNext

-----------------------------------------------------------------------------
(* What goes out is what was approved.                                     *)

LEMMA TextInvIs ==
    TextInv /\ ~overlapped =>
        Begun /\ Released /\ Approved /\ WorkersSend /\ MailSays /\ Editing
BY DEF TextInv

\* The steps of the staff, none of which meets another.
LEMMA StaffText ==
    ASSUME Sound, TextInv, NEW s \in Marketers, ~overlapped', ~overlapped,
           Reads(s) \/ setChannel(s) \/ SetChannelSettles(s) \/ Saves(s) \/ Leaves(s)
    PROVE  (Begun /\ Released /\ Approved /\ WorkersSend /\ MailSays /\ Editing)'
<1>0. Begun /\ Released /\ Approved /\ WorkersSend /\ MailSays /\ Editing
  BY TextInvIs
<1>1. /\ desk \in [Marketers -> Desk] /\ desk[s] \in Desk /\ campaign \in Row
      /\ worker' = worker /\ inbox' = inbox /\ content \in 0..MaxEdits
  BY DEF Sound, RowSound, DeskSound, Reads, setChannel, SetChannelSettles, Saves, Leaves
<1>2. CASE Reads(s) \/ Leaves(s)
  <2>1. /\ UNCHANGED <<campaign, content>>
        /\ \E d \in Desk : d.at # "written" /\ desk' = [desk EXCEPT ![s] = d]
        /\ desk[s].at # "written"
    <3>1. CASE Reads(s)
      <4>1. [at |-> "read", seen |-> campaign] \in Desk BY <1>1 DEF Desk
      <4> QED BY <3>1, <4>1 DEF Reads
    <3>2. CASE Leaves(s)
      <4>1. NoTask \in Desk BY NewRowOK DEF NoTask, Desk
      <4> QED BY <3>2, <4>1 DEF Leaves, NoTask
    <3> QED BY <1>2, <3>1, <3>2
  <2>2. PICK d \in Desk : d.at # "written" /\ desk' = [desk EXCEPT ![s] = d] BY <2>1
  <2>3. \A t \in Marketers : desk'[t].at = "written" => 
                t # s /\ desk'[t] = desk[t]
    BY <1>1, <2>2
  <2>4. (\A t \in Marketers : desk'[t].at # "written")
          => \A t \in Marketers : desk[t].at # "written"
    BY <1>1, <2>1, <2>2
  <2>5. Approved' BY <1>0, <2>1, <2>4 DEF Approved
  <2>6. Editing' BY <1>0, <2>1, <2>3 DEF Editing
  <2> QED BY <1>0, <1>1, <2>1, <2>5, <2>6 DEF Begun, Released, WorkersSend, MailSays
<1>3. ASSUME setChannel(s) \/ SetChannelSettles(s) \/ Saves(s)
      PROVE  /\ \A t \in Marketers \ {s} : desk[t].at = "idle"
             /\ desk[s].seen = campaign
  BY <1>3 DEF Overlaps, setChannel, SetChannelSettles, Saves
<1>4. CASE setChannel(s)
  <2>1. /\ campaign' = campaign /\ desk[s].at = "read" /\ content' = content + 1
        /\ campaign.status \notin {"sending", "completed", "cancelled"}
    BY <1>3, <1>4 DEF setChannel, Allowed, Terminal
  <2>2. ~campaign.begun BY <1>0, <2>1 DEF Begun
  <2>3. desk' = [desk EXCEPT ![s].at = "written"] BY <1>4 DEF setChannel
  <2>4. desk'[s].at = "written" /\ desk'[s].seen = desk[s].seen BY <1>1, <2>3 DEF Desk
  <2>5. \A t \in Marketers \ {s} : desk'[t] = desk[t] BY <1>1, <2>3
  <2>6. Approved' BY <2>4 DEF Approved
  <2>7. Editing' BY <1>3, <1>4, <2>1, <2>4, <2>5 DEF Editing
  <2>8. Released' BY <1>0, <2>1 DEF Released
  <2>9. WorkersSend' BY <1>0, <1>1, <2>1, <2>2 DEF WorkersSend
  <2>10. MailSays' BY <1>0, <1>1, <2>1, <2>2 DEF MailSays
  <2> QED BY <2>1, <2>2, <2>6, <2>7, <2>8, <2>9, <2>10 DEF Begun
<1>5. CASE SetChannelSettles(s)
  <2>1. /\ desk[s].at = "written" /\ content' = content
        /\ desk' = [desk EXCEPT ![s] = NoTask]
        /\ campaign' = IF invalidateApproval(campaign) # campaign
                       THEN invalidateApproval(campaign) ELSE campaign
    BY <1>3, <1>5 DEF SetChannelSettles
  <2>2. campaign' = invalidateApproval(campaign) BY <2>1
  <2>3. /\ campaign'.begun = campaign.begun /\ campaign'.lease = campaign.lease
        /\ campaign'.status \notin {"approved", "scheduled"}
        /\ campaign' # campaign => campaign'.status = "draft"
    BY <2>2, InvalidOK DEF Sound, RowSound
  <2>4. campaign.status \notin {"sending", "completed", "cancelled"}
    BY <1>0, <2>1 DEF Editing
  <2>5. ~campaign.begun BY <1>0, <2>4 DEF Begun
  <2>6. \A t \in Marketers : desk'[t].at # "written"
    BY <1>1, <1>3, <1>5, <2>1 DEF NoTask
  <2>7. Approved' BY <2>3 DEF Approved
  <2>8. Editing' BY <2>6 DEF Editing
  <2>9. Released' BY <1>0, <2>3, <2>4 DEF Released
  <2>10. WorkersSend' BY <1>0, <1>1, <2>1, <2>3 DEF WorkersSend
  <2>11. MailSays' BY <1>0, <1>1, <2>1, <2>3 DEF MailSays
  <2> QED BY <2>3, <2>5, <2>7, <2>8, <2>9, <2>10, <2>11 DEF Begun
<1>6. CASE Saves(s)
  <2>1. PICK op \in Operations :
          /\ Allowed(op, s, campaign)
          /\ campaign' = Saved(op, s, campaign)
    BY <1>3, <1>6 DEF Saves
  <2>2. /\ desk[s].at = "read" /\ content' = content
        /\ desk' = [desk EXCEPT ![s] = NoTask]
    BY <1>6 DEF Saves
  <2>3. /\ campaign'.begun = campaign.begun /\ campaign'.lease = campaign.lease
    BY <1>1, <2>1, SavedOK DEF Sound, RowSound
  <2>4. /\ \A t \in Marketers : desk'[t].at # "written"
        /\ \A t \in Marketers : desk[t].at # "written"
    BY <1>1, <1>3, <1>6, <2>2 DEF NoTask
  <2>5. /\ campaign.begun => campaign'.status \in {"sending", "completed", "cancelled"}
                             /\ campaign'.approved = campaign.approved
        /\ campaign'.status = "sending" => campaign.status = "sending"
        /\ campaign'.status \in {"approved", "scheduled"} =>
             campaign'.approved = content
    <3>1. CASE op = "edit"
      <4>1. /\ campaign.status \notin {"sending", "completed", "cancelled"}
            /\ campaign' = invalidateApproval(campaign)
        BY <2>1, <3>1 DEF Allowed, Saved, Terminal
      <4>2. ~campaign.begun BY <1>0, <4>1 DEF Begun
      <4> QED BY <4>1, <4>2, InvalidOK DEF Sound, RowSound
    <3>2. CASE op = "test"
      <4>1. campaign' = [campaign EXCEPT !.tested = TRUE] BY <2>1, <3>2 DEF Saved
      <4>2. campaign'.status = campaign.status /\ campaign'.approved = campaign.approved
        BY <1>1, <4>1 DEF Row
      <4> QED BY <1>0, <2>4, <4>2 DEF Begun, Approved
    <3>3. CASE op = "requestApproval"
      <4>1. /\ campaign.status = "draft"
            /\ campaign' = [campaign EXCEPT !.status = "awaiting_approval"]
        BY <2>1, <3>3 DEF Saved, Allowed
      <4>2. campaign'.status = "awaiting_approval" BY <1>1, <4>1 DEF Row
      <4> QED BY <1>0, <4>1, <4>2 DEF Begun
    <3>4. CASE op = "approve"
      <4>1. /\ campaign.status = "awaiting_approval"
            /\ campaign' = [campaign EXCEPT !.status = "approved", !.approver = s,
                                            !.approved = content]
        BY <2>1, <3>4 DEF Saved, Allowed, mayApprove
      <4>2. campaign'.status = "approved" /\ campaign'.approved = content
        BY <1>1, <4>1 DEF Row
      <4> QED BY <1>0, <4>1, <4>2 DEF Begun
    <3>5. CASE op = "reschedule"
      <4>1. /\ ~campaign.begun /\ campaign.status \in RESCHEDULABLE
            /\ campaign' = [campaign EXCEPT !.placed = TRUE,
                  !.status = IF @ = "approved" THEN "scheduled" ELSE @]
        BY <2>1, <3>5 DEF Saved, Allowed
      <4>2. /\ campaign'.status = IF campaign.status = "approved" THEN "scheduled"
                                  ELSE campaign.status
            /\ campaign'.approved = campaign.approved
        BY <1>1, <4>1 DEF Row
      <4> QED BY <1>0, <2>4, <4>1, <4>2 DEF Approved, RESCHEDULABLE
    <3>6. CASE op = "cancel"
      <4>1. campaign' = [campaign EXCEPT !.status = "cancelled"]
        BY <2>1, <3>6 DEF Saved
      <4>2. campaign'.status = "cancelled" /\ campaign'.approved = campaign.approved
        BY <1>1, <4>1 DEF Row
      <4> QED BY <4>2
    <3> QED BY <3>1, <3>2, <3>3, <3>4, <3>5, <3>6 DEF Operations
  <2>6. Begun' BY <1>0, <2>2, <2>3, <2>5 DEF Begun
  <2>7. Released' BY <1>0, <2>3, <2>5 DEF Released
  <2>8. Approved' BY <2>2, <2>5 DEF Approved
  <2>9. WorkersSend' BY <1>0, <1>1, <2>2, <2>3 DEF WorkersSend
  <2>10. MailSays' BY <1>0, <1>1, <2>2, <2>3 DEF MailSays
  <2>11. Editing' BY <2>4 DEF Editing
  <2> QED BY <2>6, <2>7, <2>8, <2>9, <2>10, <2>11
<1> QED BY <1>2, <1>4, <1>5, <1>6

\* The steps of the workers.
LEMMA WorkerText ==
    ASSUME Sound, TextInv, NEW w \in Senders, ~overlapped', ~overlapped,
           \/ progressSending(w) \/ ensureRecipients(w)
           \/ LoadsBatch(w) \/ Held(w) \/ Skips(w) \/ Mails(w) \/ Records(w)
           \/ BatchEnds(w) \/ Dies(w)
    PROVE  (Begun /\ Released /\ Approved /\ WorkersSend /\ MailSays /\ Editing)'
<1>0. Begun /\ Released /\ Approved /\ WorkersSend /\ MailSays /\ Editing
  BY TextInvIs
<1>1. /\ RowMoves(w) /\ JobMoves(w)
      /\ UNCHANGED <<content, desk, overlapped>>
  BY WorkerMoves
<1>2. /\ campaign \in Row /\ worker \in [Senders -> Job] /\ worker[w] \in Job
  BY DEF Sound, RowSound
<1>3. /\ worker[w].at # "idle" => campaign.begun
      /\ worker[w].at \in {"batch", "record"} => worker[w].text = content
  BY <1>0 DEF WorkersSend
<1>4. campaign.begun \/ campaign' = campaign
  <2>1. CASE worker[w].at # "idle" BY <1>3, <2>1
  <2>2. CASE worker[w].at = "idle"
    <3>1. progressSending(w)
      BY <2>2 DEF ensureRecipients, LoadsBatch, Batch, Held, Skips, Mails, Records,
                  BatchEnds, Dies
    <3>2. campaign.status = "sending" BY <3>1 DEF progressSending
    <3> QED BY <1>0, <3>2 DEF Released
  <2> QED BY <2>1, <2>2
<1>5. /\ campaign'.begun = campaign.begun
      /\ campaign'.approved = campaign.approved
      /\ campaign'.status \in {campaign.status, "completed"}
      /\ campaign'.status # campaign.status => campaign.status = "sending"
  BY <1>2, <1>1, <1>4, <1>0 DEF RowMoves, Row, Begun
<1>6. Begun' BY <1>0, <1>1, <1>5 DEF Begun
<1>7. Released' BY <1>0, <1>4, <1>5 DEF Released
<1>8. Approved' BY <1>0, <1>1, <1>5 DEF Approved
<1>9. Editing'
  <2>1. CASE campaign.begun BY <1>0, <1>1, <2>1 DEF Begun, Editing
  <2>2. CASE campaign' = campaign BY <1>0, <1>1, <2>2 DEF Editing
  <2> QED BY <1>4, <2>1, <2>2
<1>10. /\ worker'[w].at # "idle" => campaign.begun
       /\ worker'[w].at \in {"batch", "record"} => worker'[w].text = content
  <2>1. CASE progressSending(w)
    <3>1. campaign.begun BY <1>0, <2>1 DEF progressSending, Released
    <3>2. worker'[w].at = "build" BY <1>2, <2>1 DEF progressSending, Job
    <3> QED BY <3>1, <3>2
  <2>2. CASE ensureRecipients(w)
    BY <1>2, <1>3, <2>2 DEF ensureRecipients, Job
  <2>3. CASE LoadsBatch(w)
    <3>1. CASE finishIfDone(w)
      BY <1>2, <3>1 DEF finishIfDone, Resting
    <3>2. CASE ~finishIfDone(w)
      <4> DEFINE due == {u \in Passengers : mail[u] = "queued"}
      <4>0. worker' = [worker EXCEPT ![w].at = "batch", ![w].todo = due,
                                     ![w].text = content]
        BY <2>3, <3>2 DEF LoadsBatch, Batch
      <4> HIDE DEF due
      <4>1. worker'[w].at = "batch" /\ worker'[w].text = content
        BY <1>2, <4>0 DEF Job
      <4>2. worker[w].at = "build" BY <2>3 DEF LoadsBatch, Batch
      <4> QED BY <1>3, <4>1, <4>2
    <3> QED BY <3>1, <3>2
  <2>4. CASE Held(w) \/ Dies(w) BY <1>2, <2>4 DEF Held, Dies, Resting
  <2>5. CASE Skips(w) BY <1>2, <1>3, <2>5 DEF Skips, Job
  <2>6. CASE Mails(w)
    <3>1. worker[w].at = "batch" /\ worker'[w].text = worker[w].text
      <4>1. PICK u \in worker[w].todo, ok \in BOOLEAN :
              worker' = [worker EXCEPT ![w].at = "record", ![w].todo = @ \ {u},
                                       ![w].to = u, ![w].ok = ok]
        BY <2>6 DEF Mails
      <4>2. worker'[w] = [worker[w] EXCEPT !.at = "record", !.todo = @ \ {u},
                                           !.to = u, !.ok = ok]
        BY <1>2, <4>1
      <4>3. worker[w].at = "batch" BY <2>6 DEF Mails
      <4> QED BY <1>2, <4>2, <4>3 DEF Job
    <3> QED BY <1>3, <3>1
  <2>7. CASE Records(w)
    <3>1. worker[w].at = "record" /\ worker'[w].text = worker[w].text
      BY <1>2, <2>7 DEF Records, Job
    <3> QED BY <1>3, <3>1
  <2>8. CASE BatchEnds(w) BY <1>2, <2>8 DEF BatchEnds, finishIfDone, Resting
  <2> QED BY <2>1, <2>2, <2>3, <2>4, <2>5, <2>6, <2>7, <2>8
<1>11. WorkersSend'
  <2>1. \A v \in Senders \ {w} : worker'[v] = worker[v]
    BY <1>1, <1>2 DEF JobMoves
  <2> QED BY <1>0, <1>1, <1>5, <1>10, <2>1 DEF WorkersSend
<1>12. MailSays'
  <2>1. CASE inbox' = inbox BY <1>0, <1>1, <1>5, <2>1 DEF MailSays
  <2>2. CASE Mails(w)
    <3>1. worker[w].at = "batch" BY <2>2 DEF Mails
    <3> QED BY <1>0, <1>1, <1>3, <1>5, <2>1, <2>2, <3>1, MailsAdds DEF MailSays
  <2> QED BY <2>1, <2>2, InboxKept
<1> QED BY <1>6, <1>7, <1>8, <1>9, <1>11, <1>12

LEMMA TextStep ==
    ASSUME Sound, TextInv, [CampaignNext]_campaignVars
    PROVE  TextInv'
<1> SUFFICES ASSUME ~overlapped'
             PROVE (Begun /\ Released /\ Approved /\ WorkersSend /\ MailSays /\ Editing)'
  BY DEF TextInv
<1>1. CASE UNCHANGED campaignVars
  BY <1>1 DEF campaignVars, TextInv, Begun, Released, Approved, WorkersSend, MailSays,
     Editing
<1>2. CASE LeaseLapses
  <2>1. campaign' = [campaign EXCEPT !.lease = NoOne] /\ campaign.lease # NoOne
        /\ UNCHANGED <<content, desk, worker, inbox, overlapped>>
    BY <1>2 DEF LeaseLapses
  <2>2. Begun /\ Released /\ Approved /\ WorkersSend /\ MailSays /\ Editing
    BY <2>1, TextInvIs
  <2>3. /\ campaign'.status = campaign.status /\ campaign'.begun = campaign.begun
        /\ campaign'.approved = campaign.approved
    BY <2>1 DEF Sound, RowSound, Row
  <2>4. campaign.begun BY <2>1, <2>2 DEF Released
  <2>5. Editing' BY <2>1, <2>2, <2>4 DEF Begun, Editing
  <2> QED BY <2>1, <2>2, <2>3, <2>4, <2>5
          DEF Begun, Released, Approved, WorkersSend, MailSays
<1>3. CASE \E s \in Marketers :
         Reads(s) \/ setChannel(s) \/ SetChannelSettles(s) \/ Saves(s) \/ Leaves(s)
  <2>1. ~overlapped
    BY <1>3 DEF Reads, setChannel, SetChannelSettles, Saves, Leaves
  <2> QED BY <1>3, <2>1, StaffText
<1>4. ASSUME NEW w \in Senders, promoteDue(w)
      PROVE  (Begun /\ Released /\ Approved /\ WorkersSend /\ MailSays /\ Editing)'
  <2>1. /\ campaign.status = "scheduled" /\ ~overlapped
        /\ \A s \in Marketers : desk[s].at = "idle"
        /\ campaign' = [campaign EXCEPT !.status = "sending", !.begun = TRUE, !.lease = w]
        /\ UNCHANGED <<content, desk, worker, inbox>>
    BY <1>4 DEF promoteDue
  <2>2. Begun /\ Released /\ Approved /\ WorkersSend /\ MailSays /\ Editing
    BY <2>1, TextInvIs
  <2>3. /\ campaign'.status = "sending" /\ campaign'.begun
        /\ campaign'.approved = campaign.approved
    BY <2>1 DEF Sound, RowSound, Row
  <2>4. campaign.approved = content BY <2>1, <2>2 DEF Approved
  <2> QED BY <2>1, <2>2, <2>3, <2>4
          DEF Begun, Released, Approved, WorkersSend, MailSays, Editing
<1>5. CASE \E w \in Senders :
           \/ progressSending(w) \/ ensureRecipients(w)
           \/ LoadsBatch(w) \/ Held(w) \/ Skips(w) \/ Mails(w) \/ Records(w)
           \/ BatchEnds(w) \/ Dies(w)
  <2>1. ~overlapped BY <1>5, WorkerMoves
  <2> QED BY <1>5, <2>1, WorkerText
<1> QED BY <1>1, <1>2, <1>3, <1>4, <1>5 DEF CampaignNext

-----------------------------------------------------------------------------
(* The theorems.                                                           *)

LEMMA CampaignInvariant == CampaignSpec => []CampaignInv
<1>1. CampaignInit => CampaignInv BY CampaignInvInit
<1>2. CampaignInv /\ [CampaignNext]_campaignVars => CampaignInv'
  <2> SUFFICES ASSUME CampaignInv, [CampaignNext]_campaignVars PROVE CampaignInv'
    OBVIOUS
  <2>1. Sound /\ MailInHand /\ EmailOnce /\ TextInv BY SoundIs DEF CampaignInv
  <2>2. Sound' BY <2>1, SoundStep
  <2>3. CampaignTypeOK' /\ RowsReviewed'
    BY <2>2 DEF Sound, RowSound, DeskSound, CampaignTypeOK, RowsReviewed, Desk, Job
  <2> QED BY <2>1, <2>3, MailStep, TextStep DEF CampaignInv
<1> QED BY <1>1, <1>2, PTL DEF CampaignSpec

\* The row, the copies of it in the hands of the staff, the recipients, the
\* workers and the messages keep the shapes the services store
\* (multichannel_campaign_service.ts, campaign_dispatch_worker.ts).
THEOREM CampaignTypes == CampaignSpec => []CampaignTypeOK
BY CampaignInvariant, PTL DEF CampaignInv

\* Whatever crashes, lapses or is lost, no passenger gets two e-mails of one
\* campaign: every attempt carries the recipient's one key
\* (campaign_dispatch_worker.ts:25).
THEOREM OneEmail == CampaignSpec => []EmailOnce
BY CampaignInvariant, PTL DEF CampaignInv

\* Nothing is sent that was not tested, and approved by somebody other than its
\* author, even though every operation saves the whole row it read
\* (multichannel_campaign_service.ts:529).
THEOREM OnlyReviewed == CampaignSpec => []Reviewed
<1>1. CampaignInv => Reviewed BY DEF CampaignInv, RowsReviewed, ReviewedRow, Reviewed
<1> QED BY <1>1, CampaignInvariant, PTL

\* As long as no two operations overlap, the passengers get the content that was
\* approved (multichannel_campaign_service.ts:244).
THEOREM ApprovedIsSent == CampaignSpec => []SentAsApproved
<1>1. CampaignInv => SentAsApproved
  BY DEF CampaignInv, TextInv, Begun, MailSays, SentAsApproved
<1> QED BY <1>1, CampaignInvariant, PTL

-------------------------------------------------------------------------------
(* Mail feedback *)

Serving == [at : HandlerAt, row : RecipientStatuses, pref : Preference,
            event : RecipientStatuses \cup {"none", "contact"}]

\* Who said stop is off, and no address that is barred is free.
StopInv == withdrawn /\ ~clobbered => ~preference.marketing
BarredInv == barred => lifted \/ suppression # "none"
EventInv == \A h \in MailHandlers :
    handler[h].at = "marking" => handler[h].event \in MailEvents
MailInv == MailTypeOK /\ EventInv /\ StopInv /\ BarredInv

LEMMA MailInvInit == MailInit => MailInv
<1> SUFFICES ASSUME MailInit PROVE MailInv OBVIOUS
<1>1. NothingOn \in Preference BY DEF NothingOn, Preference
<1>2. FreeHandler \in Serving /\ FreeHandler.at = "idle"
  BY <1>1 DEF FreeHandler, Serving, HandlerAt, RecipientStatuses
<1>3. handler \in [MailHandlers -> Serving] BY <1>2 DEF MailInit
<1>4. MailTypeOK
  BY <1>1, <1>3 DEF MailInit, MailTypeOK, Serving, RecipientStatuses
<1>5. EventInv /\ StopInv /\ BarredInv
  BY <1>2 DEF MailInit, EventInv, StopInv, BarredInv
<1> QED BY <1>4, <1>5 DEF MailInv

\* A step of a handler leaves it with a row of the right shape, named here.
LEMMA HandlerMoves ==
    ASSUME MailInv, NEW h \in MailHandlers, NEW r \in Serving,
           handler' = [handler EXCEPT ![h] = r],
           r.at # "marking" \/ r.event \in MailEvents
    PROVE  /\ handler' \in [MailHandlers -> Serving] /\ EventInv'
           /\ handler'[h] = r
           /\ \A g \in MailHandlers \ {h} : handler'[g] = handler[g]
<1>1. handler \in [MailHandlers -> Serving] BY DEF MailInv, MailTypeOK, Serving
<1> QED BY <1>1 DEF EventInv, MailInv

LEMMA MailInvStep == MailInv /\ [MailNext]_mailVars => MailInv'
<1> SUFFICES ASSUME MailInv, [MailNext]_mailVars PROVE MailInv' OBVIOUS
<1>0. /\ handler \in [MailHandlers -> Serving] /\ preference \in Preference
      /\ recipient \in RecipientStatuses /\ suppression \in {"none", "liftable", "final"}
      /\ withdrawn \in BOOLEAN /\ barred \in BOOLEAN /\ lifted \in BOOLEAN
      /\ clobbered \in BOOLEAN
  BY DEF MailInv, MailTypeOK, Serving
<1>f. /\ FreeHandler \in Serving
      /\ FreeHandler.at = "idle" /\ FreeHandler.pref \in Preference
      /\ NothingOn \in Preference /\ ~NothingOn.marketing
  BY DEF FreeHandler, Serving, HandlerAt, RecipientStatuses, NothingOn, Preference
<1>t. ASSUME handler' \in [MailHandlers -> Serving], preference' \in Preference,
             recipient' \in RecipientStatuses,
             suppression' \in {"none", "liftable", "final"},
             withdrawn' \in BOOLEAN, barred' \in BOOLEAN, lifted' \in BOOLEAN,
             clobbered' \in BOOLEAN, EventInv', StopInv', BarredInv'
      PROVE  MailInv'
  BY <1>t DEF MailInv, MailTypeOK, Serving
<1> USE DEF MailInv, History
<1>1. CASE UNCHANGED mailVars
  BY <1>1 DEF mailVars, MailTypeOK, EventInv, StopInv, BarredInv
<1>2. CASE WorkerSends
  BY <1>2 DEF WorkerSends, MailTypeOK, EventInv, StopInv, BarredInv, RecipientStatuses
<1>3. CASE StaffSuppresses \/ remove
  <2>1. /\ suppression' \in {"none", "liftable", "final"}
        /\ suppression' = "none" => suppression = "none" \/ lifted'
        /\ lifted' \in BOOLEAN /\ (lifted => lifted')
        /\ UNCHANGED <<recipient, preference, handler, withdrawn, barred, clobbered>>
    BY <1>0, <1>3 DEF StaffSuppresses, remove, add
  <2>2. EventInv' /\ StopInv' BY <2>1 DEF EventInv, StopInv
  <2>3. BarredInv' BY <2>1 DEF BarredInv
  <2> QED BY <1>0, <1>t, <2>1, <2>2, <2>3
<1>4. ASSUME NEW h \in MailHandlers, EventArrives(h) PROVE MailInv'
  <2>1. PICK e \in MailEvents :
          handler' = [handler EXCEPT ![h] = [FreeHandler EXCEPT
                        !.at = "marking", !.row = recipient, !.event = e]]
    BY <1>4 DEF EventArrives
  <2> DEFINE r == [FreeHandler EXCEPT !.at = "marking", !.row = recipient, !.event = e]
  <2>2. r \in Serving /\ r.at = "marking" /\ r.event = e
    BY <1>0, <1>f DEF Serving, HandlerAt, MailEvents, RecipientStatuses
  <2> HIDE DEF r
  <2>3. handler' = [handler EXCEPT ![h] = r] BY <2>1 DEF r
  <2>4. /\ handler' \in [MailHandlers -> Serving] /\ EventInv' /\ handler'[h] = r
        /\ \A g \in MailHandlers \ {h} : handler'[g] = handler[g]
    BY <2>2, <2>3, HandlerMoves
  <2> QED BY <1>0, <1>4, <1>t, <2>2, <2>4 DEF EventArrives, StopInv, BarredInv
<1>5. ASSUME NEW h \in MailHandlers, mark(h) PROVE MailInv'
  <2>1. handler[h].event \in MailEvents /\ handler[h].at = "marking"
    BY <1>5 DEF mark, EventInv
  <2>2. recipient' \in RecipientStatuses /\ clobbered' \in BOOLEAN
    BY <1>0, <1>5, <2>1 DEF mark, MailEvents
  <2> DEFINE r == IF handler[h].event \in {"hard_bounced", "complained"}
                  THEN [FreeHandler EXCEPT !.at = "suppressing",
                                           !.event = handler[h].event]
                  ELSE FreeHandler
  <2>3. r \in Serving /\ r.at \in {"idle", "suppressing"}
    BY <1>0, <1>f DEF Serving, HandlerAt
  <2>4. handler' = [handler EXCEPT ![h] = r] BY <1>5 DEF mark
  <2> HIDE DEF r
  <2>5. /\ handler' \in [MailHandlers -> Serving] /\ EventInv' /\ handler'[h] = r
        /\ \A g \in MailHandlers \ {h} : handler'[g] = handler[g]
    BY <2>3, <2>4, HandlerMoves
  <2>6. StopInv' BY <1>0, <1>5, <2>2 DEF mark, StopInv
  <2>7. BarredInv' BY <1>5, <2>3, <2>5 DEF mark, BarredInv
  <2> QED BY <1>0, <1>5, <1>t, <2>2, <2>5, <2>6, <2>7 DEF mark
<1>6. ASSUME NEW h \in MailHandlers, Suppresses(h) PROVE MailInv'
  <2>1. suppression' \in {"liftable", "final"}
    BY <1>0, <1>6 DEF Suppresses, add, ReasonOf
  <2> DEFINE r == IF handler[h].event = "hard_bounced" THEN FreeHandler
                  ELSE [handler[h] EXCEPT !.at = "toWithdraw"]
  <2>2. r \in Serving /\ r.at # "marking"
    BY <1>0, <1>f DEF Serving, HandlerAt
  <2>3. handler' = [handler EXCEPT ![h] = r] BY <1>0, <1>6 DEF Suppresses
  <2> HIDE DEF r
  <2>4. handler' \in [MailHandlers -> Serving] /\ EventInv'
    BY <2>2, <2>3, HandlerMoves
  <2> QED BY <1>0, <1>6, <1>t, <2>1, <2>4 DEF Suppresses, StopInv, BarredInv
<1>7. ASSUME NEW h \in MailHandlers, contactUpdated(h) PROVE MailInv'
  <2> DEFINE r == [FreeHandler EXCEPT !.at = "suppressing", !.event = "contact"]
  <2>2. r \in Serving /\ r.at = "suppressing" BY <1>f DEF Serving, HandlerAt
  <2>3. handler' = [handler EXCEPT ![h] = r] BY <1>7 DEF contactUpdated
  <2> HIDE DEF r
  <2>4. /\ handler' \in [MailHandlers -> Serving] /\ EventInv' /\ handler'[h] = r
        /\ \A g \in MailHandlers \ {h} : handler'[g] = handler[g]
    BY <2>2, <2>3, HandlerMoves
  <2> QED BY <1>0, <1>7, <1>t, <2>2, <2>4 DEF contactUpdated, StopInv, BarredInv
\* The three reads of the preference.
<1>8. ASSUME NEW h \in MailHandlers,
             NEW to \in {"editing", "unsubscribing", "withdrawing"},
             NEW from, ReadsPreference(h, from, to),
             to = "withdrawing" => from = "toWithdraw"
      PROVE  MailInv'
  <2> DEFINE r == [handler[h] EXCEPT !.at = to, !.pref = preference]
  <2>2. r \in Serving /\ r.at = to BY <1>0 DEF Serving, HandlerAt
  <2>3. handler' = [handler EXCEPT ![h] = r] BY <1>0, <1>8 DEF ReadsPreference
  <2> HIDE DEF r
  <2>4. /\ handler' \in [MailHandlers -> Serving] /\ EventInv' /\ handler'[h] = r
        /\ \A g \in MailHandlers \ {h} : handler'[g] = handler[g]
    BY <2>2, <2>3, HandlerMoves
  <2>5. BarredInv' BY <1>8, <2>2, <2>4 DEF ReadsPreference, BarredInv
  <2> QED BY <1>0, <1>8, <1>t, <2>4, <2>5 DEF ReadsPreference, StopInv
<1>9. ASSUME NEW h \in MailHandlers, EditSaves(h) PROVE MailInv'
  <2>1. handler[h].pref \in Preference BY <1>0 DEF Serving
  <2>2. handler' = [handler EXCEPT ![h] = FreeHandler] BY <1>9 DEF EditSaves
  <2>3. /\ handler' \in [MailHandlers -> Serving] /\ EventInv'
        /\ handler'[h] = FreeHandler
        /\ \A g \in MailHandlers \ {h} : handler'[g] = handler[g]
    BY <1>f, <2>2, HandlerMoves
  <2>4. BarredInv' BY <1>9, <1>f, <2>3 DEF EditSaves, BarredInv
  <2>5. clobbered' \in BOOLEAN BY <1>0, <1>9 DEF EditSaves, SavesPreference
  <2>6. preference' \in Preference /\ withdrawn' \in BOOLEAN /\ StopInv'
    <3>1. CASE \E e, p \in BOOLEAN :
            /\ SavesPreference(h, [marketing |-> TRUE, email |-> e, push |-> p])
            /\ withdrawn' = FALSE
      <4>1. PICK e, p \in BOOLEAN :
            preference' = [marketing |-> TRUE, email |-> e, push |-> p]
        BY <3>1 DEF SavesPreference
      <4> QED BY <3>1, <4>1 DEF Preference, StopInv
    <3>2. CASE
          /\ SavesPreference(h, IF handler[h].pref.marketing THEN NothingOn
                                ELSE handler[h].pref)
          /\ withdrawn' = TRUE
      BY <1>f, <2>1, <3>2 DEF SavesPreference, StopInv
    <3>3. CASE \E e, p \in BOOLEAN :
            /\ SavesPreference(h, [handler[h].pref EXCEPT !.email = e, !.push = p])
            /\ UNCHANGED withdrawn
      <4>1. PICK e, p \in BOOLEAN :
            SavesPreference(h, [handler[h].pref EXCEPT !.email = e, !.push = p])
        BY <3>3
      <4>2. /\ preference' = [handler[h].pref EXCEPT !.email = e, !.push = p]
            /\ clobbered' = (clobbered \/ preference # handler[h].pref)
        BY <4>1 DEF SavesPreference
      <4>3. preference' \in Preference /\ preference'.marketing = handler[h].pref.marketing
        BY <2>1, <4>2 DEF Preference
      <4> QED BY <1>0, <3>3, <4>2, <4>3 DEF StopInv
    <3> QED BY <1>9, <3>1, <3>2, <3>3 DEF EditSaves
  <2> QED BY <1>0, <1>9, <1>t, <2>3, <2>4, <2>5, <2>6 DEF EditSaves
<1>10. ASSUME NEW h \in MailHandlers, UnsubscribeSaves(h) PROVE MailInv'
  <2>1. handler[h].pref \in Preference BY <1>0 DEF Serving
  <2> DEFINE r == [FreeHandler EXCEPT !.at = "linkSuppressing"]
  <2>2. r \in Serving /\ r.at = "linkSuppressing" BY <1>f DEF Serving, HandlerAt
  <2>3. handler' = [handler EXCEPT ![h] = r] BY <1>10 DEF UnsubscribeSaves
  <2> HIDE DEF r
  <2>4. /\ handler' \in [MailHandlers -> Serving] /\ EventInv' /\ handler'[h] = r
        /\ \A g \in MailHandlers \ {h} : handler'[g] = handler[g]
    BY <2>2, <2>3, HandlerMoves
  <2>5. preference' \in Preference /\ StopInv' /\ clobbered' \in BOOLEAN
    BY <1>0, <1>f, <1>10, <2>1 DEF UnsubscribeSaves, SavesPreference, StopInv
  <2>6. BarredInv' BY <1>10, <2>2, <2>4 DEF UnsubscribeSaves, BarredInv
  <2> QED BY <1>0, <1>10, <1>t, <2>4, <2>5, <2>6 DEF UnsubscribeSaves
<1>11. ASSUME NEW h \in MailHandlers, UnsubscribeSuppresses(h) PROVE MailInv'
  <2>1. suppression' \in {"liftable", "final"}
    BY <1>0, <1>11 DEF UnsubscribeSuppresses, add
  <2>2. handler' \in [MailHandlers -> Serving] /\ EventInv'
    BY <1>f, <1>11, HandlerMoves DEF UnsubscribeSuppresses
  <2> QED BY <1>0, <1>11, <1>t, <2>1, <2>2
          DEF UnsubscribeSuppresses, StopInv, BarredInv
<1>12. ASSUME NEW h \in MailHandlers, WithdrawSaves(h) PROVE MailInv'
  <2>1. handler[h].pref \in Preference BY <1>0 DEF Serving
  <2>2. handler' \in [MailHandlers -> Serving] /\ EventInv'
    BY <1>f, <1>12, HandlerMoves DEF WithdrawSaves
  <2>3. Off(handler[h].pref) \in Preference /\ ~Off(handler[h].pref).marketing
    BY <1>f, <2>1 DEF Off, Preference
  <2>4. preference' \in Preference /\ StopInv' /\ clobbered' \in BOOLEAN
    BY <1>0, <1>12, <2>3 DEF WithdrawSaves, SavesPreference, StopInv
  <2>5. BarredInv' BY <1>12 DEF WithdrawSaves, BarredInv
  <2> QED BY <1>0, <1>12, <1>t, <2>2, <2>4, <2>5 DEF WithdrawSaves
<1>13. ASSUME NEW h \in MailHandlers,
              EditBegins(h) \/ UnsubscribeBegins(h) \/ WithdrawBegins(h)
       PROVE  MailInv'
  BY <1>8, <1>13 DEF EditBegins, UnsubscribeBegins, WithdrawBegins
<1> QED BY <1>1, <1>2, <1>3, <1>4, <1>5, <1>6, <1>7, <1>9, <1>10, <1>11, <1>12, <1>13
        DEF MailNext

LEMMA MailInvariant == MailSpec => []MailInv
BY MailInvInit, MailInvStep, PTL DEF MailSpec

\* Recipients, preferences, the suppression list and the requests being served
\* keep the shapes the handlers work with (email_webhook_service.ts,
\* marketing_consent_service.ts).
THEOREM MailTypes == MailSpec => []MailTypeOK
BY MailInvariant, PTL DEF MailInv

\* Stop means stop, in whatever order webhooks, links and edits are served
\* (marketing_consent_service.ts:336).
THEOREM StopMeansStop == MailSpec => []Silent
<1>1. MailInv => Silent
  BY DEF MailInv, StopInv, BarredInv, Silent, checkChannelEligibility
<1> QED BY <1>1, MailInvariant, PTL

\* A recipient whose mail bounced, failed or was complained of stays so
\* (email_webhook_service.ts:197).
THEOREM EndsStand == MailSpec => NeverWalkedBack
<1>1. MailInv /\ [MailNext]_mailVars => [Walks]_mailVars
  <2> SUFFICES ASSUME MailInv, MailNext PROVE Walks BY DEF Walks
  <2>1. CASE \E h \in MailHandlers : mark(h)
    BY <2>1 DEF mark, Walks, isTerminal
  <2>2. CASE WorkerSends BY <2>2 DEF WorkerSends, Walks, isTerminal
  <2>3. CASE recipient' = recipient BY <2>3 DEF Walks
  <2> QED BY <2>1, <2>2, <2>3 DEF MailNext, StaffSuppresses, remove, EventArrives,
          Suppresses, contactUpdated, EditBegins, EditSaves, UnsubscribeBegins,
          UnsubscribeSaves, UnsubscribeSuppresses, WithdrawBegins, WithdrawSaves,
          ReadsPreference
<1> QED BY <1>1, MailInvariant, PTL DEF MailSpec, NeverWalkedBack

-------------------------------------------------------------------------------
(* Duty *)

Errand == [at : DeskPoint, who : Dispatchers \cup {NoDispatcher},
           duty : OnShift, on : SUBSET Phones, seen : PhoneRow]
Alarm == [job : Hails \cup {NoHail}, left : SUBSET Phones, gone : SUBSET Phones,
          seen : [Phones -> PhoneRow], sent : SUBSET FollowUps]
HailRow == [at : {"new", "offered", "taken"}, park : Places \cup {NoPlace}]

\* The state is made of the rows of the type invariant.
DutyShape ==
    /\ shift \in [Dispatchers -> OnShift] /\ shifts \in 0..MaxShifts
    /\ phone \in [Phones -> PhoneRow] /\ astray \in [Phones -> BOOLEAN]
    /\ errand \in [Desks -> Errand]
    /\ hail \in [Hails -> HailRow]
    /\ chase \in [Hails -> (SUBSET FollowUps) \cup {Unscheduled}]
    /\ ringing \in [Callers -> Alarm]
    /\ rung \in [Hails -> Nat] /\ unmarked \in [Hails -> 0..MaxUnmarked]

OnErrand == \A h \in Desks : errand[h].at # "idle" => errand[h].who \in Dispatchers

\* A row that rings for a shift has it open, or the close of a shift of its
\* holder has yet to revoke it.
Revoking(s) == \E h \in Desks : errand[h].at = "revoke" /\ errand[h].who = s
RowQuiet(f) ==
    phone[f].active /\ phone[f].duty # OffDuty /\ ~astray[f] =>
        /\ phone[f].holder \in Dispatchers
        /\ shift[phone[f].holder] = phone[f].duty \/ Revoking(phone[f].holder)
QuietInv == \A f \in Phones : RowQuiet(f)

\* The alerts of a job are the offer's, one for each follow-up its key counts and
\* those that went unmarked; while the sweeper rings, the follow-up is in its
\* hands.
Count(S) == (IF "reminder" \in S THEN 1 ELSE 0) + (IF "final" \in S THEN 1 ELSE 0)
JobCounted(j) ==
    /\ ringing[j].job \in {j, NoHail}
    /\ hail[j].at = "new" => /\ rung[j] = 0 /\ chase[j] = Unscheduled
                             /\ ringing[j].job = NoHail /\ ringing[Sweeper].job # j
    /\ ringing[j].job = j => /\ rung[j] = 1 /\ ringing[j].sent = {}
                             /\ chase[j] = Unscheduled /\ ringing[Sweeper].job # j
    /\ ringing[Sweeper].job = j =>
          rung[j] <= 1 + Count(ringing[Sweeper].sent) + unmarked[j]
    /\ chase[j] # Unscheduled =>
          rung[j] <= 1 + Count(chase[j]) + unmarked[j]
                       + (IF ringing[Sweeper].job = j THEN 1 ELSE 0)
    /\ rung[j] <= 3 + unmarked[j]
CountedInv == \A j \in Hails : JobCounted(j)

DutyInv == DutyShape /\ OnErrand /\ QuietInv /\ CountedInv

-----------------------------------------------------------------------------

LEMMA DutyRows ==
    /\ OffDuty \in OnShift /\ Unknown \in PhoneRow /\ Free \in Errand
    /\ NotRinging \in Alarm /\ NotRinging.job = NoHail /\ Free.at = "idle"
    /\ ~Unknown.active
<1>1. 0 \in 0..MaxShifts BY DutyAssumption DEF DutyAssumption
<1>2. OffDuty \in OnShift BY <1>1 DEF OffDuty, OnShift
<1>3. Unknown \in PhoneRow BY <1>2 DEF Unknown, PhoneRow
<1>4. Free \in Errand BY <1>2, <1>3 DEF Free, Errand, DeskPoint
<1>5. [f \in Phones |-> Unknown] \in [Phones -> PhoneRow] BY <1>3
<1>6. NotRinging \in Alarm BY <1>5 DEF NotRinging, Alarm
<1> QED BY <1>2, <1>3, <1>4, <1>6 DEF NotRinging, Free, Unknown

LEMMA DutyInvInit == DutyInit => DutyInv
<1> SUFFICES ASSUME DutyInit PROVE DutyInv OBVIOUS
<1>1. 0 \in 0..MaxShifts BY DutyAssumption DEF DutyAssumption
<1>2. DutyShape
  <2>1. shift \in [Dispatchers -> OnShift] /\ phone \in [Phones -> PhoneRow]
    BY DutyRows DEF DutyInit
  <2>2. errand \in [Desks -> Errand] /\ ringing \in [Callers -> Alarm]
    BY DutyRows DEF DutyInit
  <2>3. hail \in [Hails -> HailRow] BY DEF DutyInit, HailRow
  <2>4. /\ astray \in [Phones -> BOOLEAN] /\ rung \in [Hails -> Nat]
        /\ unmarked \in [Hails -> 0..MaxUnmarked]
    BY DutyAssumption DEF DutyInit, DutyAssumption
  <2>5. chase \in [Hails -> (SUBSET FollowUps) \cup {Unscheduled}] BY DEF DutyInit
  <2> QED BY <1>1, <2>1, <2>2, <2>3, <2>4, <2>5 DEF DutyInit, DutyShape
<1>3. OnErrand /\ QuietInv
  BY DutyRows DEF DutyInit, OnErrand, QuietInv, RowQuiet
<1>4. CountedInv
  BY DutyRows, DutyAssumption
     DEF DutyInit, CountedInv, JobCounted, Callers, DutyAssumption
<1> QED BY <1>2, <1>3, <1>4 DEF DutyInv

-----------------------------------------------------------------------------
(* Silence, and the rows.                                                  *)

LEMMA SilenceOK ==
    ASSUME DutyShape, NEW fs, phone' = Silence(fs)
    PROVE  /\ phone' \in [Phones -> PhoneRow]
           /\ \A f \in Phones :
                /\ phone'[f].holder = phone[f].holder /\ phone'[f].duty = phone[f].duty
                /\ f \in fs => ~phone'[f].active
                /\ f \notin fs => phone'[f] = phone[f]
BY DEF DutyShape, Silence, PhoneRow

LEMMA MarkOK ==
    ASSUME DutyShape, NEW fs, NEW wrong \in BOOLEAN, astray' = Mark(fs, wrong)
    PROVE  /\ astray' \in [Phones -> BOOLEAN]
           /\ \A f \in Phones : astray'[f] = IF f \in fs THEN wrong ELSE astray[f]
BY DEF DutyShape, Mark

\* Rows that are as quiet as they were: the row stands or was silenced, its
\* mark stands, and no revocation was lost, nor the shift it is bound to.
LEMMA StaysQuiet ==
    ASSUME NEW f \in Phones, RowQuiet(f),
           phone'[f].active => phone'[f] = phone[f] /\ (astray[f] => astray'[f]),
           \A s \in Dispatchers :
               Revoking(s) => Revoking(s)' \/ phone'[f].holder # s \/ ~phone'[f].active,
           \A s \in Dispatchers :
               shift[s] # OffDuty => shift'[s] = shift[s] \/ Revoking(s)'
                                     \/ phone'[f].holder # s \/ astray'[f]
    PROVE  RowQuiet(f)'
BY DEF RowQuiet

\* A desk that moves on, and was not revoking.
LEMMA DeskMoves ==
    ASSUME DutyShape, OnErrand, NEW h \in Desks, NEW e \in Errand,
           errand' = [errand EXCEPT ![h] = e],
           e.at # "idle" => e.who \in Dispatchers
    PROVE  /\ errand' \in [Desks -> Errand] /\ OnErrand'
           /\ errand'[h] = e
           /\ errand[h].at # "revoke" => \A s \in Dispatchers : Revoking(s) => Revoking(s)'
BY DEF DutyShape, OnErrand, Revoking

LEMMA TakeOK ==
    ASSUME DutyShape, OnErrand, NEW h \in Desks, NEW e \in Errand,
           Take(h, e), e.who \in Dispatchers
    PROVE  /\ errand' \in [Desks -> Errand] /\ OnErrand'
           /\ \A s \in Dispatchers : Revoking(s) => Revoking(s)'
BY DutyRows, DeskMoves DEF Take

LEMMA DoneOK ==
    ASSUME DutyShape, OnErrand, NEW h \in Desks, Done(h)
    PROVE  /\ errand' \in [Desks -> Errand] /\ OnErrand'
           /\ errand[h].at # "revoke" => \A s \in Dispatchers : Revoking(s) => Revoking(s)'
BY DutyRows, DeskMoves DEF Done

LEMMA GoOK ==
    ASSUME DutyShape, OnErrand, NEW h \in Desks, NEW at \in DeskPoint, Go(h, at),
           errand[h].at # "idle"
    PROVE  /\ errand' \in [Desks -> Errand] /\ OnErrand'
           /\ errand'[h].at = at /\ errand'[h].who = errand[h].who
           /\ errand[h].at # "revoke" => \A s \in Dispatchers : Revoking(s) => Revoking(s)'
<1> DEFINE e == [errand[h] EXCEPT !.at = at]
<1>1. errand[h] \in Errand BY DEF DutyShape
<1>2. e \in Errand /\ e.at = at /\ e.who = errand[h].who BY <1>1 DEF Errand
<1>3. errand' = [errand EXCEPT ![h] = e] BY DEF Go, DutyShape
<1> HIDE DEF e
<1> QED BY <1>2, <1>3, DeskMoves DEF OnErrand

\* A row read before an await is saved after it.
LEMMA WriteBackOK ==
    ASSUME DutyShape, NEW f \in Phones, NEW seen \in PhoneRow, WriteBack(f, seen)
    PROVE  /\ phone' \in [Phones -> PhoneRow] /\ astray' \in [Phones -> BOOLEAN]
           /\ \A g \in Phones : astray'[g] \/ (phone'[g] = phone[g] /\ ~astray[g])
BY DEF DutyShape, WriteBack

\* Steps that leave the alerts or the duty alone.
LEMMA CountedKept ==
    ASSUME CountedInv, AlertsLeft
    PROVE  CountedInv'
BY DEF CountedInv, JobCounted, AlertsLeft

-----------------------------------------------------------------------------
(* Shifts and phones.                                                      *)

\* What the steps below preserve, besides the alerts they leave alone.
DutySide ==
    /\ shift \in [Dispatchers -> OnShift] /\ shifts \in 0..MaxShifts
    /\ phone \in [Phones -> PhoneRow] /\ astray \in [Phones -> BOOLEAN]
    /\ errand \in [Desks -> Errand]
    /\ OnErrand /\ QuietInv

LEMMA SideOf == DutyInv => DutySide /\ DutyShape /\ OnErrand /\ QuietInv
BY DEF DutyInv, DutySide, DutyShape

\* The rows of the live phones of a dispatcher.
LEMMA LiveOK ==
    ASSUME DutyShape, NEW s \in Dispatchers, NEW f \in Phones
    PROVE  /\ f \in LivePhones(s) <=> phone[f].holder = s /\ phone[f].active
           /\ f \in Bound(LivePhones(s)) <=>
                phone[f].holder = s /\ phone[f].active /\ phone[f].duty # OffDuty
BY DEF LivePhones, Bound

LEMMA OpenSide ==
    ASSUME DutyInv, NEW h \in Desks, NEW s \in Dispatchers, NEW p \in Places,
           OpenShift(h, s, p)
    PROVE  DutySide'
<1>0. DutySide /\ DutyShape /\ OnErrand /\ QuietInv BY SideOf
<1> DEFINE opened == [no |-> shifts + 1, park |-> p]
<1>1. /\ shift[s] = OffDuty /\ shifts < MaxShifts /\ shifts' = shifts + 1
      /\ shift' = [shift EXCEPT ![s] = opened] /\ UNCHANGED <<phone, astray>>
  BY DEF OpenShift
<1>2. shifts \in 0..MaxShifts /\ MaxShifts \in Nat
  BY <1>0, DutyAssumption DEF DutyShape, DutyAssumption
<1>3. shifts' \in 0..MaxShifts BY <1>1, <1>2
<1>4. opened \in OnShift BY <1>1, <1>3 DEF OnShift
<1>5. shift' \in [Dispatchers -> OnShift] BY <1>0, <1>1, <1>4 DEF DutyShape
<1>6. /\ errand' \in [Desks -> Errand] /\ OnErrand'
      /\ \A t \in Dispatchers : Revoking(t) => Revoking(t)'
  <2> DEFINE e == [Free EXCEPT !.at = "bind", !.who = s, !.duty = opened]
  <2>1. CASE Take(h, e)
    <3>1. e \in Errand /\ e.who = s BY <1>4, DutyRows DEF Errand, DeskPoint
    <3> HIDE DEF e
    <3> QED BY <1>0, <2>1, <3>1, TakeOK
  <2>2. CASE UNCHANGED errand BY <1>0, <2>2 DEF DutyShape, OnErrand, Revoking
  <2> QED BY <2>1, <2>2 DEF OpenShift
<1>7. ASSUME NEW f \in Phones PROVE RowQuiet(f)'
  <2>1. \A t \in Dispatchers : shift[t] # OffDuty => shift'[t] = shift[t]
    BY <1>0, <1>1 DEF DutyShape
  <2> QED BY <1>0, <1>1, <1>6, <2>1, StaysQuiet DEF QuietInv
<1> QED BY <1>0, <1>1, <1>3, <1>5, <1>6, <1>7 DEF DutySide, DutyShape, QuietInv

LEMMA BindSide ==
    ASSUME DutyInv, NEW h \in Desks, Bind(h)
    PROVE  DutySide'
<1>0. DutySide /\ DutyShape /\ OnErrand /\ QuietInv BY SideOf
<1>1. /\ errand[h].at = "bind" /\ errand[h] \in Errand /\ UNCHANGED <<shift, shifts>>
  BY <1>0 DEF Bind, DutyShape, ShiftsLeft
<1>2. errand[h].who \in Dispatchers /\ errand[h].duty \in OnShift
  BY <1>0, <1>1 DEF OnErrand, Errand
<1>3. /\ errand' \in [Desks -> Errand] /\ OnErrand'
      /\ \A t \in Dispatchers : Revoking(t) => Revoking(t)'
  BY <1>0, <1>1, DoneOK DEF Bind
<1> DEFINE s == errand[h].who
           mine == LivePhones(errand[h].who)
<1>4. CASE UNCHANGED <<phone, astray>>
  <2>1. \A f \in Phones : RowQuiet(f)' BY <1>0, <1>1, <1>3, <1>4, StaysQuiet DEF QuietInv
  <2> QED BY <1>0, <1>1, <1>3, <1>4, <2>1 DEF DutySide, QuietInv
<1>5. CASE /\ phone' = [f \in Phones |-> IF f \in mine
                                         THEN [phone[f] EXCEPT !.duty = errand[h].duty]
                                         ELSE phone[f]]
           /\ astray' = Mark(mine, shift[errand[h].who] # errand[h].duty)
  <2>1. phone' \in [Phones -> PhoneRow]
    BY <1>0, <1>2, <1>5 DEF DutyShape, PhoneRow
  <2>2. /\ astray' \in [Phones -> BOOLEAN]
        /\ \A f \in Phones : astray'[f] = IF f \in mine THEN shift[s] # errand[h].duty
                                          ELSE astray[f]
    BY <1>0, <1>5 DEF Mark, DutyShape
  <2>3. ASSUME NEW f \in Phones PROVE RowQuiet(f)'
    <3>1. CASE f \in mine
      <4>1. phone[f].holder = s BY <1>0, <1>2, <3>1, LiveOK
      <4>2. phone'[f].holder = s /\ phone'[f].duty = errand[h].duty
        BY <1>0, <1>5, <3>1, <4>1 DEF DutyShape, PhoneRow
      <4> QED BY <1>1, <1>2, <2>2, <3>1, <4>2 DEF RowQuiet
    <3>2. CASE f \notin mine
      <4>1. phone'[f] = phone[f] /\ astray'[f] = astray[f] BY <1>5, <2>2, <3>2
      <4> QED BY <1>0, <1>1, <1>3, <4>1, StaysQuiet DEF QuietInv
    <3> QED BY <3>1, <3>2
  <2> QED BY <1>0, <1>1, <1>3, <2>1, <2>2, <2>3 DEF DutySide, QuietInv
<1> QED BY <1>4, <1>5 DEF Bind

LEMMA CloseSide ==
    ASSUME DutyInv, NEW h \in Desks, CloseIfOpen(h)
    PROVE  DutySide'
<1>0. DutySide /\ DutyShape /\ OnErrand /\ QuietInv BY SideOf
<1>1. /\ errand[h].at = "close" /\ errand[h] \in Errand
      /\ UNCHANGED <<shifts, phone, astray>>
  BY <1>0 DEF CloseIfOpen, DutyShape
<1>2. errand[h].who \in Dispatchers BY <1>0, <1>1 DEF OnErrand
<1>3. CASE Go(h, "revoke") /\ shift' = [shift EXCEPT ![errand[h].who] = OffDuty]
  <2>1. /\ errand' \in [Desks -> Errand] /\ OnErrand'
        /\ errand'[h].at = "revoke" /\ errand'[h].who = errand[h].who
        /\ \A t \in Dispatchers : Revoking(t) => Revoking(t)'
    BY <1>0, <1>1, <1>3, GoOK DEF DeskPoint
  <2>2. shift' \in [Dispatchers -> OnShift] BY <1>0, <1>3, DutyRows DEF DutyShape
  <2>3. \A t \in Dispatchers : shift'[t] = shift[t] \/ Revoking(t)'
    BY <1>0, <1>3, <2>1 DEF Revoking, DutyShape
  <2>4. \A f \in Phones : RowQuiet(f)'
    BY <1>0, <1>1, <2>1, <2>3, StaysQuiet DEF QuietInv
  <2> QED BY <1>0, <1>1, <2>1, <2>2, <2>4 DEF DutySide, QuietInv
<1>4. CASE Done(h) /\ UNCHANGED shift
  <2>1. /\ errand' \in [Desks -> Errand] /\ OnErrand'
        /\ \A t \in Dispatchers : Revoking(t) => Revoking(t)'
    BY <1>0, <1>1, <1>4, DoneOK
  <2>2. \A f \in Phones : RowQuiet(f)'
    BY <1>0, <1>1, <1>4, <2>1, StaysQuiet DEF QuietInv
  <2> QED BY <1>0, <1>1, <1>4, <2>1, <2>2 DEF DutySide, QuietInv
<1> QED BY <1>3, <1>4 DEF CloseIfOpen

LEMMA RevokeSide ==
    ASSUME DutyInv, NEW h \in Desks, RevokeAfterClose(h)
    PROVE  DutySide'
<1>0. DutySide /\ DutyShape /\ OnErrand /\ QuietInv BY SideOf
<1>1. /\ errand[h].at = "revoke" /\ errand[h] \in Errand /\ UNCHANGED <<shift, shifts>>
  BY <1>0 DEF RevokeAfterClose, DutyShape, ShiftsLeft
<1>2. errand[h].who \in Dispatchers BY <1>0, <1>1 DEF OnErrand
<1>3. errand' \in [Desks -> Errand] /\ OnErrand'
  BY <1>0, DoneOK DEF RevokeAfterClose
<1>4. \A t \in Dispatchers \ {errand[h].who} : Revoking(t) => Revoking(t)'
  BY <1>0 DEF RevokeAfterClose, Done, Revoking, DutyShape
<1> DEFINE mine == LivePhones(errand[h].who)
<1>5. CASE phone' = Silence(mine) /\ UNCHANGED astray
  <2>1. /\ phone' \in [Phones -> PhoneRow]
        /\ \A f \in Phones : /\ phone'[f].holder = phone[f].holder
                             /\ f \in mine => ~phone'[f].active
                             /\ f \notin mine => phone'[f] = phone[f]
    BY <1>0, <1>5, SilenceOK
  <2>2. ASSUME NEW f \in Phones PROVE RowQuiet(f)'
    <3>1. phone'[f].active => phone'[f] = phone[f]  BY <2>1
    <3>2. phone'[f].holder = errand[h].who => ~phone'[f].active
      BY <1>0, <1>2, <2>1, LiveOK
    <3> QED BY <1>0, <1>1, <1>4, <1>5, <3>1, <3>2, StaysQuiet DEF QuietInv
  <2> QED BY <1>0, <1>1, <1>3, <1>5, <2>1, <2>2 DEF DutySide, QuietInv
<1>6. CASE UNCHANGED phone /\ astray' = Mark(Bound(mine), TRUE)
  <2>1. /\ astray' \in [Phones -> BOOLEAN]
        /\ \A f \in Phones : astray'[f] = IF f \in Bound(mine) THEN TRUE ELSE astray[f]
    BY <1>0, <1>6, MarkOK
  <2>2. ASSUME NEW f \in Phones PROVE RowQuiet(f)'
    <3>1. CASE f \in Bound(mine) BY <2>1, <3>1 DEF RowQuiet
    <3>2. CASE f \notin Bound(mine)
      BY <1>0, <1>1, <1>2, <1>4, <1>6, <2>1, <3>2, LiveOK DEF QuietInv, RowQuiet
    <3> QED BY <3>1, <3>2
  <2> QED BY <1>0, <1>1, <1>3, <1>6, <2>1, <2>2 DEF DutySide, QuietInv
<1> QED BY <1>5, <1>6 DEF RevokeAfterClose

LEMMA ForceSide ==
    ASSUME DutyInv, NEW s \in Dispatchers, ForceClose(s)
    PROVE  DutySide'
<1>0. DutySide /\ DutyShape /\ OnErrand /\ QuietInv BY SideOf
<1>1. /\ shift' = [shift EXCEPT ![s] = OffDuty]
      /\ astray' = Mark(Bound(LivePhones(s)), TRUE)
      /\ UNCHANGED <<shifts, phone, errand>>
  BY DEF ForceClose
<1>2. shift' \in [Dispatchers -> OnShift] BY <1>0, <1>1, DutyRows DEF DutyShape
<1>3. /\ astray' \in [Phones -> BOOLEAN]
      /\ \A f \in Phones : astray'[f] = IF f \in Bound(LivePhones(s)) THEN TRUE
                                        ELSE astray[f]
  BY <1>0, <1>1, MarkOK
<1>4. \A t \in Dispatchers : Revoking(t) => Revoking(t)' BY <1>1 DEF Revoking
<1>5. OnErrand' BY <1>0, <1>1 DEF OnErrand
<1>6. ASSUME NEW f \in Phones PROVE RowQuiet(f)'
  <2>1. CASE f \in Bound(LivePhones(s)) BY <1>3, <2>1 DEF RowQuiet
  <2>2. CASE f \notin Bound(LivePhones(s))
    BY <1>0, <1>1, <1>3, <1>4, <2>2, LiveOK DEF QuietInv, RowQuiet, DutyShape
  <2> QED BY <2>1, <2>2
<1> QED BY <1>0, <1>1, <1>2, <1>3, <1>5, <1>6 DEF DutySide, QuietInv

\* Taking a request up leaves the rows as they are.
LEMMA TakenSide ==
    ASSUME DutyInv, NEW h \in Desks, NEW s \in Dispatchers,
           \/ BeginClose(h, s)
           \/ \E f \in Phones : BeginRegister(h, s, f) \/ BeginTest(h, s, f)
    PROVE  DutySide'
<1>0. DutySide /\ DutyShape /\ OnErrand /\ QuietInv BY SideOf
<1>1. PICK e \in Errand : e.who = s /\ Take(h, e)
  <2>1. CASE BeginClose(h, s)
    <3> DEFINE e == [Free EXCEPT !.at = "close", !.who = s, !.duty = shift[s]]
    <3>1. e \in Errand /\ e.who = s
      BY <1>0, DutyRows DEF Errand, DeskPoint, DutyShape
    <3> QED BY <2>1, <3>1 DEF BeginClose
  <2>2. ASSUME NEW f \in Phones, BeginRegister(h, s, f)
        PROVE  \E e \in Errand : e.who = s /\ Take(h, e)
    <3> DEFINE e == [Free EXCEPT !.at = "find", !.who = s, !.duty = shift[s], !.on = {f}]
    <3>1. e \in Errand /\ e.who = s
      BY <1>0, DutyRows DEF Errand, DeskPoint, DutyShape
    <3> QED BY <2>2, <3>1 DEF BeginRegister
  <2>3. ASSUME NEW f \in Phones, BeginTest(h, s, f)
        PROVE  \E e \in Errand : e.who = s /\ Take(h, e)
    <3> DEFINE e == [Free EXCEPT !.at = "test", !.who = s, !.on = {f}, !.seen = phone[f]]
    <3>1. e \in Errand /\ e.who = s
      BY <1>0, DutyRows DEF Errand, DeskPoint, DutyShape
    <3> QED BY <2>3, <3>1 DEF BeginTest
  <2> QED BY <2>1, <2>2, <2>3
<1>2. UNCHANGED <<phone, astray, shift, shifts>>
  BY DEF BeginClose, BeginRegister, BeginTest, ShiftsLeft
<1>3. /\ errand' \in [Desks -> Errand] /\ OnErrand'
      /\ \A t \in Dispatchers : Revoking(t) => Revoking(t)'
  BY <1>0, <1>1, TakeOK
<1>4. \A f \in Phones : RowQuiet(f)' BY <1>0, <1>2, <1>3, StaysQuiet DEF QuietInv
<1> QED BY <1>0, <1>2, <1>3, <1>4 DEF DutySide, QuietInv

LEMMA FindSide ==
    ASSUME DutyInv, NEW h \in Desks, FindToken(h)
    PROVE  DutySide'
<1>0. DutySide /\ DutyShape /\ OnErrand /\ QuietInv BY SideOf
<1>1. PICK f \in errand[h].on : 
          /\ errand' = [errand EXCEPT ![h].at = "save", ![h].seen = phone[f]]
          /\ \E same \in SUBSET (LivePhones(errand[h].who) \ {f}) : phone' = Silence(same)
  BY DEF FindToken
<1>2. /\ errand[h] \in Errand /\ f \in Phones /\ errand[h].at = "find"
      /\ UNCHANGED <<shift, shifts, astray>>
  BY <1>0, <1>1 DEF FindToken, DutyShape, Errand, ShiftsLeft
<1> DEFINE e == [errand[h] EXCEPT !.at = "save", !.seen = phone[f]]
<1>3. e \in Errand /\ e.who = errand[h].who /\ e.at = "save"
  BY <1>0, <1>2 DEF Errand, DeskPoint, DutyShape
<1>4. errand' = [errand EXCEPT ![h] = e] BY <1>0, <1>1 DEF DutyShape
<1> HIDE DEF e
<1>5. /\ errand' \in [Desks -> Errand] /\ OnErrand'
      /\ \A t \in Dispatchers : Revoking(t) => Revoking(t)'
  BY <1>0, <1>2, <1>3, <1>4, DeskMoves DEF OnErrand
<1>6. PICK same \in SUBSET (LivePhones(errand[h].who) \ {f}) : phone' = Silence(same)
  BY <1>1
<1>7. /\ phone' \in [Phones -> PhoneRow]
      /\ \A g \in Phones : phone'[g].active => phone'[g] = phone[g]
  BY <1>0, <1>6, SilenceOK
<1>8. \A g \in Phones : RowQuiet(g)'
  BY <1>0, <1>2, <1>5, <1>7, StaysQuiet DEF QuietInv
<1> QED BY <1>0, <1>2, <1>5, <1>7, <1>8 DEF DutySide, QuietInv

LEMMA SaveSide ==
    ASSUME DutyInv, NEW h \in Desks, SaveToken(h)
    PROVE  DutySide'
<1>0. DutySide /\ DutyShape /\ OnErrand /\ QuietInv BY SideOf
<1>1. /\ errand[h] \in Errand /\ errand[h].at = "save" /\ UNCHANGED <<shift, shifts>>
  BY <1>0 DEF SaveToken, DutyShape, ShiftsLeft
<1>2. /\ errand[h].who \in Dispatchers /\ errand[h].duty \in OnShift
      /\ errand[h].on \subseteq Phones
  BY <1>0, <1>1 DEF OnErrand, Errand
<1>3. /\ errand' \in [Desks -> Errand] /\ OnErrand'
      /\ \A t \in Dispatchers : Revoking(t) => Revoking(t)'
  BY <1>0, <1>1, DoneOK DEF SaveToken
<1>4. CASE UNCHANGED <<phone, astray>>
  <2>1. \A f \in Phones : RowQuiet(f)' BY <1>0, <1>1, <1>3, <1>4, StaysQuiet DEF QuietInv
  <2> QED BY <1>0, <1>1, <1>3, <1>4, <2>1 DEF DutySide, QuietInv
<1>5. ASSUME NEW f \in Phones,
             phone' = [phone EXCEPT ![f] = [holder |-> errand[h].who, active |-> TRUE,
                                            duty |-> errand[h].duty]],
             astray' = [astray EXCEPT ![f] =
                          errand[h].duty \notin {OffDuty, shift[errand[h].who]}]
      PROVE  DutySide'
  <2>1. phone' \in [Phones -> PhoneRow] /\ astray' \in [Phones -> BOOLEAN]
    BY <1>0, <1>2, <1>5 DEF DutyShape, PhoneRow
  <2>2. ASSUME NEW g \in Phones PROVE RowQuiet(g)'
    <3>1. CASE g = f BY <1>0, <1>1, <1>2, <1>5, <3>1 DEF RowQuiet, DutyShape
    <3>2. CASE g # f
      <4>1. phone'[g] = phone[g] /\ astray'[g] = astray[g]
        BY <1>0, <1>5, <3>2 DEF DutyShape
      <4> QED BY <1>0, <1>1, <1>3, <4>1, StaysQuiet DEF QuietInv
    <3> QED BY <3>1, <3>2
  <2> QED BY <1>0, <1>1, <1>3, <2>1, <2>2 DEF DutySide, QuietInv
<1> QED BY <1>2, <1>4, <1>5 DEF SaveToken

\* The steps that only silence rows or save one as it was read.
LEMMA RowsSide ==
    ASSUME DutyInv, UNCHANGED <<shift, shifts>>,
           errand' \in [Desks -> Errand], OnErrand',
           \A t \in Dispatchers : Revoking(t) => Revoking(t)',
           \/ UNCHANGED <<phone, astray>>
           \/ (\E fs : phone' = Silence(fs)) /\ UNCHANGED astray
           \/ \E f \in Phones, seen \in PhoneRow : WriteBack(f, seen)
    PROVE  DutySide'
<1>0. DutySide /\ DutyShape /\ OnErrand /\ QuietInv BY SideOf
<1>1. CASE UNCHANGED <<phone, astray>>
  <2>1. \A f \in Phones : RowQuiet(f)' BY <1>0, <1>1, StaysQuiet DEF QuietInv
  <2> QED BY <1>0, <1>1, <2>1 DEF DutySide, QuietInv
<1>2. CASE (\E fs : phone' = Silence(fs)) /\ UNCHANGED astray
  <2>1. /\ phone' \in [Phones -> PhoneRow]
        /\ \A g \in Phones : phone'[g].active => phone'[g] = phone[g]
    BY <1>0, <1>2, SilenceOK
  <2>2. \A f \in Phones : RowQuiet(f)' BY <1>0, <1>2, <2>1, StaysQuiet DEF QuietInv
  <2> QED BY <1>0, <1>2, <2>1, <2>2 DEF DutySide, QuietInv
<1>3. CASE \E f \in Phones, seen \in PhoneRow : WriteBack(f, seen)
  <2>1. /\ phone' \in [Phones -> PhoneRow] /\ astray' \in [Phones -> BOOLEAN]
        /\ \A g \in Phones : astray'[g] \/ (phone'[g] = phone[g] /\ ~astray[g])
    BY <1>0, <1>3, WriteBackOK
  <2>2. ASSUME NEW g \in Phones PROVE RowQuiet(g)'
    <3>1. CASE astray'[g] BY <3>1 DEF RowQuiet
    <3>2. CASE phone'[g] = phone[g] /\ ~astray[g]
      BY <1>0, <3>2, StaysQuiet DEF QuietInv
    <3> QED BY <2>1, <3>1, <3>2
  <2> QED BY <1>0, <2>1, <2>2 DEF DutySide, QuietInv
<1> QED BY <1>1, <1>2, <1>3

LEMMA TestSide ==
    ASSUME DutyInv, NEW h \in Desks, FinishTest(h)
    PROVE  DutySide'
<1>0. DutySide /\ DutyShape /\ OnErrand /\ QuietInv BY SideOf
<1>1. /\ errand[h] \in Errand /\ errand[h].at = "test" /\ UNCHANGED <<shift, shifts>>
  BY <1>0 DEF FinishTest, DutyShape, ShiftsLeft
<1>2. errand[h].on \subseteq Phones /\ errand[h].seen \in PhoneRow BY <1>1 DEF Errand
<1>3. /\ errand' \in [Desks -> Errand] /\ OnErrand'
      /\ \A t \in Dispatchers : Revoking(t) => Revoking(t)'
  BY <1>0, <1>1, DoneOK DEF FinishTest
<1>4. \/ UNCHANGED <<phone, astray>>
      \/ \E f \in Phones, seen \in PhoneRow : WriteBack(f, seen)
  BY <1>2 DEF FinishTest
<1> QED BY <1>1, <1>3, <1>4, RowsSide

-----------------------------------------------------------------------------
(* Alerts.                                                                 *)

AlertSide ==
    /\ hail \in [Hails -> HailRow]
    /\ chase \in [Hails -> (SUBSET FollowUps) \cup {Unscheduled}]
    /\ ringing \in [Callers -> Alarm]
    /\ rung \in [Hails -> Nat] /\ unmarked \in [Hails -> 0..MaxUnmarked]
    /\ CountedInv

LEMMA AlertOf == DutyInv => AlertSide /\ DutyShape
BY DEF DutyInv, AlertSide, DutyShape

LEMMA AlertKept == ASSUME DutyInv, AlertsLeft PROVE AlertSide'
BY DEF DutyInv, DutyShape, AlertSide, AlertsLeft, CountedInv, JobCounted

LEMMA CallersAre ==
    /\ Sweeper \notin Hails /\ NoHail \notin Hails /\ Hails \subseteq Callers
    /\ Sweeper \in Callers
BY DutyAssumption DEF DutyAssumption, Callers

\* The follow-ups: one more counts one more, and there are two.
LEMMA CountOK ==
    ASSUME NEW S \in SUBSET FollowUps
    PROVE  /\ Count(S) \in 0..2
           /\ Count({}) = 0
           /\ \A due \in FollowUps \ S : Count(S \cup {due}) = Count(S) + 1
BY DEF Count, FollowUps

LEMMA KeysDiffer == ASSUME NEW S \in SUBSET FollowUps PROVE S # Unscheduled
BY DEF FollowUps, Unscheduled

\* The offer rings first.
LEMMA OfferedCounts ==
    ASSUME DutyInv, NEW j \in Hails, NEW p \in Places, Offered(j, p)
    PROVE  AlertSide'
<1>0. AlertSide /\ DutyShape BY AlertOf
<1> DEFINE a == [job |-> j, gone |-> {}, seen |-> phone, sent |-> {},
                 left |-> {f \in Phones : phone[f].active /\ phone[f].duty.park = p}]
<1>1. /\ hail[j].at = "new" /\ UNCHANGED <<chase, unmarked>>
      /\ hail' = [hail EXCEPT ![j] = [at |-> "offered", park |-> p]]
      /\ ringing' = [ringing EXCEPT ![j] = a]
      /\ rung' = [rung EXCEPT ![j] = @ + 1]
  BY DEF Offered, Alert
<1>2. a \in Alarm /\ a.job = j /\ a.sent = {} BY <1>0 DEF Alarm, DutyShape
<1> HIDE DEF a
<1>3. /\ hail' \in [Hails -> HailRow] /\ ringing' \in [Callers -> Alarm]
      /\ rung' \in [Hails -> Nat]
  BY <1>0, <1>1, <1>2, CallersAre DEF AlertSide, HailRow
<1>4. /\ ringing'[j] = a /\ ringing'[Sweeper] = ringing[Sweeper]
      /\ rung'[j] = rung[j] + 1 /\ hail'[j].at = "offered"
      /\ \A k \in Hails \ {j} : /\ ringing'[k] = ringing[k] /\ rung'[k] = rung[k]
                                /\ hail'[k] = hail[k]
  BY <1>0, <1>1, CallersAre DEF AlertSide
<1>5. JobCounted(j)'
  <2>1. /\ rung[j] = 0 /\ chase[j] = Unscheduled /\ ringing[Sweeper].job # j
        /\ unmarked[j] \in Nat
    BY <1>0, <1>1 DEF AlertSide, CountedInv, JobCounted
  <2> QED BY <1>1, <1>2, <1>4, <2>1 DEF JobCounted
<1>6. \A k \in Hails \ {j} : JobCounted(k)'
  BY <1>0, <1>1, <1>4 DEF AlertSide, CountedInv, JobCounted
<1> QED BY <1>0, <1>1, <1>3, <1>5, <1>6 DEF AlertSide, CountedInv

\* The sweeper takes a follow-up in hand, or drops the key.
LEMMA ChaseCounts ==
    ASSUME DutyInv, NEW j \in Hails, Chase(j)
    PROVE  AlertSide'
<1>0. AlertSide /\ DutyShape BY AlertOf
<1>1. chase[j] # Unscheduled /\ chase[j] \in SUBSET FollowUps
  BY <1>0 DEF Chase, AlertSide
<1>2. ASSUME NEW due \in FollowUps \ chase[j], Unattended(j),
             Alert(Sweeper, j, hail[j].park, chase[j] \cup {due}),
             UNCHANGED <<hail, chase>>
      PROVE  AlertSide'
  <2> DEFINE a == [job |-> j, gone |-> {}, seen |-> phone, sent |-> chase[j] \cup {due},
                   left |-> {f \in Phones :
                               phone[f].active /\ phone[f].duty.park = hail[j].park}]
  <2>1. /\ ringing[Sweeper].job = NoHail
        /\ ringing' = [ringing EXCEPT ![Sweeper] = a]
        /\ rung' = [rung EXCEPT ![j] = @ + 1] /\ UNCHANGED unmarked
    BY <1>2, DutyRows DEF Alert
  <2>2. a \in Alarm /\ a.job = j /\ a.sent = chase[j] \cup {due}
    BY <1>0, <1>1 DEF Alarm, DutyShape
  <2> HIDE DEF a
  <2>3. /\ ringing' \in [Callers -> Alarm] /\ rung' \in [Hails -> Nat]
    BY <1>0, <2>1, <2>2, CallersAre DEF AlertSide
  <2>4. /\ ringing'[Sweeper] = a /\ rung'[j] = rung[j] + 1
        /\ \A k \in Hails : ringing'[k] = ringing[k]
        /\ \A k \in Hails \ {j} : rung'[k] = rung[k]
    BY <1>0, <2>1, CallersAre DEF AlertSide
  <2>5. JobCounted(j)'
    <3>1. /\ rung[j] <= 1 + Count(chase[j]) + unmarked[j]
          /\ rung[j] \in Nat /\ unmarked[j] \in Nat
          /\ ringing[j].job \in {j, NoHail}
          /\ hail[j].at # "new" /\ ringing[j].job # j
      <4>1. JobCounted(j) /\ rung[j] \in Nat /\ unmarked[j] \in Nat
        BY <1>0 DEF AlertSide, CountedInv
      <4>2. chase[j] # Unscheduled /\ ringing[Sweeper].job # j
        BY <1>1, <2>1, CallersAre
      <4>3. hail[j].at = "offered" BY <1>2 DEF Unattended
      <4>4. Count(chase[j]) \in 0..2 BY <1>1, CountOK
      <4> QED BY <4>1, <4>2, <4>3, <4>4 DEF JobCounted
    <3>2. /\ Count(a.sent) = Count(chase[j]) + 1 /\ Count(chase[j]) \in 0..2
          /\ Count(a.sent) \in 0..2
      <4>1. a.sent \in SUBSET FollowUps BY <1>1, <2>2
      <4>2. \A d \in FollowUps \ chase[j] : Count(chase[j] \cup {d}) = Count(chase[j]) + 1
        BY <1>1, CountOK
      <4> QED BY <1>1, <2>2, <4>1, <4>2, CountOK
    <3>3. /\ rung'[j] <= 1 + Count(a.sent) + unmarked[j] /\ rung'[j] <= 3 + unmarked[j]
          /\ rung'[j] <= 1 + Count(chase[j]) + unmarked[j] + 1
      BY <2>4, <3>1, <3>2
    <3> QED BY <1>2, <2>1, <2>2, <2>4, <3>1, <3>3 DEF JobCounted
  <2>6. ASSUME NEW k \in Hails \ {j} PROVE JobCounted(k)'
    <3>1. JobCounted(k) BY <1>0 DEF AlertSide, CountedInv
    <3>2. ringing'[Sweeper].job # k BY <2>2, <2>4
    <3>3. ringing[Sweeper].job # k BY <2>1, CallersAre
    <3> QED BY <1>2, <2>1, <2>4, <3>1, <3>2, <3>3 DEF JobCounted
  <2> QED BY <1>0, <1>2, <2>1, <2>3, <2>5, <2>6 DEF AlertSide, CountedInv
<1>3. CASE /\ ringing[Sweeper] = NotRinging
           /\ chase' = [chase EXCEPT ![j] = Unscheduled]
           /\ UNCHANGED <<shift, shifts, phone, errand, hail, ringing, rung, unmarked, astray>>
  <2>1. chase' \in [Hails -> (SUBSET FollowUps) \cup {Unscheduled}]
    BY <1>0, <1>3 DEF AlertSide
  <2>2. \A k \in Hails : chase'[k] = chase[k] \/ chase'[k] = Unscheduled
    BY <1>0, <1>3 DEF AlertSide
  <2>3. CountedInv' BY <1>0, <1>3, <2>2 DEF AlertSide, CountedInv, JobCounted
  <2> QED BY <1>0, <1>3, <2>1, <2>3 DEF AlertSide
<1> QED BY <1>2, <1>3 DEF Chase

\* The claim deletes the key, if it can.
LEMMA AttendedCounts ==
    ASSUME DutyInv, NEW j \in Hails, Attended(j)
    PROVE  AlertSide'
<1>0. AlertSide /\ DutyShape BY AlertOf
<1>1. /\ \E left \in {chase[j], Unscheduled} : chase' = [chase EXCEPT ![j] = left]
      /\ hail' = [hail EXCEPT ![j].at = "taken"] /\ UNCHANGED <<ringing, rung, unmarked>>
  BY DEF Attended
<1>2. chase' \in [Hails -> (SUBSET FollowUps) \cup {Unscheduled}]
  BY <1>0, <1>1 DEF AlertSide
<1>3. \A k \in Hails : chase'[k] = chase[k] \/ chase'[k] = Unscheduled
  BY <1>0, <1>1 DEF AlertSide
<1>4. /\ hail' \in [Hails -> HailRow]
      /\ \A k \in Hails : hail'[k].at = "new" => hail[k].at = "new"
  BY <1>0, <1>1 DEF AlertSide, HailRow
<1>5. CountedInv' BY <1>0, <1>1, <1>3, <1>4 DEF AlertSide, CountedInv, JobCounted
<1> QED BY <1>0, <1>1, <1>2, <1>4, <1>5 DEF AlertSide

\* An alert that goes on is the alert it was.
LEMMA RingsCounts ==
    ASSUME DutyInv, NEW c \in Callers, NEW f \in Phones, Rings(c, f)
    PROVE  AlertSide'
<1>0. AlertSide /\ DutyShape BY AlertOf
<1>1. UNCHANGED <<hail, chase, rung, unmarked>> BY DEF Rings
<1>2. PICK a \in Alarm : /\ ringing' = [ringing EXCEPT ![c] = a]
                         /\ a.job = ringing[c].job /\ a.sent = ringing[c].sent
  <2>0. ringing[c] \in Alarm BY <1>0 DEF AlertSide
  <2>1. CASE ringing' = [ringing EXCEPT ![c].left = @ \ {f}]
    <3> DEFINE a == [ringing[c] EXCEPT !.left = @ \ {f}]
    <3>1. a \in Alarm /\ a.job = ringing[c].job /\ a.sent = ringing[c].sent
      BY <2>0 DEF Alarm
    <3>2. ringing' = [ringing EXCEPT ![c] = a] BY <1>0, <2>1 DEF AlertSide
    <3> QED BY <3>1, <3>2
  <2>2. CASE \E dead \in {{}, {f}} :
                ringing' = [ringing EXCEPT ![c].left = @ \ {f}, ![c].gone = @ \cup dead]
    <3>1. PICK dead \in {{}, {f}} :
                ringing' = [ringing EXCEPT ![c].left = @ \ {f}, ![c].gone = @ \cup dead]
      BY <2>2
    <3> DEFINE a == [ringing[c] EXCEPT !.left = @ \ {f}, !.gone = @ \cup dead]
    <3>2. a \in Alarm /\ a.job = ringing[c].job /\ a.sent = ringing[c].sent
      BY <2>0 DEF Alarm
    <3>3. ringing' = [ringing EXCEPT ![c] = a] BY <1>0, <3>1 DEF AlertSide
    <3> QED BY <3>2, <3>3
  <2> QED BY <2>1, <2>2 DEF Rings
<1>3. /\ ringing' \in [Callers -> Alarm]
      /\ \A d \in Callers : /\ ringing'[d].job = ringing[d].job
                            /\ ringing'[d].sent = ringing[d].sent
  BY <1>0, <1>2 DEF AlertSide
<1>4. CountedInv' BY <1>0, <1>1, <1>3, CallersAre DEF AlertSide, CountedInv, JobCounted
<1> QED BY <1>0, <1>1, <1>3, <1>4 DEF AlertSide

\* An alert ends: the key counts what it has sent.
LEMMA RungCounts ==
    ASSUME DutyInv, NEW c \in Callers, Rung(c)
    PROVE  AlertSide'
<1>0. AlertSide /\ DutyShape BY AlertOf
<1>a. PICK j : j = ringing[c].job OBVIOUS
<1>1. /\ j # NoHail /\ UNCHANGED <<hail, rung, unmarked>>
      /\ chase' = [chase EXCEPT ![j] = ringing[c].sent]
      /\ ringing' = [ringing EXCEPT ![c] = NotRinging]
  BY <1>a DEF Rung
<1>2. ringing[c] \in Alarm BY <1>0 DEF AlertSide
<1>3. j \in Hails /\ ringing[c].sent \in SUBSET FollowUps BY <1>a, <1>1, <1>2 DEF Alarm
<1>4. /\ chase' \in [Hails -> (SUBSET FollowUps) \cup {Unscheduled}]
      /\ ringing' \in [Callers -> Alarm]
  BY <1>0, <1>1, <1>3, DutyRows DEF AlertSide
<1>5. /\ chase'[j] = ringing[c].sent /\ ringing'[c].job = NoHail
      /\ \A k \in Hails \ {j} : chase'[k] = chase[k]
      /\ \A d \in Callers \ {c} : ringing'[d] = ringing[d]
  BY <1>0, <1>1, <1>3, DutyRows DEF AlertSide
<1>6. c \in {j, Sweeper}
  BY <1>a, <1>0, <1>1, CallersAre DEF AlertSide, CountedInv, JobCounted, Callers
<1>7. JobCounted(j)'
  <2>1. /\ JobCounted(j) /\ rung[j] \in Nat /\ unmarked[j] \in Nat
    BY <1>0, <1>3 DEF AlertSide, CountedInv
  <2>2. hail[j].at # "new" /\ ringing'[j].job # j /\ ringing'[Sweeper].job # j
    <3>1. CASE c = j BY <1>a, <1>3, <1>5, <2>1, <3>1, CallersAre DEF JobCounted
    <3>2. CASE c = Sweeper BY <1>a, <1>3, <1>5, <2>1, <3>2, CallersAre DEF JobCounted
    <3> QED BY <1>6, <3>1, <3>2
  <2>3. rung[j] <= 1 + Count(ringing[c].sent) + unmarked[j]
    <3>1. CASE c = j BY <1>a, <2>1, <3>1, CountOK DEF JobCounted
    <3>2. CASE c = Sweeper BY <1>a, <2>1, <3>2 DEF JobCounted
    <3> QED BY <1>6, <3>1, <3>2
  <2>4. ringing'[j].job \in {j, NoHail}
    BY <1>3, <1>5, <2>1, CallersAre DEF JobCounted
  <2>5. Count(ringing[c].sent) \in 0..2 BY <1>3, CountOK
  <2>6. /\ hail'[j].at # "new" /\ rung'[j] = rung[j] /\ unmarked'[j] = unmarked[j]
        /\ rung[j] <= 3 + unmarked[j]
    BY <1>1, <2>1, <2>2 DEF JobCounted
  <2>7. /\ rung'[j] <= 1 + Count(chase'[j]) + unmarked'[j]
        /\ rung'[j] <= 1 + Count(chase'[j]) + unmarked'[j]
                      + (IF ringing'[Sweeper].job = j THEN 1 ELSE 0)
    BY <1>5, <2>1, <2>2, <2>3, <2>5, <2>6
  <2> QED BY <2>2, <2>4, <2>6, <2>7 DEF JobCounted
<1>8. ASSUME NEW k \in Hails \ {j} PROVE JobCounted(k)'
  <2>1. JobCounted(k) BY <1>0 DEF AlertSide, CountedInv
  <2>2. c # k BY <1>6, CallersAre
  <2>3. ringing'[k] = ringing[k] BY <1>5, <2>2, CallersAre
  <2>4. \/ ringing'[Sweeper] = ringing[Sweeper]
        \/ ringing[Sweeper].job # k /\ ringing'[Sweeper].job # k
    BY <1>a, <1>5, CallersAre
  <2> QED BY <1>1, <1>5, <2>1, <2>3, <2>4 DEF JobCounted
<1> QED BY <1>0, <1>1, <1>4, <1>7, <1>8 DEF AlertSide, CountedInv

\* An alert that fails: the key is what it was, and the sweeper's has no mark.
LEMMA FailedCounts ==
    ASSUME DutyInv, NEW c \in Callers, RingingFails(c)
    PROVE  AlertSide'
<1>0. AlertSide /\ DutyShape BY AlertOf
<1>a. PICK j : j = ringing[c].job OBVIOUS
<1>1. /\ j # NoHail /\ UNCHANGED <<hail, chase, rung>>
      /\ ringing' = [ringing EXCEPT ![c] = NotRinging]
      /\ IF c = Sweeper
         THEN unmarked[j] < MaxUnmarked /\ unmarked' = [unmarked EXCEPT ![j] = @ + 1]
         ELSE unmarked' = unmarked
  BY <1>a DEF RingingFails
<1>2. ringing[c] \in Alarm BY <1>0 DEF AlertSide
<1>3. j \in Hails BY <1>a, <1>1, <1>2 DEF Alarm
<1>4. /\ ringing' \in [Callers -> Alarm] /\ ringing'[c].job = NoHail
      /\ \A d \in Callers \ {c} : ringing'[d] = ringing[d]
  BY <1>0, <1>1, DutyRows DEF AlertSide
<1>5. unmarked' \in [Hails -> 0..MaxUnmarked]
  BY <1>0, <1>1, <1>3, DutyAssumption DEF AlertSide, DutyAssumption
<1>6. /\ \A k \in Hails : unmarked[k] \in Nat /\ unmarked'[k] \in Nat /\ rung[k] \in Nat
      /\ \A k \in Hails \ {j} : unmarked'[k] = unmarked[k]
      /\ unmarked'[j] = IF c = Sweeper THEN unmarked[j] + 1 ELSE unmarked[j]
  BY <1>0, <1>1, <1>3, <1>5 DEF AlertSide
<1>7. c \in {j, Sweeper}
  BY <1>a, <1>0, <1>1, CallersAre DEF AlertSide, CountedInv, JobCounted, Callers
<1>8. ASSUME NEW k \in Hails PROVE JobCounted(k)'
  <2>1. JobCounted(k) BY <1>0 DEF AlertSide, CountedInv
  <2>2. chase[k] # Unscheduled => Count(chase[k]) \in Nat
    BY <1>0, CountOK DEF AlertSide
  <2>3. ringing[Sweeper] \in Alarm => Count(ringing[Sweeper].sent) \in Nat
    BY CountOK DEF Alarm
  <2>4. ringing[Sweeper] \in Alarm BY <1>0, CallersAre DEF AlertSide
  <2>5. CASE c = Sweeper
    <3>1. ringing'[k] = ringing[k] /\ ringing'[Sweeper].job = NoHail
      BY <1>4, <2>5, CallersAre
    <3> QED BY <1>a, <1>1, <1>6, <2>1, <2>2, <2>5, <3>1, CallersAre DEF JobCounted
  <2>6. CASE c # Sweeper
    <3>1. /\ ringing'[Sweeper] = ringing[Sweeper] /\ unmarked'[k] = unmarked[k]
          /\ ringing'[k] = ringing[k] \/ ringing'[k].job = NoHail
      BY <1>4, <1>6, <2>6, CallersAre
    <3> QED BY <1>1, <2>1, <3>1, CallersAre DEF JobCounted
  <2> QED BY <2>5, <2>6
<1> QED BY <1>0, <1>1, <1>4, <1>5, <1>8 DEF AlertSide, CountedInv

-----------------------------------------------------------------------------

LEMMA DutyInvStep == DutyInv /\ [DutyNext]_dutyVars => DutyInv'
<1> SUFFICES ASSUME DutyInv, [DutyNext]_dutyVars PROVE DutyInv' OBVIOUS
<1>0. DutySide /\ DutyShape /\ OnErrand /\ QuietInv /\ AlertSide BY SideOf, AlertOf
<1>j. ASSUME DutySide', AlertSide' PROVE DutyInv'
  BY <1>j DEF DutyInv, DutySide, AlertSide, DutyShape
<1>1. CASE UNCHANGED dutyVars
  BY <1>1 DEF dutyVars, DutyInv, DutyShape, OnErrand, QuietInv, RowQuiet, Revoking,
     CountedInv, JobCounted
<1>2. ASSUME NEW h \in Desks, NEW s \in Dispatchers, NEW p \in Places,
             OpenShift(h, s, p)
      PROVE  DutyInv'
  BY <1>2, <1>j, OpenSide, AlertKept DEF OpenShift
<1>3. ASSUME NEW h \in Desks, NEW s \in Dispatchers,
             \/ BeginClose(h, s)
             \/ \E f \in Phones : BeginRegister(h, s, f) \/ BeginTest(h, s, f)
      PROVE  DutyInv'
  <2>1. AlertsLeft BY <1>3 DEF BeginClose, BeginRegister, BeginTest
  <2> QED BY <1>3, <1>j, <2>1, TakenSide, AlertKept
<1>4. ASSUME NEW h \in Desks,
             \/ Bind(h) \/ CloseIfOpen(h) \/ RevokeAfterClose(h) \/ FindToken(h)
             \/ SaveToken(h) \/ FinishTest(h)
      PROVE  DutyInv'
  <2>1. AlertsLeft
    BY <1>4 DEF Bind, CloseIfOpen, RevokeAfterClose, FindToken, SaveToken, FinishTest
  <2>2. DutySide'
    BY <1>4, BindSide, CloseSide, RevokeSide, FindSide, SaveSide, TestSide
  <2> QED BY <1>j, <2>1, <2>2, AlertKept
<1>5. ASSUME NEW s \in Dispatchers, ForceClose(s) PROVE DutyInv'
  BY <1>5, <1>j, ForceSide, AlertKept DEF ForceClose
\* The steps below leave the desks alone.
<1>6. ASSUME UNCHANGED <<shift, shifts, errand>>, AlertSide',
             \/ UNCHANGED <<phone, astray>>
             \/ (\E fs : phone' = Silence(fs)) /\ UNCHANGED astray
             \/ \E f \in Phones, seen \in PhoneRow : WriteBack(f, seen)
      PROVE  DutyInv'
  <2>1. /\ errand' \in [Desks -> Errand] /\ OnErrand'
        /\ \A t \in Dispatchers : Revoking(t) => Revoking(t)'
    BY <1>0, <1>6 DEF DutyShape, OnErrand, Revoking
  <2> QED BY <1>6, <1>j, <2>1, RowsSide
<1>7. ASSUME NEW s \in Dispatchers, Unregister(s) PROVE DutyInv'
  <2>1. AlertSide' BY <1>7, AlertKept DEF Unregister
  <2> QED BY <1>6, <1>7, <2>1 DEF Unregister, ShiftsLeft
<1>8. ASSUME NEW j \in Hails,
             Chase(j) \/ Attended(j) \/ \E p \in Places : Offered(j, p)
      PROVE  DutyInv'
  <2>1. AlertSide' BY <1>8, ChaseCounts, AttendedCounts, OfferedCounts
  <2>2. UNCHANGED <<shift, shifts, errand, phone, astray>>
    BY <1>8 DEF Chase, Attended, Offered, Alert, ShiftsLeft
  <2> QED BY <1>6, <2>1, <2>2
<1>9. ASSUME NEW c \in Callers, Rung(c) PROVE DutyInv'
  <2>1. AlertSide' BY <1>9, RungCounts
  <2> QED BY <1>6, <1>9, <2>1 DEF Rung, ShiftsLeft
<1>11. ASSUME NEW c \in Callers, RingingFails(c) PROVE DutyInv'
  <2>1. AlertSide' BY <1>11, FailedCounts
  <2> QED BY <1>6, <1>11, <2>1 DEF RingingFails, ShiftsLeft
<1>10. ASSUME NEW c \in Callers, NEW f \in Phones, Rings(c, f) PROVE DutyInv'
  <2>1. AlertSide' BY <1>10, RingsCounts
  <2>2. ringing[c].seen[f] \in PhoneRow BY <1>0 DEF AlertSide, Alarm
  <2> QED BY <1>6, <1>10, <2>1, <2>2 DEF Rings, ShiftsLeft
<1> QED BY <1>1, <1>2, <1>3, <1>4, <1>5, <1>7, <1>8, <1>9, <1>10, <1>11 DEF DutyNext

LEMMA DutyInvariant == DutySpec => []DutyInv
BY DutyInvInit, DutyInvStep, PTL DEF DutySpec

\* Shifts, phones, requests, jobs and alerts keep their shapes
\* (dispatcher_shift_service.ts, staff_push_service.ts, staff_push_escalation.ts).
THEOREM DutyTypes == DutySpec => []DutyTypeOK
<1>1. DutyInv => DutyTypeOK
  BY DEF DutyInv, DutyShape, DutyTypeOK, Errand, Alarm, HailRow
<1> QED BY <1>1, DutyInvariant, PTL

\* For any number of dispatchers, phones and desks: a phone rings for the shift its
\* holder has open, and for one job no more than three times and once more for
\* each alert that could not be marked as sent
\* (dispatcher_shift_service.ts:248-343, staff_push_escalation.ts:15).
THEOREM DutyAlerts == DutySpec => []AlertsOnDuty
<1>1. DutyInv => OffDutyQuiet
  <2> SUFFICES ASSUME DutyInv, NEW f \in Phones,
                      phone[f].active, phone[f].duty # OffDuty, ~astray[f],
                      \A h \in Desks :
                         errand[h].at = "revoke" => errand[h].who # phone[f].holder
               PROVE  /\ phone[f].holder \in Dispatchers
                      /\ shift[phone[f].holder] = phone[f].duty
    BY DEF OffDutyQuiet
  <2> QED BY DEF DutyInv, QuietInv, RowQuiet, Revoking
<1>2. DutyInv => ThreeAlerts BY DEF DutyInv, CountedInv, JobCounted, ThreeAlerts
<1> QED BY <1>1, <1>2, DutyInvariant, PTL DEF AlertsOnDuty

-------------------------------------------------------------------------------
(* A park's queue, and where its drivers are *)

\* A membership with any position, and a request between two awaits with any order.
PlainRow == [status : {"ACTIVE", "SUSPENDED", "REMOVED"}, position : Nat]
Orders == UNION {SetToSeqs(D) : D \in SUBSET Queuers}
Task == [op : RowOp \cup {"reorder"}, driver : Queuers,
         at : {"max", "save", "queue", "reorder", "arrive", "present"},
         row : PlainRow, order : Orders]

\* The queue is 1..n, a place for each, and those in it are active.
Placed(table) == {d \in Queuers : table[d].position # 0}
OnlyActive(table) == \A d \in Placed(table) : table[d].status = "ACTIVE"
UpTo(table, n) == n \in Nat /\ {table[d].position : d \in Placed(table)} = 1..n
Orderly(table) ==
    /\ OnlyActive(table)
    /\ \E n \in Nat : UpTo(table, n)
    /\ \A d, e \in Placed(table) : table[d].position = table[e].position => d = e

\* Where the queue stands while one request alone is in flight, by the call it
\* makes next.
Stage(task, table) ==
    /\ task \in Task
    /\ task.at \in {"max", "save", "arrive", "present"} => Orderly(table)
    /\ task.at = "max" =>
          /\ task.op = "join" /\ task.row = table[task.driver]
          /\ task.row.status = "ACTIVE" /\ task.row.position = 0
    /\ task.at = "save" /\ task.op = "join" =>
          /\ table[task.driver].position = 0 /\ task.row.status = "ACTIVE"
          /\ \E n \in Nat : UpTo(table, n) /\ task.row.position = n + 1
    /\ task.at = "save" /\ task.op # "join" =>
          task.op # "reorder" /\ task.row = table[task.driver]
    /\ task.at = "queue" => OnlyActive(table)
    /\ task.at = "reorder" =>
          \A i \in DOMAIN task.order : table[task.order[i]].status = "ACTIVE"

QueueInv ==
    ~disturbed =>
        /\ roster \in [Queuers -> PlainRow]
        /\ clerk = [c \in Clerks |-> clerk[c]]
        /\ Busy = {} => Orderly(roster)
        /\ \A c \in Busy : Stage(clerk[c], roster) /\ Busy = {c}

\* A reading that nobody has overtaken is what the row still says.
WordInv ==
    /\ presence \in [Queuers -> Present]
    /\ geofence \in [Queuers -> Present \cup {NoReading}]
    /\ \A d \in Queuers : geofence[d] # NoReading /\ d \notin overtaken =>
          geofence[d] = presence[d]

RosterInv == QueueInv /\ WordInv

-----------------------------------------------------------------------------

\* An order of a finite set numbers its members, each once.
LEMMA OrderSays ==
    ASSUME NEW S, IsFiniteSet(S), NEW s \in SetToSeqs(S)
    PROVE  /\ Cardinality(S) \in Nat /\ DOMAIN s = 1..Cardinality(S)
           /\ \A i \in DOMAIN s : s[i] \in S
           /\ \A i, j \in DOMAIN s : s[i] = s[j] => i = j
           /\ \A x \in S : \E i \in DOMAIN s : s[i] = x
<1> DEFINE n == Cardinality(S)
<1>1. n \in Nat
  BY FS_CardinalityType
<1>2. s \in [1..n -> S] /\ \A i, j \in 1..n : i # j => s[i] # s[j]
  BY DEF SetToSeqs
<1>3. s \in Injection(1..n, S)
  BY <1>2 DEF Injection, IsInjective
<1>4. IsFiniteSet(1..n) /\ Cardinality(1..n) = n
  BY <1>1, FS_Interval
<1>5. s \in Surjection(1..n, S)
  BY <1>3, <1>4, FS_Injection
<1>6. \A x \in S : \E i \in 1..n : s[i] = x
  BY <1>5 DEF Surjection
<1> QED
  BY <1>1, <1>2, <1>6

\* Numbered by an order of active drivers, the queue stands.
LEMMA Numbered ==
    ASSUME NEW n \in Nat, NEW s \in [1..n -> Queuers], NEW table,
           \A i, j \in 1..n : s[i] = s[j] => i = j,
           \A i \in 1..n : table[s[i]].position = i /\ table[s[i]].status = "ACTIVE",
           \A d \in Queuers : (\A i \in 1..n : s[i] # d) => table[d].position = 0
    PROVE  Orderly(table)
<1>1. \A d \in Placed(table) : \E i \in 1..n : s[i] = d
  BY DEF Placed
<1>2. \A i \in 1..n : s[i] \in Placed(table)
  BY DEF Placed
<1>3. {table[d].position : d \in Placed(table)} = 1..n
  <2>1. \A d \in Placed(table) : table[d].position \in 1..n
    BY <1>1
  <2>2. \A i \in 1..n : i \in {table[d].position : d \in Placed(table)}
    BY <1>2
  <2> QED
    BY <2>1, <2>2
<1>4. OnlyActive(table)
  BY <1>1 DEF OnlyActive
<1>5. \A d, e \in Placed(table) : table[d].position = table[e].position => d = e
  BY <1>1
<1> QED
  BY <1>3, <1>4, <1>5 DEF Orderly, UpTo

\* The place behind the last of n is n + 1.
LEMMA BehindLast ==
    ASSUME roster \in [Queuers -> PlainRow], NEW n \in Nat, UpTo(roster, n)
    PROVE  BehindTheLast = n + 1
<1> DEFINE places == {0} \cup {roster[d].position : d \in Queuers}
           top(p) == \A d \in Queuers : roster[d].position <= p
           last == CHOOSE p \in places : top(p)
<1>1. \A d \in Queuers : roster[d].position \in 0..n
  BY DEF UpTo, Placed, PlainRow
<1>2. n # 0 => \E d \in Queuers : roster[d].position = n
  <2>1. n # 0 => n \in 1..n
    OBVIOUS
  <2> QED
    BY <2>1 DEF UpTo, Placed
<1>3. n \in places /\ top(n)
  BY <1>1, <1>2
<1>4. last \in places /\ top(last)
  BY <1>3
<1>5. last = n
  BY <1>1, <1>2, <1>4
<1>6. BehindTheLast = 1 + last
  BY Zenon DEF BehindTheLast
<1> HIDE DEF last
<1> QED
  BY <1>5, <1>6

\* A driver who stood in no place and takes the one behind the last.
LEMMA TakesPlace ==
    ASSUME NEW table \in [Queuers -> PlainRow], Orderly(table), NEW n \in Nat,
           UpTo(table, n), NEW d \in Queuers, table[d].position = 0,
           NEW row \in PlainRow, row.status = "ACTIVE", row.position = n + 1
    PROVE  Orderly([table EXCEPT ![d] = row])
<1> DEFINE after == [table EXCEPT ![d] = row]
<1>1. after[d] = row /\ \A e \in Queuers \ {d} : after[e] = table[e]
  OBVIOUS
<1> HIDE DEF after
<1>2. Placed(after) = Placed(table) \cup {d} /\ d \notin Placed(table)
  BY <1>1 DEF Placed
<1>3. \A e \in Placed(table) : table[e].position \in 1..n /\ after[e] = table[e]
  BY <1>1, <1>2 DEF UpTo, Placed
<1>4. {after[e].position : e \in Placed(after)} = 1..(n + 1)
  <2>1. \A e \in Placed(after) : after[e].position \in 1..(n + 1)
    BY <1>1, <1>2, <1>3
  <2>2. ASSUME NEW i \in 1..(n + 1)
        PROVE  \E e \in Placed(after) : after[e].position = i
    <3>1. CASE i = n + 1
      BY <1>1, <1>2, <3>1
    <3>2. CASE i \in 1..n
      <4>1. \E e \in Placed(table) : table[e].position = i
        BY <3>2 DEF UpTo
      <4> QED
        BY <1>2, <1>3, <4>1
    <3> QED
      BY <3>1, <3>2
  <2> QED
    BY <2>1, <2>2
<1>5. OnlyActive(after)
  BY <1>1, <1>2, <1>3 DEF OnlyActive, Orderly
<1>6. \A e, f \in Placed(after) : after[e].position = after[f].position => e = f
  <2> SUFFICES ASSUME NEW e \in Placed(after), NEW f \in Placed(after),
                      after[e].position = after[f].position
               PROVE  e = f
    OBVIOUS
  <2>1. CASE e = d \/ f = d
    BY <1>1, <1>2, <1>3, <2>1
  <2>2. CASE e # d /\ f # d
    BY <1>2, <1>3, <2>2 DEF Orderly
  <2> QED
    BY <2>1, <2>2
<1>7. Orderly(after)
  BY <1>4, <1>5, <1>6 DEF Orderly, UpTo
<1> QED
  BY <1>7 DEF after

-----------------------------------------------------------------------------

LEMMA TaskIsWork == \A task \in Task : task # NoClerk
<1> SUFFICES ASSUME NEW task \in Task PROVE task # NoClerk
  OBVIOUS
<1>1. task.op \in RowOp \cup {"reorder"}
  BY DEF Task
<1>2. NoClerk.op = "none"
  BY DEF NoClerk
<1> QED
  BY <1>1, <1>2 DEF RowOp

LEMMA OneAtWork ==
    ASSUME QueueInv, ~disturbed, NEW c \in Clerks, ~Idling(c)
    PROVE  /\ Busy = {c} /\ Stage(clerk[c], roster) /\ clerk[c] \in Task
           /\ roster \in [Queuers -> PlainRow] /\ clerk = [k \in Clerks |-> clerk[k]]
           /\ clerk[c].driver \in Queuers
BY DEF QueueInv, Busy, Stage, Task

\* The one request in flight goes on, or is through and leaves a queue in order.
LEMMA ClerkMoves ==
    ASSUME clerk = [k \in Clerks |-> clerk[k]], NEW c \in Clerks, Busy \subseteq {c},
           NEW task, clerk' = [clerk EXCEPT ![c] = task],
           roster' \in [Queuers -> PlainRow],
           \/ task = NoClerk /\ Orderly(roster')
           \/ Stage(task, roster')
    PROVE  QueueInv'
<1>1. clerk'[c] = task /\ \A k \in Clerks \ {c} : clerk'[k] = NoClerk
  BY DEF Busy, Idling
<1>2. clerk' = [k \in Clerks |-> clerk'[k]]
  OBVIOUS
<1>3. CASE task = NoClerk /\ Orderly(roster')
  <2>1. Busy' = {}
    BY <1>1, <1>3 DEF Busy, Idling
  <2> QED
    BY <1>2, <1>3, <2>1 DEF QueueInv
<1>4. CASE Stage(task, roster')
  <2>1. task # NoClerk
    BY <1>4, TaskIsWork DEF Stage
  <2>2. Busy' = {c}
    BY <1>1, <2>1 DEF Busy, Idling
  <2> QED
    BY <1>1, <1>2, <1>4, <2>2 DEF QueueInv
<1> QED
  BY <1>3, <1>4

\* Requests that touch neither the queue nor the requests in flight.
LEMMA QueueStays ==
    QueueInv /\ UNCHANGED <<roster, clerk>> /\ (~disturbed' => ~disturbed) => QueueInv'
BY DEF QueueInv, Busy, Idling

LEMMA RosterInvInit == RosterInit => RosterInv
<1> SUFFICES ASSUME RosterInit PROVE RosterInv
  OBVIOUS
<1>0. PICK D \in SUBSET Queuers : \E order \in SetToSeqs(D) :
         /\ roster = [d \in Queuers |-> [status |-> "ACTIVE",
               position |-> IF d \in D THEN CHOOSE i \in DOMAIN order : order[i] = d
                                       ELSE 0]]
         /\ presence \in [Queuers -> Present]
  BY DEF RosterInit
<1>1. PICK order \in SetToSeqs(D) :
         /\ roster = [d \in Queuers |-> [status |-> "ACTIVE",
               position |-> IF d \in D THEN CHOOSE i \in DOMAIN order : order[i] = d
                                       ELSE 0]]
         /\ presence \in [Queuers -> Present]
  BY <1>0
<1>2. /\ clerk = [c \in Clerks |-> NoClerk] /\ geofence = [d \in Queuers |-> NoReading]
  BY DEF RosterInit
<1>3. IsFiniteSet(D)
  BY RosterAssumption, FS_Subset
<1> DEFINE n == Cardinality(D)
<1>4. /\ n \in Nat /\ DOMAIN order = 1..n
      /\ \A i \in 1..n : order[i] \in D
      /\ \A i, j \in 1..n : order[i] = order[j] => i = j
      /\ \A d \in D : \E i \in 1..n : order[i] = d
  BY <1>3, OrderSays
<1>5. order \in [1..n -> Queuers]
  BY <1>4 DEF SetToSeqs
<1> HIDE DEF n
<1>6. \A i \in 1..n : roster[order[i]].position = i /\ roster[order[i]].status = "ACTIVE"
  <2> SUFFICES ASSUME NEW i \in 1..n
               PROVE  roster[order[i]].position = i /\ roster[order[i]].status = "ACTIVE"
    OBVIOUS
  <2>1. (CHOOSE k \in DOMAIN order : order[k] = order[i]) = i
    BY <1>4
  <2> QED
    BY <1>1, <1>4, <2>1
<1>7. \A d \in Queuers : (\A i \in 1..n : order[i] # d) => roster[d].position = 0
  BY <1>1, <1>4
<1>8. Orderly(roster)
  BY <1>4, <1>5, <1>6, <1>7, Numbered
<1>9. roster \in [Queuers -> PlainRow]
  <2>1. \A d \in D : (CHOOSE i \in DOMAIN order : order[i] = d) \in Nat
    BY <1>4
  <2> QED
    BY <1>1, <2>1 DEF PlainRow
<1>10. Busy = {} /\ clerk = [c \in Clerks |-> clerk[c]]
  BY <1>2 DEF Busy, Idling
<1>11. QueueInv
  BY <1>8, <1>9, <1>10 DEF QueueInv
<1>12. WordInv
  BY <1>1, <1>2 DEF WordInv
<1> QED
  BY <1>11, <1>12 DEF RosterInv

-----------------------------------------------------------------------------
(* One request in flight *)

LEMMA TaskFields ==
    ASSUME NEW task \in Task
    PROVE  /\ task = [op |-> task.op, driver |-> task.driver, at |-> task.at,
                      row |-> task.row, order |-> task.order]
           /\ task.driver \in Queuers /\ task.row \in PlainRow /\ task.order \in Orders
           /\ task.op \in RowOp \cup {"reorder"}
BY DEF Task

LEMMA TaskGoesOn ==
    ASSUME NEW task \in Task, NEW place \in {"max", "save", "queue", "reorder",
                                             "arrive", "present"}
    PROVE  LET next == [task EXCEPT !.at = place]
           IN  /\ next \in Task /\ next.at = place /\ next.op = task.op
               /\ next.driver = task.driver /\ next.row = task.row
               /\ next.order = task.order
BY DEF Task

\* What an order is, whichever drivers it is of.
LEMMA OrdersSay ==
    ASSUME NEW s \in Orders
    PROVE  \E n \in Nat : /\ s \in [1..n -> Queuers]
                          /\ \A i, j \in 1..n : s[i] = s[j] => i = j
<1>1. PICK D \in SUBSET Queuers : s \in SetToSeqs(D)
  BY DEF Orders
<1>2. IsFiniteSet(D)
  BY RosterAssumption, FS_Subset
<1>3. /\ Cardinality(D) \in Nat /\ s \in [1..Cardinality(D) -> D]
      /\ \A i, j \in 1..Cardinality(D) : s[i] = s[j] => i = j
  BY <1>1, <1>2, OrderSays DEF SetToSeqs
<1> QED
  BY <1>3

LEMMA QueueTakesUp ==
    ASSUME QueueInv, NEW c \in Clerks, NEW op \in RowOp, NEW d \in Queuers,
           TakesUp(c, op, d)
    PROVE  QueueInv'
<1> SUFFICES ASSUME ~disturbed' PROVE QueueInv'
  BY DEF QueueInv
<1>1. ~disturbed /\ Busy = {}
  BY DEF TakesUp
<1>2. /\ roster \in [Queuers -> PlainRow] /\ clerk = [k \in Clerks |-> clerk[k]]
      /\ Orderly(roster)
  BY <1>1 DEF QueueInv
<1> DEFINE task == [op |-> op, driver |-> d, row |-> roster[d], order |-> <<>>,
                    at |-> IF op = "join" THEN "max" ELSE "save"]
<1>3. /\ clerk' = [clerk EXCEPT ![c] = task] /\ roster' = roster
      /\ Accepts(op, roster[d])
  BY DEF TakesUp
<1>4. <<>> \in Orders
  <2>1. <<>> \in SetToSeqs({})
    <3>1. 1..0 = {} /\ Cardinality({}) = 0
      BY FS_EmptySet
    <3>2. <<>> \in [{} -> {}]
      OBVIOUS
    <3> QED
      BY <3>1, <3>2 DEF SetToSeqs
  <2> QED
    BY <2>1 DEF Orders
<1>5. roster[d] \in PlainRow
  BY <1>2
<1>6. task \in Task
  BY <1>4, <1>5 DEF Task
<1>7. op = "join" => roster[d].status = "ACTIVE" /\ roster[d].position = 0
  BY <1>3 DEF Accepts
<1>8. op # "reorder"
  BY DEF RowOp
<1>9. Stage(task, roster)
  BY <1>2, <1>6, <1>7, <1>8 DEF Stage
<1> QED
  BY <1>1, <1>2, <1>3, <1>9, ClerkMoves

LEMMA QueueAsksOrder ==
    ASSUME QueueInv, NEW c \in Clerks, NEW d \in Queuers, AsksOrder(c, d)
    PROVE  QueueInv'
<1> SUFFICES ASSUME ~disturbed' PROVE QueueInv'
  BY DEF QueueInv
<1>1. ~disturbed /\ Busy = {}
  BY DEF AsksOrder
<1>2. /\ roster \in [Queuers -> PlainRow] /\ clerk = [k \in Clerks |-> clerk[k]]
  BY <1>1 DEF QueueInv
<1> DEFINE standing == {e \in Queued : roster[e].status = "ACTIVE"}
<1>3. PICK order \in SetToSeqs(standing) :
         clerk' = [clerk EXCEPT ![c] =
             [op |-> "reorder", driver |-> d, row |-> roster[d], order |-> order,
              at |-> "reorder"]]
  BY DEF AsksOrder
<1>4. standing \in SUBSET Queuers
  BY DEF Queued
<1>5. order \in Orders /\ \A i \in DOMAIN order : order[i] \in standing
  BY <1>3, <1>4, OrderSays, RosterAssumption, FS_Subset DEF Orders
<1> DEFINE task == [op |-> "reorder", driver |-> d, row |-> roster[d],
                    order |-> order, at |-> "reorder"]
<1>6. task \in Task
  BY <1>2, <1>5 DEF Task
<1>7. Stage(task, roster)
  BY <1>5, <1>6 DEF Stage
<1>8. roster' = roster
  BY DEF AsksOrder
<1> QED
  BY <1>1, <1>2, <1>3, <1>7, <1>8, ClerkMoves

LEMMA QueueReadsMax ==
    ASSUME QueueInv, NEW c \in Clerks, ReadsMax(c)
    PROVE  QueueInv'
<1> SUFFICES ASSUME ~disturbed' PROVE QueueInv'
  BY DEF QueueInv
<1>1. ~disturbed /\ ~Idling(c) /\ clerk[c].at = "max" /\ roster' = roster
  BY DEF ReadsMax
<1>2. /\ Busy = {c} /\ Stage(clerk[c], roster) /\ clerk[c] \in Task
      /\ roster \in [Queuers -> PlainRow] /\ clerk = [k \in Clerks |-> clerk[k]]
      /\ clerk[c].driver \in Queuers
  BY <1>1, OneAtWork
<1> DEFINE old == clerk[c]
           row == [old.row EXCEPT !.position = BehindTheLast]
           task == [old EXCEPT !.row = row, !.at = "save"]
<1>3. Orderly(roster) /\ old.row.status = "ACTIVE" /\ roster[old.driver].position = 0
      /\ old.op = "join" /\ old.row \in PlainRow
  BY <1>1, <1>2, TaskFields DEF Stage
<1>4. PICK n \in Nat : UpTo(roster, n)
  BY <1>3 DEF Orderly
<1>5. BehindTheLast = n + 1
  BY <1>2, <1>4, BehindLast
<1>6. row \in PlainRow /\ row.position = n + 1 /\ row.status = "ACTIVE"
  BY <1>3, <1>5 DEF PlainRow
<1>7. clerk' = [clerk EXCEPT ![c] = task]
  BY <1>2 DEF ReadsMax, Task
<1> HIDE DEF row
<1>8. /\ task \in Task /\ task.row = row /\ task.at = "save" /\ task.op = "join"
      /\ task.driver = old.driver
  BY <1>2, <1>3, <1>6 DEF Task
<1> HIDE DEF task
<1>9. Stage(task, roster)
  BY <1>3, <1>4, <1>6, <1>8 DEF Stage
<1> QED
  BY <1>1, <1>2, <1>7, <1>9, ClerkMoves

LEMMA QueueSavesRow ==
    ASSUME QueueInv, NEW c \in Clerks, SavesRow(c)
    PROVE  QueueInv'
<1> SUFFICES ASSUME ~disturbed' PROVE QueueInv'
  BY DEF QueueInv
<1>1. ~disturbed /\ ~Idling(c) /\ clerk[c].at = "save"
  BY DEF SavesRow
<1>2. /\ Busy = {c} /\ Stage(clerk[c], roster) /\ clerk[c] \in Task
      /\ roster \in [Queuers -> PlainRow] /\ clerk = [k \in Clerks |-> clerk[k]]
      /\ clerk[c].driver \in Queuers
  BY <1>1, OneAtWork
<1> DEFINE old == clerk[c]
           row == Edited(old.op, old.row)
           task == IF old.op = "join" THEN [old EXCEPT !.at = "arrive"]
                   ELSE IF old.op \in {"skip", "reinstate"} THEN NoClerk
                   ELSE [old EXCEPT !.at = "queue"]
           table == [roster EXCEPT ![old.driver] = row]
<1>3. roster' = table /\ clerk' = [clerk EXCEPT ![c] = task]
  BY DEF SavesRow
<1>4. old.row \in PlainRow /\ old.op \in RowOp \cup {"reorder"} /\ Orderly(roster)
  BY <1>1, <1>2, TaskFields DEF Stage
<1>5. row \in PlainRow
  BY <1>4 DEF Edited, PlainRow
<1>6. table \in [Queuers -> PlainRow]
  BY <1>2, <1>5
<1>7. CASE old.op = "join"
  <2>1. row = old.row
    BY <1>7 DEF Edited
  <2>2. PICK n \in Nat : UpTo(roster, n) /\ old.row.position = n + 1
    BY <1>1, <1>2, <1>7 DEF Stage
  <2>3. roster[old.driver].position = 0 /\ old.row.status = "ACTIVE"
    BY <1>1, <1>2, <1>7 DEF Stage
  <2>4. Orderly(table)
    BY <1>2, <1>4, <2>1, <2>2, <2>3, TakesPlace
  <2>5. task \in Task /\ task.at = "arrive"
    BY <1>2, <1>7, TaskGoesOn
  <2> HIDE DEF table, task
  <2>6. Stage(task, table)
    BY <2>4, <2>5 DEF Stage
  <2> QED
    BY <1>2, <1>3, <1>6, <2>6, ClerkMoves
<1>8. CASE old.op \in {"skip", "reinstate"}
  <2>1. old.row = roster[old.driver]
    BY <1>1, <1>2, <1>8 DEF Stage
  <2>2. row.position = old.row.position /\ (row.status = old.row.status \/ row.status = "ACTIVE")
    BY <1>4, <1>8 DEF Edited, PlainRow
  <2>3. \A d \in Queuers :
           /\ table[d].position = roster[d].position
           /\ table[d].status = roster[d].status \/ table[d].status = "ACTIVE"
    BY <1>2, <2>1, <2>2
  <2>4. task = NoClerk
    BY <1>8
  <2> HIDE DEF table, task
  <2>5. Placed(table) = Placed(roster)
    BY <2>3 DEF Placed
  <2>6. \A d \in Placed(roster) : d \in Queuers
    BY DEF Placed
  <2>7. {table[d].position : d \in Placed(table)}
            = {roster[d].position : d \in Placed(roster)}
    BY <2>3, <2>5, <2>6
  <2>8. OnlyActive(table)
    BY <1>4, <2>3, <2>5, <2>6 DEF Orderly, OnlyActive
  <2>9. \A d, e \in Placed(table) : table[d].position = table[e].position => d = e
    BY <1>4, <2>3, <2>5, <2>6 DEF Orderly
  <2>10. Orderly(table)
    BY <1>4, <2>7, <2>8, <2>9 DEF Orderly, UpTo
  <2> QED
    BY <1>2, <1>3, <1>6, <2>4, <2>10, ClerkMoves
<1>9. CASE old.op \notin {"join", "skip", "reinstate"}
  <2>1. old.row = roster[old.driver] /\ old.op # "reorder"
    BY <1>1, <1>2, <1>9 DEF Stage
  <2>2. old.op \in {"leave", "assign", "remove", "suspend"}
    BY <1>4, <1>9, <2>1 DEF RowOp
  <2>3. row.position = 0
    BY <1>4, <2>2 DEF Edited, PlainRow
  <2>4. \A d \in Queuers \ {old.driver} : table[d] = roster[d]
    BY <1>2
  <2>5. table[old.driver] = row
    BY <1>2
  <2>6. task \in Task /\ task.at = "queue"
    BY <1>2, <1>9, TaskGoesOn
  <2> HIDE DEF table, task
  <2>7. \A d \in Placed(table) : d \in Placed(roster) /\ table[d] = roster[d]
    BY <2>3, <2>4, <2>5 DEF Placed
  <2>8. OnlyActive(table)
    BY <1>4, <2>7 DEF Orderly, OnlyActive
  <2>9. Stage(task, table)
    BY <2>6, <2>8 DEF Stage
  <2> QED
    BY <1>2, <1>3, <1>6, <2>9, ClerkMoves
<1> QED
  BY <1>7, <1>8, <1>9

LEMMA QueueReadsQueue ==
    ASSUME QueueInv, NEW c \in Clerks, ReadsQueue(c)
    PROVE  QueueInv'
<1> SUFFICES ASSUME ~disturbed' PROVE QueueInv'
  BY DEF QueueInv
<1>1. ~disturbed /\ ~Idling(c) /\ clerk[c].at = "queue" /\ roster' = roster
  BY DEF ReadsQueue
<1>2. /\ Busy = {c} /\ Stage(clerk[c], roster) /\ clerk[c] \in Task
      /\ roster \in [Queuers -> PlainRow] /\ clerk = [k \in Clerks |-> clerk[k]]
  BY <1>1, OneAtWork
<1> DEFINE standing == {d \in Queued : roster[d].status = "ACTIVE"}
<1>3. PICK order \in QueueOrders :
         clerk' = [clerk EXCEPT ![c].order = order, ![c].at = "reorder"]
  BY DEF ReadsQueue
<1>4. order \in SetToSeqs(standing) /\ standing \in SUBSET Queuers
  BY DEF QueueOrders, Queued
<1>5. order \in Orders /\ \A i \in DOMAIN order : order[i] \in standing
  BY <1>4, OrderSays, RosterAssumption, FS_Subset DEF Orders
<1> DEFINE task == [clerk[c] EXCEPT !.order = order, !.at = "reorder"]
<1>6. clerk' = [clerk EXCEPT ![c] = task]
  BY <1>2, <1>3 DEF Task
<1>7. task \in Task /\ task.at = "reorder" /\ task.order = order
  BY <1>2, <1>5 DEF Task
<1> HIDE DEF task
<1>8. Stage(task, roster)
  BY <1>5, <1>7 DEF Stage
<1> QED
  BY <1>1, <1>2, <1>6, <1>8, ClerkMoves

LEMMA QueueReorders ==
    ASSUME QueueInv, NEW c \in Clerks, reorderQueue(c)
    PROVE  QueueInv'
<1> SUFFICES ASSUME ~disturbed' PROVE QueueInv'
  BY DEF QueueInv
<1>1. ~disturbed /\ ~Idling(c) /\ clerk[c].at = "reorder"
  BY DEF reorderQueue
<1>2. /\ Busy = {c} /\ Stage(clerk[c], roster) /\ clerk[c] \in Task
      /\ roster \in [Queuers -> PlainRow] /\ clerk = [k \in Clerks |-> clerk[k]]
  BY <1>1, OneAtWork
<1> DEFINE old == clerk[c]
           s == old.order
           place(d) == IF d \in ToSet(s) THEN CHOOSE i \in DOMAIN s : s[i] = d ELSE 0
           table == [d \in Queuers |-> [roster[d] EXCEPT !.position = place(d)]]
           task == IF old.op \in {"leave", "assign"}
                   THEN [old EXCEPT !.at = "present"] ELSE NoClerk
<1>3. roster' = table /\ clerk' = [clerk EXCEPT ![c] = task]
  BY DEF reorderQueue
<1>4. s \in Orders
  BY <1>2, TaskFields
<1>5. PICK n \in Nat : s \in [1..n -> Queuers] /\ \A i, j \in 1..n : s[i] = s[j] => i = j
  BY <1>4, OrdersSay
<1>6. \A i \in 1..n : place(s[i]) = i
  <2> SUFFICES ASSUME NEW i \in 1..n PROVE place(s[i]) = i
    OBVIOUS
  <2>1. s[i] \in ToSet(s)
    BY <1>5 DEF ToSet
  <2>2. (CHOOSE k \in DOMAIN s : s[k] = s[i]) = i
    BY <1>5
  <2> QED
    BY <2>1, <2>2
<1>7. \A d \in Queuers : (\A i \in 1..n : s[i] # d) => place(d) = 0
  BY <1>5 DEF ToSet
<1>8. ASSUME NEW d \in Queuers PROVE place(d) \in Nat
  <2>1. CASE \A i \in 1..n : s[i] # d
    <3>1. place(d) = 0
      BY <1>7, <2>1
    <3> HIDE DEF place
    <3> QED
      BY <3>1
  <2>2. CASE \E i \in 1..n : s[i] = d
    <3>1. PICK i \in 1..n : s[i] = d
      BY <2>2
    <3>2. place(s[i]) = i
      BY <1>6
    <3> HIDE DEF place, s
    <3> QED
      BY <3>1, <3>2
  <2> QED
    BY <2>1, <2>2
<1>9. \A i \in 1..n : roster[s[i]].status = "ACTIVE"
  BY <1>1, <1>2, <1>5 DEF Stage
<1> HIDE DEF place, s
<1>10. \A d \in Queuers : /\ table[d] \in PlainRow
                          /\ table[d].position = place(d)
                          /\ table[d].status = roster[d].status
  BY <1>2, <1>8 DEF PlainRow
<1>11. table \in [Queuers -> PlainRow]
  BY <1>10
<1> HIDE DEF table
<1>12. \A i \in 1..n : s[i] \in Queuers
  BY <1>5
<1>13. Orderly(table)
  BY <1>5, <1>6, <1>7, <1>9, <1>10, <1>12, Numbered
<1>14. CASE old.op \in {"leave", "assign"}
  <2>1. task \in Task /\ task.at = "present"
    BY <1>2, <1>14, TaskGoesOn
  <2> HIDE DEF task
  <2>2. Stage(task, table)
    BY <1>13, <2>1 DEF Stage
  <2> QED
    BY <1>2, <1>3, <1>11, <2>2, ClerkMoves
<1>15. CASE old.op \notin {"leave", "assign"}
  <2>1. task = NoClerk
    BY <1>15
  <2> HIDE DEF task
  <2> QED
    BY <1>2, <1>3, <1>11, <1>13, <2>1, ClerkMoves
<1> QED
  BY <1>14, <1>15

LEMMA QueueArrives ==
    ASSUME QueueInv, NEW c \in Clerks, Arrives(c) \/ Presents(c) \/ ClerkFails(c)
    PROVE  QueueInv'
<1> SUFFICES ASSUME ~disturbed' PROVE QueueInv'
  BY DEF QueueInv
<1>1. /\ ~disturbed /\ ~Idling(c) /\ clerk[c].at \in {"arrive", "present"}
      /\ roster' = roster
  BY DEF Arrives, Presents, ClerkFails
<1>2. /\ Busy = {c} /\ Stage(clerk[c], roster) /\ clerk[c] \in Task
      /\ roster \in [Queuers -> PlainRow] /\ clerk = [k \in Clerks |-> clerk[k]]
  BY <1>1, OneAtWork
<1>3. Orderly(roster)
  BY <1>1, <1>2 DEF Stage
<1>4. CASE Arrives(c)
  <2> DEFINE task == [clerk[c] EXCEPT !.at = "present"]
  <2>1. clerk' = [clerk EXCEPT ![c] = task]
    BY <1>4 DEF Arrives
  <2>2. task \in Task /\ task.at = "present"
    BY <1>2, TaskGoesOn
  <2> HIDE DEF task
  <2>3. Stage(task, roster)
    BY <1>3, <2>2 DEF Stage
  <2> QED
    BY <1>1, <1>2, <2>1, <2>3, ClerkMoves
<1>5. CASE Presents(c)
  <2>1. clerk' = [clerk EXCEPT ![c] = NoClerk]
    BY <1>5 DEF Presents
  <2> QED
    BY <1>1, <1>2, <1>3, <2>1, ClerkMoves
<1>6. CASE ClerkFails(c)
  BY <1>6 DEF ClerkFails
<1> QED
  BY <1>4, <1>5, <1>6

LEMMA QueueStep == QueueInv /\ [RosterNext]_rosterVars => QueueInv'
<1> SUFFICES ASSUME QueueInv, [RosterNext]_rosterVars PROVE QueueInv'
  OBVIOUS
<1>1. ASSUME NEW c \in Clerks,
             \/ ReadsMax(c) \/ SavesRow(c) \/ ReadsQueue(c) \/ reorderQueue(c)
             \/ Arrives(c) \/ Presents(c) \/ ClerkFails(c)
             \/ \E d \in Queuers : AsksOrder(c, d)
             \/ \E d \in Queuers, op \in RowOp : TakesUp(c, op, d)
      PROVE  QueueInv'
  BY <1>1, QueueReadsMax, QueueSavesRow, QueueReadsQueue, QueueReorders, QueueArrives,
     QueueAsksOrder, QueueTakesUp
<1>2. ASSUME NEW d \in Queuers,
             \/ DeclineReturns(d) \/ BeginsEvaluation(d)
             \/ \E inside \in BOOLEAN : Evaluates(d, inside)
             \/ \E to \in PresenceState : DispatcherStates(d, to)
      PROVE  QueueInv'
  <2>1. UNCHANGED <<roster, clerk, disturbed>>
    BY <1>2 DEF DeclineReturns, BeginsEvaluation, Evaluates, DispatcherStates
  <2> QED
    BY <2>1, QueueStays
<1>3. CASE UNCHANGED rosterVars
  BY <1>3, QueueStays DEF rosterVars
<1> QED
  BY <1>1, <1>2, <1>3 DEF RosterNext

\* The places of a queue that stands are as many as its members.
LEMMA QueueIsInOrder == QueueInv => QueueInOrder
<1> SUFFICES ASSUME QueueInv, ~disturbed, Busy = {}
             PROVE  /\ {roster[d].position : d \in Queued} = 1..Cardinality(Queued)
                    /\ \A d \in Queued : roster[d].status = "ACTIVE"
  BY DEF QueueInOrder
<1>1. Orderly(roster) /\ Queued = Placed(roster)
  BY DEF QueueInv, Queued, Placed
<1>2. PICK n \in Nat : {roster[d].position : d \in Queued} = 1..n
  BY <1>1 DEF Orderly, UpTo
<1>3. \A d, e \in Queued : roster[d].position = roster[e].position => d = e
  BY <1>1 DEF Orderly
<1>4. Cardinality(Queued) = n
  <2> DEFINE f == [d \in Queued |-> roster[d].position]
  <2>1. f \in Injection(Queued, 1..n)
    BY <1>2, <1>3 DEF Injection, IsInjective
  <2>2. f \in Surjection(Queued, 1..n)
    BY <1>2 DEF Surjection
  <2>3. IsFiniteSet(1..n) /\ Cardinality(1..n) = n
    BY FS_Interval
  <2> QED
    BY <2>1, <2>2, <2>3, FS_Injection
<1> QED
  BY <1>1, <1>2, <1>4 DEF Orderly, OnlyActive

-----------------------------------------------------------------------------
(* The dispatcher's word *)

LEMMA SetStateSays ==
    ASSUME presence \in [Queuers -> Present], NEW d,
           NEW to \in PresenceState, NEW source \in {"DISPATCHER", "SYSTEM", "DRIVER_APP"},
           setState(d, to, source)
    PROVE  /\ presence' \in [Queuers -> Present]
           /\ \A e \in Queuers :
                 presence'[e] = presence[e] \/ (e = d /\ presence'[e].source = source)
<1> DEFINE here == to \notin {"OFFLINE", "ONLINE"}
           row == [state |-> to, here |-> here, source |-> source]
<1>1. presence' = [presence EXCEPT ![d] = row] \/ presence' = presence
  BY Zenon DEF setState
<1>2. row \in Present /\ row.source = source
  BY DEF Present
<1> HIDE DEF row
<1>3. CASE presence' = [presence EXCEPT ![d] = row]
  <2>1. \A e \in Queuers : presence'[e] = IF e = d THEN row ELSE presence[e]
    BY <1>3
  <2> QED
    BY <1>2, <1>3, <2>1
<1>4. CASE presence' = presence
  BY <1>4
<1> QED
  BY <1>1, <1>3, <1>4

\* What anybody but the phone does, it says of one driver.
SaidOf(d) ==
    /\ presence' \in [Queuers -> Present]
    /\ \A e \in Queuers :
          presence'[e] = presence[e] \/ (e = d /\ presence'[e].source # "DRIVER_APP")
    /\ SpeaksOf(d) /\ geofence' = geofence

WordStep == \A d \in Queuers :
    /\ presence'[d] # presence[d]
    /\ presence'[d].source = "DRIVER_APP"
    /\ presence[d].source = "DISPATCHER"
    => d \in overtaken

LEMMA SaidKeeps ==
    ASSUME WordInv, NEW d, SaidOf(d)
    PROVE  WordInv' /\ WordStep
<1>1. WordStep
  BY DEF SaidOf, WordStep
<1>2. overtaken \subseteq overtaken' /\ (geofence[d] # NoReading => d \in overtaken')
  BY DEF SaidOf, SpeaksOf
<1> QED
  BY <1>1, <1>2 DEF WordInv, SaidOf

LEMMA WordStays ==
    WordInv /\ UNCHANGED <<presence, geofence, overtaken>> => WordInv' /\ WordStep
BY DEF WordInv, WordStep

LEMMA EvaluationKeeps ==
    ASSUME WordInv, NEW d \in Queuers, NEW inside \in BOOLEAN, Evaluates(d, inside)
    PROVE  WordInv' /\ WordStep
<1> DEFINE reading == geofence[d]
<1>1. /\ reading # NoReading /\ geofence' = [geofence EXCEPT ![d] = NoReading]
      /\ overtaken' = overtaken
      /\ \/ mayAdjust(reading) /\ setState(d, "AT_PARK", "DRIVER_APP")
         \/ mayAdjust(reading) /\ setState(d, "ONLINE", "DRIVER_APP")
         \/ presence' = presence
  BY DEF Evaluates
<1>2. /\ presence \in [Queuers -> Present] /\ geofence \in [Queuers -> Present \cup {NoReading}]
      /\ d \notin overtaken => reading = presence[d]
  BY <1>1 DEF WordInv
<1>3. /\ presence' \in [Queuers -> Present]
      /\ \A e \in Queuers \ {d} : presence'[e] = presence[e]
      /\ presence'[d] # presence[d] => mayAdjust(reading)
  BY <1>1, <1>2, SetStateSays DEF PresenceState
<1>4. WordInv'
  BY <1>1, <1>2, <1>3 DEF WordInv
<1>5. WordStep
  BY <1>2, <1>3 DEF WordStep, mayAdjust
<1> QED
  BY <1>4, <1>5

LEMMA WordKeeps == WordInv /\ [RosterNext]_rosterVars => WordInv' /\ WordStep
<1> SUFFICES ASSUME WordInv, [RosterNext]_rosterVars PROVE WordInv' /\ WordStep
  OBVIOUS
<1>0. presence \in [Queuers -> Present]
  BY DEF WordInv
<1>1. ASSUME NEW c \in Clerks,
             \/ ReadsMax(c) \/ SavesRow(c) \/ ReadsQueue(c) \/ reorderQueue(c)
             \/ ClerkFails(c) \/ \E d \in Queuers : AsksOrder(c, d)
             \/ \E d \in Queuers, op \in RowOp : TakesUp(c, op, d)
      PROVE  WordInv' /\ WordStep
  <2>1. UNCHANGED <<presence, geofence, overtaken>>
    BY <1>1 DEF ReadsMax, SavesRow, ReadsQueue, reorderQueue, ClerkFails, AsksOrder, TakesUp
  <2> QED
    BY <2>1, WordStays
<1>2. ASSUME NEW c \in Clerks, Arrives(c) PROVE WordInv' /\ WordStep
  <2> DEFINE d == clerk[c].driver
  <2>1. geofence' = geofence
    BY <1>2 DEF Arrives
  <2>2. CASE UNCHANGED <<presence, overtaken>>
    BY <2>1, <2>2, WordStays
  <2>3. CASE setState(d, "AT_PARK", "DISPATCHER") /\ SpeaksOf(d)
    <3>1. SaidOf(d)
      BY <1>0, <2>1, <2>3, SetStateSays DEF SaidOf, PresenceState
    <3> QED
      BY <3>1, SaidKeeps
  <2> QED
    BY <1>2, <2>2, <2>3 DEF Arrives
<1>3. ASSUME NEW c \in Clerks, Presents(c) PROVE WordInv' /\ WordStep
  <2> DEFINE d == clerk[c].driver
  <2>1. /\ geofence' = geofence /\ SpeaksOf(d)
        /\ \/ setState(d, "WAITING", "DISPATCHER")
           \/ setState(d, "AT_PARK", "DISPATCHER")
           \/ setState(d, "ASSIGNED", "SYSTEM")
    BY <1>3 DEF Presents
  <2>2. SaidOf(d)
    BY <1>0, <2>1, SetStateSays DEF SaidOf, PresenceState
  <2> QED
    BY <2>2, SaidKeeps
<1>4. ASSUME NEW d \in Queuers, DeclineReturns(d) PROVE WordInv' /\ WordStep
  <2>1. SaidOf(d)
    BY <1>0, <1>4, SetStateSays DEF DeclineReturns, SaidOf, PresenceState
  <2> QED
    BY <2>1, SaidKeeps
<1>5. ASSUME NEW d \in Queuers, NEW to \in PresenceState, DispatcherStates(d, to)
      PROVE  WordInv' /\ WordStep
  <2>1. SaidOf(d)
    BY <1>0, <1>5, SetStateSays DEF DispatcherStates, SaidOf
  <2> QED
    BY <2>1, SaidKeeps
<1>6. ASSUME NEW d \in Queuers, BeginsEvaluation(d) PROVE WordInv' /\ WordStep
  <2>1. /\ presence' = presence /\ geofence' = [geofence EXCEPT ![d] = presence[d]]
        /\ overtaken' = overtaken \ {d}
    BY <1>6 DEF BeginsEvaluation
  <2> QED
    BY <2>1 DEF WordInv, WordStep
<1>7. ASSUME NEW d \in Queuers, NEW inside \in BOOLEAN, Evaluates(d, inside)
      PROVE  WordInv' /\ WordStep
  BY <1>7, EvaluationKeeps
<1>8. CASE UNCHANGED rosterVars
  BY <1>8, WordStays DEF rosterVars
<1> QED
  BY <1>1, <1>2, <1>3, <1>4, <1>5, <1>6, <1>7, <1>8 DEF RosterNext

THEOREM QueueStands == RosterSpec => []QueueInOrder
<1>1. RosterInit => QueueInv
  BY RosterInvInit DEF RosterInv
<1> QED
  BY <1>1, QueueStep, QueueIsInOrder, PTL DEF RosterSpec

THEOREM WordStands == RosterSpec => DispatchersWordStands
<1>1. RosterInit => WordInv
  BY RosterInvInit DEF RosterInv
<1>2. WordStep <=> \A d \in Queuers :
          /\ presence'[d] # presence[d]
          /\ presence'[d].source = "DRIVER_APP"
          /\ presence[d].source = "DISPATCHER"
          => d \in overtaken
  BY DEF WordStep
<1> QED
  BY <1>1, <1>2, WordKeeps, PTL DEF RosterSpec, DispatchersWordStands

\* A set of numbers has a least one.
LEMMA LeastNumber ==
    ASSUME NEW T \in SUBSET Nat, T # {}
    PROVE  \E x \in T : \A y \in T : x <= y
<1> DEFINE R == OpToRel(<, Nat)
<1>1. IsWellFoundedOn(R, Nat) BY NatLessThanWellFounded
<1>2. \A x, y \in Nat : x < y => <<x, y>> \in R BY DEF OpToRel
<1> HIDE DEF R
<1>3. PICK x \in T : \A y \in T : ~ (<<y, x>> \in R) BY <1>1, WFMin
<1>4. \A y \in T : ~ (y < x) BY <1>2, <1>3
<1>5. \A y \in T : x <= y BY <1>4
<1> QED BY <1>5

-----------------------------------------------------------------------------
(* The rows of the queue and of the requests in flight, disturbed or not *)

\* Requests that are about to read the last place of the queue.
Counting == {c \in Clerks : ~Idling(c) /\ clerk[c].at = "max"}

\* How far a position can be: every request that counted moved the end by one.
Furthest == Cardinality(Queuers) + ops - Cardinality(Counting)

RosterTyped ==
    /\ roster \in [Queuers -> PlainRow]
    /\ clerk \in [Clerks -> Task \cup {NoClerk}]
    /\ ops \in 0..MaxOps /\ disturbed \in BOOLEAN /\ overtaken \subseteq Queuers
    /\ IsFiniteSet(Counting) /\ Cardinality(Counting) <= ops
    /\ \A d \in Queuers : roster[d].position <= Furthest
    /\ \A c \in Clerks : ~Idling(c) => clerk[c].row.position <= Furthest

LEMMA FarEnough ==
    ASSUME RosterTyped
    PROVE  /\ Cardinality(Queuers) \in Nat /\ Cardinality(Counting) \in Nat
           /\ ops \in Nat /\ MaxOps \in Nat /\ Furthest \in Nat
           /\ Cardinality(Queuers) <= Furthest
           /\ Furthest <= Cardinality(Queuers) + MaxOps
<1>1. Cardinality(Queuers) \in Nat /\ Cardinality(Counting) \in Nat
  BY RosterAssumption, FS_CardinalityType DEF RosterTyped
<1> QED
  BY <1>1, RosterAssumption DEF RosterTyped, Furthest

\* The rows keep their types when the end of the queue is no nearer and every
\* row, the request's own among them, stays before it.
LEMMA RowsMove ==
    ASSUME RosterTyped, NEW c \in Clerks, NEW task \in Task \cup {NoClerk},
           clerk' = [clerk EXCEPT ![c] = task],
           roster' \in [Queuers -> PlainRow],
           ops' \in 0..MaxOps, disturbed' \in BOOLEAN, overtaken' \subseteq Queuers,
           IsFiniteSet(Counting'), Cardinality(Counting') <= ops',
           Furthest' \in Nat, Furthest <= Furthest',
           \A d \in Queuers : roster'[d].position <= Furthest',
           task # NoClerk => task.row.position <= Furthest'
    PROVE  RosterTyped'
<1>1. clerk' \in [Clerks -> Task \cup {NoClerk}]
  BY DEF RosterTyped
<1>2. ASSUME NEW k \in Clerks, clerk'[k] # NoClerk
      PROVE  clerk'[k].row.position <= Furthest'
  <2>1. CASE k = c
    <3>1. clerk'[k] = task
      BY <2>1 DEF RosterTyped
    <3> QED
      BY <1>2, <3>1
  <2>2. CASE k # c
    <3>1. clerk'[k] = clerk[k]
      BY <2>2 DEF RosterTyped
    <3>2. clerk[k].row.position <= Furthest /\ clerk[k] \in Task
      BY <1>2, <3>1 DEF RosterTyped, Idling
    <3>3. clerk[k].row.position \in Nat
      BY <3>2, TaskFields DEF PlainRow
    <3> QED
      BY <3>1, <3>2, <3>3, FarEnough
  <2> QED
    BY <2>1, <2>2
<1>3. \A k \in Clerks : ~Idling(k)' <=> clerk'[k] # NoClerk
  BY DEF Idling
<1> QED
  BY <1>1, <1>2, <1>3 DEF RosterTyped

\* A request that goes on, or is through, and does not come to count.
LEMMA NoMoreCount ==
    ASSUME RosterTyped, NEW c \in Clerks, NEW task \in Task \cup {NoClerk},
           clerk' = [clerk EXCEPT ![c] = task], task # NoClerk => task.at # "max"
    PROVE  /\ Counting' = Counting \ {c}
           /\ IsFiniteSet(Counting') /\ Cardinality(Counting') \in Nat
           /\ Cardinality(Counting') <= Cardinality(Counting)
           /\ c \in Counting => Cardinality(Counting') = Cardinality(Counting) - 1
<1>1. \A k \in Clerks : clerk'[k] = IF k = c THEN task ELSE clerk[k]
  BY DEF RosterTyped
<1>2. Counting' = Counting \ {c}
  BY <1>1 DEF Counting, Idling
<1>3. IsFiniteSet(Counting)
  BY DEF RosterTyped
<1>4. IsFiniteSet(Counting') /\ Cardinality(Counting') =
         IF c \in Counting THEN Cardinality(Counting) - 1 ELSE Cardinality(Counting)
  BY <1>2, <1>3, FS_RemoveElement
<1>5. Cardinality(Counting) \in Nat /\ Cardinality(Counting') \in Nat
  BY <1>3, <1>4, FS_CardinalityType
<1> QED
  BY <1>2, <1>4, <1>5

\* Steps of a request in flight.
LEMMA RowsGoOn ==
    ASSUME RosterTyped, NEW c \in Clerks, NEW task \in Task \cup {NoClerk},
           clerk' = [clerk EXCEPT ![c] = task], task # NoClerk => task.at # "max",
           ops' = ops, disturbed' \in BOOLEAN, overtaken' \subseteq Queuers,
           roster' \in [Queuers -> PlainRow],
           \A d \in Queuers : roster'[d].position <= Furthest,
           task # NoClerk => task.row.position <= Furthest
    PROVE  RosterTyped'
<1>1. /\ IsFiniteSet(Counting') /\ Cardinality(Counting') \in Nat
      /\ Cardinality(Counting') <= Cardinality(Counting)
  BY NoMoreCount
<1>2. Furthest' = Cardinality(Queuers) + ops - Cardinality(Counting')
  BY DEF Furthest
<1>3. Furthest' \in Nat /\ Furthest <= Furthest' /\ Furthest \in Nat
  BY <1>1, <1>2, FarEnough DEF Furthest, RosterTyped
<1>4. ops' \in 0..MaxOps /\ Cardinality(Counting') <= ops'
  BY <1>1, FarEnough DEF RosterTyped
<1>5. \A d \in Queuers : roster'[d].position <= Furthest'
  <2> SUFFICES ASSUME NEW d \in Queuers PROVE roster'[d].position <= Furthest'
    OBVIOUS
  <2>1. roster'[d].position \in Nat /\ roster'[d].position <= Furthest
    BY DEF PlainRow
  <2> QED
    BY <1>3, <2>1
<1>6. task # NoClerk => task.row.position <= Furthest'
  <2> SUFFICES ASSUME task \in Task, task.row.position <= Furthest
               PROVE  task.row.position <= Furthest'
    OBVIOUS
  <2>1. task.row.position \in Nat
    BY TaskFields DEF PlainRow
  <2> QED
    BY <1>3, <2>1
<1> QED
  BY <1>1, <1>3, <1>4, <1>5, <1>6, RowsMove

\* A request that comes in: it may come to count, and one more is in.
LEMMA RowsComeIn ==
    ASSUME RosterTyped, NEW c \in Clerks, Idling(c), NEW task \in Task,
           clerk' = [clerk EXCEPT ![c] = task], ops < MaxOps, ops' = ops + 1,
           disturbed' \in BOOLEAN, overtaken' = overtaken, roster' = roster,
           task.row.position <= Furthest
    PROVE  RosterTyped'
<1>1. \A k \in Clerks : clerk'[k] = IF k = c THEN task ELSE clerk[k]
  BY DEF RosterTyped
<1>2. c \notin Counting /\ IsFiniteSet(Counting) /\ Cardinality(Counting) \in Nat
  BY FarEnough DEF Counting, RosterTyped
<1>3. Counting' = Counting \/ Counting' = Counting \cup {c}
  BY <1>1, <1>2, TaskIsWork DEF Counting, Idling
<1>4. /\ IsFiniteSet(Counting')
      /\ \/ Cardinality(Counting') = Cardinality(Counting)
         \/ Cardinality(Counting') = Cardinality(Counting) + 1
  BY <1>2, <1>3, FS_AddElement
<1>5. Furthest' = Cardinality(Queuers) + ops' - Cardinality(Counting')
  BY DEF Furthest
<1>6. /\ Furthest' \in Nat /\ Furthest <= Furthest' /\ Furthest \in Nat
      /\ Cardinality(Counting') <= ops' /\ ops' \in 0..MaxOps
  BY <1>2, <1>4, <1>5, FarEnough DEF Furthest, RosterTyped
<1>7. \A d \in Queuers : roster'[d].position <= Furthest'
  <2> SUFFICES ASSUME NEW d \in Queuers PROVE roster'[d].position <= Furthest'
    OBVIOUS
  <2>1. roster'[d].position \in Nat /\ roster'[d].position <= Furthest
    BY DEF PlainRow, RosterTyped
  <2> QED
    BY <1>6, <2>1
<1>8. task.row.position <= Furthest'
  <2>1. task.row.position \in Nat
    BY TaskFields DEF PlainRow
  <2> QED
    BY <1>6, <2>1
<1>9. roster' \in [Queuers -> PlainRow] /\ overtaken' \subseteq Queuers
  BY DEF RosterTyped
<1> QED
  BY <1>4, <1>6, <1>7, <1>8, <1>9, RowsMove

LEMMA NoOrder == <<>> \in Orders
<1>1. <<>> \in SetToSeqs({})
  <2>1. 1..0 = {} /\ Cardinality({}) = 0
    BY FS_EmptySet
  <2>2. <<>> \in [{} -> {}]
    OBVIOUS
  <2> QED
    BY <2>1, <2>2 DEF SetToSeqs
<1> QED
  BY <1>1 DEF Orders

LEMMA RowsTakenUp ==
    ASSUME RosterTyped, NEW c \in Clerks, NEW op \in RowOp, NEW d \in Queuers,
           TakesUp(c, op, d)
    PROVE  RosterTyped'
<1> DEFINE task == [op |-> op, driver |-> d, row |-> roster[d], order |-> <<>>,
                    at |-> IF op = "join" THEN "max" ELSE "save"]
<1>1. roster[d] \in PlainRow /\ roster[d].position <= Furthest
  BY DEF RosterTyped
<1>2. task \in Task /\ task.row.position <= Furthest
  BY <1>1, NoOrder DEF Task
<1>3. /\ clerk' = [clerk EXCEPT ![c] = task] /\ Idling(c) /\ ops < MaxOps
      /\ ops' = ops + 1 /\ roster' = roster /\ overtaken' = overtaken
      /\ disturbed' \in BOOLEAN
  BY DEF TakesUp, RosterTyped
<1> HIDE DEF task
<1> QED
  BY <1>2, <1>3, RowsComeIn

LEMMA RowsOrdered ==
    ASSUME RosterTyped, NEW c \in Clerks, NEW d \in Queuers, AsksOrder(c, d)
    PROVE  RosterTyped'
<1> DEFINE standing == {e \in Queued : roster[e].status = "ACTIVE"}
<1>1. PICK order \in SetToSeqs(standing) :
         clerk' = [clerk EXCEPT ![c] =
             [op |-> "reorder", driver |-> d, row |-> roster[d], order |-> order,
              at |-> "reorder"]]
  BY DEF AsksOrder
<1>2. order \in Orders
  BY <1>1 DEF Orders, Queued
<1> DEFINE task == [op |-> "reorder", driver |-> d, row |-> roster[d],
                    order |-> order, at |-> "reorder"]
<1>3. roster[d] \in PlainRow /\ roster[d].position <= Furthest
  BY DEF RosterTyped
<1>4. task \in Task /\ task.row.position <= Furthest
  BY <1>2, <1>3 DEF Task
<1>5. /\ clerk' = [clerk EXCEPT ![c] = task] /\ Idling(c) /\ ops < MaxOps
      /\ ops' = ops + 1 /\ roster' = roster /\ overtaken' = overtaken
      /\ disturbed' \in BOOLEAN
  BY <1>1 DEF AsksOrder, RosterTyped
<1> HIDE DEF task
<1> QED
  BY <1>4, <1>5, RowsComeIn

\* The last place, wherever a disturbed queue has it, is one of the queue's.
LEMMA LastIsAPlace ==
    ASSUME RosterTyped
    PROVE  BehindTheLast \in Nat /\ BehindTheLast <= Furthest + 1
<1> DEFINE places == {0} \cup {roster[d].position : d \in Queuers}
           top(p) == \A d \in Queuers : roster[d].position <= p
           last == CHOOSE p \in places : top(p)
<1>1. \A d \in Queuers : roster[d].position \in Nat /\ roster[d].position <= Furthest
  BY DEF RosterTyped, PlainRow
<1>2. \E p \in places : top(p)
  <2> DEFINE beyond == {n \in Nat : top(n)}
  <2>1. Furthest \in beyond /\ beyond \in SUBSET Nat
    BY <1>1, FarEnough
  <2>2. PICK m \in beyond : \A n \in beyond : m <= n
    BY <2>1, LeastNumber
  <2>3. m \in Nat /\ top(m)
    BY <2>2
  <2>4. m # 0 => \E d \in Queuers : roster[d].position = m
    <3> SUFFICES ASSUME m # 0 PROVE \E d \in Queuers : roster[d].position = m
      OBVIOUS
    <3>1. m - 1 \in Nat /\ ~(m <= m - 1)
      BY <2>3
    <3>2. ~top(m - 1)
      BY <2>2, <3>1
    <3>3. PICK d \in Queuers : ~(roster[d].position <= m - 1)
      BY <3>2
    <3> QED
      BY <1>1, <2>3, <3>1, <3>3
  <2> QED
    BY <2>3, <2>4
<1>3. last \in places
  BY <1>2
<1>4. BehindTheLast = 1 + last
  BY Zenon DEF BehindTheLast
<1> HIDE DEF last
<1> QED
  BY <1>1, <1>3, <1>4, FarEnough

LEMMA RowsCount ==
    ASSUME RosterTyped, NEW c \in Clerks, ReadsMax(c)
    PROVE  RosterTyped'
<1> DEFINE old == clerk[c]
           row == [old.row EXCEPT !.position = BehindTheLast]
           task == [old EXCEPT !.row = row, !.at = "save"]
<1>1. old \in Task /\ c \in Counting
  BY DEF ReadsMax, RosterTyped, Counting, Idling
<1>2. row \in PlainRow /\ row.position = BehindTheLast
  BY <1>1, TaskFields, LastIsAPlace DEF PlainRow
<1>3. clerk' = [clerk EXCEPT ![c] = task]
  BY <1>1 DEF ReadsMax, Task, RosterTyped
<1> HIDE DEF row
<1>4. task \in Task /\ task.row = row /\ task.at = "save"
  BY <1>1, <1>2 DEF Task
<1> HIDE DEF task
<1>5. /\ IsFiniteSet(Counting') /\ Cardinality(Counting') \in Nat
      /\ Cardinality(Counting') = Cardinality(Counting) - 1
  BY <1>1, <1>3, <1>4, NoMoreCount
<1>6. /\ ops' = ops /\ roster' = roster /\ disturbed' = disturbed
      /\ overtaken' = overtaken
  BY DEF ReadsMax
<1>7. Furthest' = Furthest + 1
  BY <1>5, <1>6, FarEnough DEF Furthest
<1>8. /\ Furthest' \in Nat /\ Furthest <= Furthest' /\ Furthest \in Nat
      /\ Cardinality(Counting') <= ops' /\ ops' \in 0..MaxOps
  BY <1>5, <1>6, <1>7, FarEnough DEF RosterTyped
<1>9. \A d \in Queuers : roster'[d].position <= Furthest'
  BY <1>6, <1>7, FarEnough DEF RosterTyped, PlainRow
<1>10. task.row.position <= Furthest'
  BY <1>2, <1>4, <1>7, LastIsAPlace
<1>11. roster' \in [Queuers -> PlainRow] /\ disturbed' \in BOOLEAN
       /\ overtaken' \subseteq Queuers
  BY <1>6 DEF RosterTyped
<1> QED
  BY <1>3, <1>4, <1>5, <1>8, <1>9, <1>10, <1>11, RowsMove

LEMMA RowsSaved ==
    ASSUME RosterTyped, NEW c \in Clerks, SavesRow(c)
    PROVE  RosterTyped'
<1> DEFINE old == clerk[c]
           row == Edited(old.op, old.row)
           task == IF old.op = "join" THEN [old EXCEPT !.at = "arrive"]
                   ELSE IF old.op \in {"skip", "reinstate"} THEN NoClerk
                   ELSE [old EXCEPT !.at = "queue"]
           table == [roster EXCEPT ![old.driver] = row]
<1>1. old \in Task /\ old.row.position <= Furthest
  BY DEF SavesRow, RosterTyped, Idling
<1>2. roster' = table /\ clerk' = [clerk EXCEPT ![c] = task]
  BY DEF SavesRow
<1>3. old.row \in PlainRow /\ old.driver \in Queuers
  BY <1>1, TaskFields
<1>4. row \in PlainRow /\ (row.position = 0 \/ row.position = old.row.position)
  BY <1>3 DEF Edited, PlainRow
<1>5. row.position <= Furthest
  BY <1>1, <1>4, FarEnough
<1> HIDE DEF row
<1>6. table \in [Queuers -> PlainRow]
  BY <1>4 DEF RosterTyped
<1>7. \A d \in Queuers : table[d].position <= Furthest
  BY <1>3, <1>5 DEF RosterTyped
<1>8. /\ task \in Task \cup {NoClerk}
      /\ task # NoClerk => task.at # "max" /\ task.row.position <= Furthest
  BY <1>1, TaskGoesOn
<1> HIDE DEF task, table
<1>9. ops' = ops /\ disturbed' \in BOOLEAN /\ overtaken' \subseteq Queuers
  BY DEF SavesRow, RosterTyped
<1> QED
  BY <1>2, <1>6, <1>7, <1>8, <1>9, RowsGoOn

LEMMA RowsQueued ==
    ASSUME RosterTyped, NEW c \in Clerks, ReadsQueue(c)
    PROVE  RosterTyped'
<1>1. clerk[c] \in Task /\ clerk[c].row.position <= Furthest
  BY DEF ReadsQueue, RosterTyped, Idling
<1>2. PICK order \in QueueOrders :
         clerk' = [clerk EXCEPT ![c].order = order, ![c].at = "reorder"]
  BY DEF ReadsQueue
<1>3. order \in Orders
  BY <1>2 DEF QueueOrders, Queued, Orders
<1> DEFINE task == [clerk[c] EXCEPT !.order = order, !.at = "reorder"]
<1>4. clerk' = [clerk EXCEPT ![c] = task]
  BY <1>1, <1>2 DEF Task, RosterTyped
<1>5. task \in Task /\ task.at = "reorder" /\ task.row = clerk[c].row
  BY <1>1, <1>3 DEF Task
<1> HIDE DEF task
<1>6. /\ ops' = ops /\ disturbed' \in BOOLEAN /\ overtaken' \subseteq Queuers
      /\ roster' = roster
  BY DEF ReadsQueue, RosterTyped
<1>7. roster' \in [Queuers -> PlainRow] /\ \A d \in Queuers : roster'[d].position <= Furthest
  BY <1>6 DEF RosterTyped
<1> QED
  BY <1>1, <1>4, <1>5, <1>6, <1>7, RowsGoOn

\* The list that is numbered is of drivers, each once: no longer than all.
LEMMA RowsNumbered ==
    ASSUME RosterTyped, NEW c \in Clerks, reorderQueue(c)
    PROVE  RosterTyped'
<1> DEFINE old == clerk[c]
           s == old.order
           place(d) == IF d \in ToSet(s) THEN CHOOSE i \in DOMAIN s : s[i] = d ELSE 0
           table == [d \in Queuers |-> [roster[d] EXCEPT !.position = place(d)]]
           task == IF old.op \in {"leave", "assign"}
                   THEN [old EXCEPT !.at = "present"] ELSE NoClerk
<1>1. old \in Task /\ old.row.position <= Furthest
  BY DEF reorderQueue, RosterTyped, Idling
<1>2. roster' = table /\ clerk' = [clerk EXCEPT ![c] = task]
  BY DEF reorderQueue
<1>3. PICK D \in SUBSET Queuers : s \in SetToSeqs(D)
  BY <1>1, TaskFields DEF Orders
<1>4. /\ IsFiniteSet(D) /\ Cardinality(D) \in Nat
      /\ Cardinality(D) <= Cardinality(Queuers)
  BY RosterAssumption, FS_Subset, FS_CardinalityType
<1>5. DOMAIN s = 1..Cardinality(D)
  BY <1>3, <1>4, OrderSays
<1> HIDE DEF s
<1>6. \A d \in Queuers : place(d) \in Nat /\ place(d) <= Cardinality(Queuers)
  <2> SUFFICES ASSUME NEW d \in Queuers
               PROVE  place(d) \in Nat /\ place(d) <= Cardinality(Queuers)
    OBVIOUS
  <2>1. CASE d \in ToSet(s)
    <3>1. \E i \in DOMAIN s : s[i] = d
      BY <2>1 DEF ToSet
    <3>2. place(d) \in DOMAIN s
      BY <2>1, <3>1
    <3> HIDE DEF place
    <3> QED
      BY <1>4, <1>5, <3>2, FarEnough
  <2>2. CASE d \notin ToSet(s)
    <3>1. place(d) = 0
      BY <2>2
    <3> HIDE DEF place
    <3> QED
      BY <3>1, FarEnough
  <2> QED
    BY <2>1, <2>2
<1> HIDE DEF place
<1>7. \A d \in Queuers : /\ table[d] \in PlainRow /\ table[d].position = place(d)
  BY <1>6 DEF PlainRow, RosterTyped
<1>8. table \in [Queuers -> PlainRow]
  BY <1>7
<1>9. \A d \in Queuers : table[d].position <= Furthest
  BY <1>6, <1>7, FarEnough
<1>10. /\ task \in Task \cup {NoClerk}
       /\ task # NoClerk => task.at # "max" /\ task.row.position <= Furthest
  BY <1>1, TaskGoesOn
<1> HIDE DEF task, table
<1>11. ops' = ops /\ disturbed' \in BOOLEAN /\ overtaken' \subseteq Queuers
  BY DEF reorderQueue, RosterTyped
<1> QED
  BY <1>2, <1>8, <1>9, <1>10, <1>11, RowsGoOn

LEMMA RowsArrive ==
    ASSUME RosterTyped, NEW c \in Clerks, Arrives(c) \/ Presents(c) \/ ClerkFails(c)
    PROVE  RosterTyped'
<1>1. clerk[c] \in Task /\ clerk[c].row.position <= Furthest
  BY DEF Arrives, Presents, ClerkFails, RosterTyped, Idling
<1>2. clerk[c].driver \in Queuers
  BY <1>1, TaskFields
<1>3. /\ ops' = ops /\ disturbed' \in BOOLEAN /\ roster' = roster
      /\ overtaken' \subseteq Queuers
  BY <1>2 DEF Arrives, Presents, ClerkFails, SpeaksOf, RosterTyped
<1>4. roster' \in [Queuers -> PlainRow] /\ \A d \in Queuers : roster'[d].position <= Furthest
  BY <1>3 DEF RosterTyped
<1>5. CASE Arrives(c)
  <2> DEFINE task == [clerk[c] EXCEPT !.at = "present"]
  <2>1. clerk' = [clerk EXCEPT ![c] = task]
    BY <1>5 DEF Arrives
  <2>2. task \in Task /\ task.at = "present" /\ task.row = clerk[c].row
    BY <1>1, TaskGoesOn
  <2> HIDE DEF task
  <2> QED
    BY <1>1, <1>3, <1>4, <2>1, <2>2, RowsGoOn
<1>6. CASE Presents(c) \/ ClerkFails(c)
  <2>1. clerk' = [clerk EXCEPT ![c] = NoClerk]
    BY <1>6 DEF Presents, ClerkFails
  <2> QED
    BY <1>3, <1>4, <2>1, RowsGoOn
<1> QED
  BY <1>5, <1>6

\* Words about a driver touch no row of the queue.
LEMMA RowsSpokenOf ==
    ASSUME RosterTyped, roster' = roster, clerk' = clerk, disturbed' = disturbed,
           ops' = ops \/ (ops < MaxOps /\ ops' = ops + 1), overtaken' \subseteq Queuers
    PROVE  RosterTyped'
<1>1. Counting' = Counting
  BY DEF Counting, Idling
<1>2. Furthest' = Cardinality(Queuers) + ops' - Cardinality(Counting)
  BY <1>1 DEF Furthest
<1>3. /\ Furthest' \in Nat /\ Furthest <= Furthest' /\ Furthest \in Nat
      /\ ops' \in 0..MaxOps /\ Cardinality(Counting) <= ops'
  BY <1>2, FarEnough DEF Furthest, RosterTyped
<1>4. \A d \in Queuers : roster[d].position <= Furthest'
  <2> SUFFICES ASSUME NEW d \in Queuers PROVE roster[d].position <= Furthest'
    OBVIOUS
  <2>1. roster[d].position \in Nat /\ roster[d].position <= Furthest
    BY DEF PlainRow, RosterTyped
  <2> QED
    BY <1>3, <2>1
<1>5. \A c \in Clerks : clerk[c] # NoClerk => clerk[c].row.position <= Furthest'
  <2> SUFFICES ASSUME NEW c \in Clerks, clerk[c] # NoClerk
               PROVE  clerk[c].row.position <= Furthest'
    OBVIOUS
  <2>1. clerk[c] \in Task /\ clerk[c].row.position <= Furthest
    BY DEF RosterTyped, Idling
  <2>2. clerk[c].row.position \in Nat
    BY <2>1, TaskFields DEF PlainRow
  <2> QED
    BY <1>3, <2>1, <2>2
<1>6. IsFiniteSet(Counting')
  BY <1>1 DEF RosterTyped
<1> QED
  BY <1>1, <1>3, <1>4, <1>5, <1>6 DEF RosterTyped, Idling

LEMMA RosterTypedStep == RosterTyped /\ [RosterNext]_rosterVars => RosterTyped'
<1> SUFFICES ASSUME RosterTyped, [RosterNext]_rosterVars PROVE RosterTyped'
  OBVIOUS
<1>1. ASSUME NEW c \in Clerks,
             \/ ReadsMax(c) \/ SavesRow(c) \/ ReadsQueue(c) \/ reorderQueue(c)
             \/ Arrives(c) \/ Presents(c) \/ ClerkFails(c)
             \/ \E d \in Queuers : AsksOrder(c, d)
             \/ \E d \in Queuers, op \in RowOp : TakesUp(c, op, d)
      PROVE  RosterTyped'
  BY <1>1, RowsCount, RowsSaved, RowsQueued, RowsNumbered, RowsArrive,
     RowsOrdered, RowsTakenUp
<1>2. ASSUME NEW d \in Queuers,
             \/ DeclineReturns(d) \/ BeginsEvaluation(d)
             \/ \E inside \in BOOLEAN : Evaluates(d, inside)
             \/ \E to \in PresenceState : DispatcherStates(d, to)
      PROVE  RosterTyped'
  <2>1. /\ roster' = roster /\ clerk' = clerk /\ disturbed' = disturbed
        /\ ops' = ops \/ (ops < MaxOps /\ ops' = ops + 1)
    BY <1>2 DEF DeclineReturns, BeginsEvaluation, Evaluates, DispatcherStates
  <2>2. overtaken' \subseteq overtaken \cup {d} /\ overtaken \subseteq Queuers
    BY <1>2 DEF DeclineReturns, BeginsEvaluation, Evaluates, DispatcherStates, SpeaksOf,
                RosterTyped
  <2>3. overtaken' \subseteq Queuers
    BY <2>2
  <2> QED
    BY <2>1, <2>3, RowsSpokenOf
<1>3. CASE UNCHANGED rosterVars
  <2>1. overtaken' \subseteq Queuers
    BY <1>3 DEF rosterVars, RosterTyped
  <2> QED
    BY <1>3, <2>1, RowsSpokenOf DEF rosterVars
<1> QED
  BY <1>1, <1>2, <1>3 DEF RosterNext

LEMMA RosterTypedInit == RosterInit => RosterTyped
<1> SUFFICES ASSUME RosterInit PROVE RosterTyped
  OBVIOUS
<1>1. PICK D \in SUBSET Queuers : \E order \in SetToSeqs(D) :
         roster = [d \in Queuers |-> [status |-> "ACTIVE",
               position |-> IF d \in D THEN CHOOSE i \in DOMAIN order : order[i] = d
                                       ELSE 0]]
  BY DEF RosterInit
<1>2. PICK order \in SetToSeqs(D) :
         roster = [d \in Queuers |-> [status |-> "ACTIVE",
               position |-> IF d \in D THEN CHOOSE i \in DOMAIN order : order[i] = d
                                       ELSE 0]]
  BY <1>1
<1>3. /\ IsFiniteSet(D) /\ Cardinality(D) \in Nat /\ Cardinality(Queuers) \in Nat
      /\ Cardinality(D) <= Cardinality(Queuers)
  BY RosterAssumption, FS_Subset, FS_CardinalityType
<1>4. DOMAIN order = 1..Cardinality(D) /\ \A d \in D : \E i \in DOMAIN order : order[i] = d
  BY <1>2, <1>3, OrderSays
<1> DEFINE place(d) == IF d \in D THEN CHOOSE i \in DOMAIN order : order[i] = d ELSE 0
<1>5. \A d \in Queuers : place(d) \in Nat /\ place(d) <= Cardinality(Queuers)
  <2> SUFFICES ASSUME NEW d \in Queuers
               PROVE  place(d) \in Nat /\ place(d) <= Cardinality(Queuers)
    OBVIOUS
  <2>1. place(d) = 0 \/ place(d) \in DOMAIN order
    BY <1>4
  <2> HIDE DEF place
  <2> QED
    BY <1>3, <1>4, <2>1
<1>6. roster = [d \in Queuers |-> [status |-> "ACTIVE", position |-> place(d)]]
  BY <1>2
<1> HIDE DEF place
<1>7. roster \in [Queuers -> PlainRow]
  BY <1>5, <1>6 DEF PlainRow
<1>8. /\ clerk = [c \in Clerks |-> NoClerk] /\ ops = 0 /\ disturbed = FALSE
      /\ overtaken = {}
  BY DEF RosterInit
<1>9. Counting = {}
  BY <1>8 DEF Counting, Idling
<1>10. IsFiniteSet(Counting) /\ Cardinality(Counting) = 0
  BY <1>9, FS_EmptySet
<1>11. Furthest = Cardinality(Queuers)
  BY <1>3, <1>8, <1>10 DEF Furthest
<1>12. \A d \in Queuers : roster[d].position <= Furthest
  BY <1>5, <1>6, <1>11
<1>13. ops \in 0..MaxOps /\ Cardinality(Counting) <= ops
  BY <1>8, <1>10, RosterAssumption
<1>14. clerk \in [Clerks -> Task \cup {NoClerk}] /\ \A c \in Clerks : Idling(c)
  BY <1>8 DEF Idling
<1> QED
  BY <1>7, <1>8, <1>10, <1>12, <1>13, <1>14 DEF RosterTyped

\* A membership's place, a request's copy of it and the order it holds keep
\* their types, and no place is further than the drivers and the requests can
\* push it, however the requests overlap or fail (park_roster_service.ts).
THEOREM RosterTypes == RosterSpec => []RosterTypeOK
<1>1. RosterTyped /\ WordInv => RosterTypeOK
  <2> SUFFICES ASSUME RosterTyped, WordInv PROVE RosterTypeOK
    OBVIOUS
  <2> DEFINE most == Cardinality(Queuers) + MaxOps
  <2>1. most \in Nat /\ Furthest \in Nat /\ Furthest <= most
    BY FarEnough
  <2> HIDE DEF most
  <2>2. \A row \in PlainRow : row.position <= Furthest => row.position \in 0..most
    BY <2>1 DEF PlainRow
  <2>3. \A row \in PlainRow : row.position <= Furthest => row \in Membership
    BY <2>2 DEF PlainRow, Membership, most
  <2>4. roster \in [Queuers -> Membership]
    BY <2>3 DEF RosterTyped
  <2>5. \A c \in Clerks : clerk[c] \in AtCounter \cup {NoClerk}
    <3> SUFFICES ASSUME NEW c \in Clerks, clerk[c] # NoClerk
                 PROVE  clerk[c] \in AtCounter
      OBVIOUS
    <3>1. clerk[c] \in Task /\ clerk[c].row.position <= Furthest
      BY DEF RosterTyped, Idling
    <3>2. clerk[c].row \in Membership
      BY <2>3, <3>1, TaskFields
    <3> QED
      BY <3>1, <3>2 DEF Task, AtCounter, Orders
  <2> QED
    BY <2>4, <2>5 DEF RosterTyped, WordInv, RosterTypeOK
<1>2. RosterInit => RosterTyped /\ WordInv
  BY RosterInvInit, RosterTypedInit DEF RosterInv
<1>3. RosterTyped /\ WordInv /\ [RosterNext]_rosterVars => (RosterTyped /\ WordInv)'
  BY RosterTypedStep, WordKeeps
<1> QED
  BY <1>1, <1>2, <1>3, PTL DEF RosterSpec

-------------------------------------------------------------------------------
(* The driver's wallet *)

-----------------------------------------------------------------------------
(* Sums over finite sets                                                    *)

\* g adds up w over the subsets of S, one member after another.
First(s) == CHOOSE x \in s : TRUE
Adds(w, S, g) ==
    g = [s \in SUBSET S |-> IF s = {} THEN 0 ELSE w[First(s)] + g[s \ {First(s)}]]

LEMMA FirstIn == \A s : s # {} => First(s) \in s
BY DEF First

Recurs(w, S, g) ==
    /\ g[{}] = 0
    /\ \A s \in SUBSET S : s # {} => g[s] = w[First(s)] + g[s \ {First(s)}]
AnyFirst(w, S, g) == \A s \in SUBSET S : \A x \in s : g[s] = w[x] + g[s \ {x}]

LEMMA AddsSays == ASSUME NEW w, NEW S, NEW g, Adds(w, S, g) PROVE Recurs(w, S, g)
<1> DEFINE sum(s) == IF s = {} THEN 0 ELSE w[First(s)] + g[s \ {First(s)}]
<1>1. g = [s \in SUBSET S |-> sum(s)]
  BY DEF Adds
<1>2. \A s \in SUBSET S : g[s] = sum(s)
  <2> HIDE DEF sum
  <2> QED
    BY <1>1
<1> QED
  BY <1>2 DEF Recurs

LEMMA SumIs ==
    ASSUME NEW w, NEW S
    PROVE  SumFunctionOnSet(w, S) = (CHOOSE g : Adds(w, S, g))[S]
BY DEF SumFunctionOnSet, FoldFunctionOnSet, MapThenFoldSet, Adds, First

\* A smaller set is left when a member is taken out.
LEMMA Smaller ==
    ASSUME NEW s, IsFiniteSet(s), NEW x \in s
    PROVE  /\ Cardinality(s) \in Nat /\ Cardinality(s) # 0
           /\ Cardinality(s \ {x}) = Cardinality(s) - 1 /\ IsFiniteSet(s \ {x})
<1>1. Cardinality(s) \in Nat /\ (Cardinality(s) = 0 <=> s = {})
  BY FS_CardinalityType, FS_EmptySet
<1> QED
  BY <1>1, FS_RemoveElement

\* Something true of every finite subset once it is true of the smaller ones: the
\* subsets for which it fails have no smallest one.
LEMMA NoneFails ==
    ASSUME NEW S, IsFiniteSet(S), NEW Bad \in SUBSET (SUBSET S),
           \A s \in Bad : \E t \in Bad : Cardinality(t) < Cardinality(s)
    PROVE  Bad = {}
<1> SUFFICES ASSUME Bad # {} PROVE FALSE
  OBVIOUS
<1> DEFINE sizes == {Cardinality(s) : s \in Bad}
<1>1. \A s \in Bad : Cardinality(s) \in Nat
  BY FS_Subset, FS_CardinalityType
<1>2. sizes \in SUBSET Nat /\ sizes # {}
  BY <1>1
<1> HIDE DEF sizes
<1>3. PICK n \in sizes : \A m \in sizes : n <= m
  BY <1>2, LeastNumber
<1>4. PICK s \in Bad : Cardinality(s) = n
  BY <1>3 DEF sizes
<1>5. PICK t \in Bad : Cardinality(t) < n
  BY <1>4
<1>6. Cardinality(t) \in sizes
  BY DEF sizes
<1> QED
  BY <1>1, <1>3, <1>4, <1>5, <1>6

\* Two ways to add up the same numbers agree.
LEMMA AddsAgree ==
    ASSUME NEW S, IsFiniteSet(S), NEW T \in SUBSET S, NEW v, NEW w, NEW g, NEW h,
           Adds(w, S, g), Adds(v, T, h), \A x \in T : v[x] = w[x]
    PROVE  \A s \in SUBSET T : g[s] = h[s]
<1>0. Recurs(w, S, g) /\ Recurs(v, T, h)
  BY AddsSays
<1> DEFINE Bad == {s \in SUBSET T : g[s] # h[s]}
<1>1. ASSUME NEW s \in Bad PROVE \E t \in Bad : Cardinality(t) < Cardinality(s)
  <2>1. s # {}
    BY <1>0 DEF Recurs
  <2> DEFINE x == First(s)
             t == s \ {x}
  <2>2. x \in s
    BY <2>1, FirstIn
  <2>3. g[s] = w[x] + g[t] /\ h[s] = v[x] + h[t] /\ v[x] = w[x]
    BY <1>0, <2>1, <2>2 DEF Recurs
  <2>4. g[t] # h[t] /\ t \in SUBSET T
    BY <2>3
  <2>5. Cardinality(t) < Cardinality(s)
    BY <2>2, FS_Subset, Smaller
  <2> QED
    BY <2>4, <2>5
<1>2. IsFiniteSet(T)
  BY FS_Subset
<1>3. Bad = {}
  <2> HIDE DEF Bad
  <2>1. Bad \in SUBSET (SUBSET T)
    BY DEF Bad
  <2> QED
    BY <1>1, <1>2, <2>1, NoneFails
<1> QED
  BY <1>3

\* There is a way to add up.
LEMMA AddsExists ==
    ASSUME NEW S, IsFiniteSet(S), NEW w, \A x \in S : w[x] \in Int
    PROVE  \E g \in [SUBSET S -> Int] : Adds(w, S, g)
<1> DEFINE sub(n) == {s \in SUBSET S : Cardinality(s) <= n}
           says(g, s) == g[s] = IF s = {} THEN 0 ELSE w[First(s)] + g[s \ {First(s)}]
           good(n) == \E g \in [sub(n) -> Int] : \A s \in sub(n) : says(g, s)
           bad == {n \in Nat : ~good(n)}
<1>0. \A s \in SUBSET S : IsFiniteSet(s) /\ Cardinality(s) \in Nat
                          /\ (Cardinality(s) = 0 <=> s = {})
  BY FS_Subset, FS_CardinalityType, FS_EmptySet
<1>1. good(0)
  <2> DEFINE g == [s \in sub(0) |-> 0]
  <2>1. \A s \in sub(0) : s = {}
    BY <1>0
  <2>2. g \in [sub(0) -> Int]
    OBVIOUS
  <2>3. \A s \in sub(0) : says(g, s)
    BY <2>1
  <2> QED
    BY <2>2, <2>3
<1>2. ASSUME NEW n \in Nat, good(n) PROVE good(n + 1)
  <2>1. PICK g \in [sub(n) -> Int] : \A s \in sub(n) : says(g, s)
    BY <1>2
  <2> DEFINE h == [s \in sub(n + 1) |-> IF s = {} THEN 0
                                        ELSE w[First(s)] + g[s \ {First(s)}]]
  <2>2. ASSUME NEW s \in sub(n + 1), s # {}
        PROVE  /\ First(s) \in s /\ s \ {First(s)} \in sub(n)
               /\ w[First(s)] + g[s \ {First(s)}] \in Int
    <3>1. First(s) \in s
      BY <2>2, FirstIn
    <3>2. Cardinality(s \ {First(s)}) = Cardinality(s) - 1
      BY <1>0, <3>1, Smaller
    <3>3. s \ {First(s)} \in sub(n)
      BY <1>0, <3>2
    <3> QED
      BY <2>1, <3>1, <3>3
  <2>3. h \in [sub(n + 1) -> Int]
    BY <2>2
  <2>4. \A s \in sub(n) : h[s] = g[s]
    <3> SUFFICES ASSUME NEW s \in sub(n) PROVE h[s] = g[s]
      OBVIOUS
    <3>1. s \in sub(n + 1)
      BY <1>0
    <3> QED
      BY <2>1, <3>1
  <2>5. ASSUME NEW s \in sub(n + 1) PROVE says(h, s)
    <3>1. CASE s = {}
      BY <3>1
    <3>2. CASE s # {}
      <4>1. h[s \ {First(s)}] = g[s \ {First(s)}]
        BY <2>2, <2>4, <3>2
      <4> QED
        BY <3>2, <4>1
    <3> QED
      BY <3>1, <3>2
  <2> HIDE DEF h
  <2> QED
    BY <2>3, <2>5
<1>3. \A n \in Nat : good(n)
  <2> HIDE DEF good
  <2> SUFFICES ASSUME bad # {} PROVE FALSE
    OBVIOUS
  <2>1. PICK n \in bad : \A m \in bad : n <= m
    BY LeastNumber
  <2>2. n # 0 /\ n - 1 \in Nat
    BY <1>1, <2>1
  <2>3. good(n - 1)
    BY <2>1, <2>2
  <2>4. good((n - 1) + 1)
    BY <1>2, <2>2, <2>3
  <2> QED
    BY <2>1, <2>4
<1>4. PICK g \in [sub(Cardinality(S)) -> Int] : \A s \in sub(Cardinality(S)) : says(g, s)
  <2>1. Cardinality(S) \in Nat
    BY FS_CardinalityType
  <2> QED
    BY <1>3, <2>1
<1>5. sub(Cardinality(S)) = SUBSET S
  BY FS_Subset
<1>6. g \in [SUBSET S -> Int] /\ \A s \in SUBSET S : says(g, s)
  BY <1>4, <1>5
<1>7. Adds(w, S, g)
  BY <1>6 DEF Adds
<1> QED
  BY <1>6, <1>7

\* Whichever member is added first.
LEMMA AddsAnyFirst ==
    ASSUME NEW S, IsFiniteSet(S), NEW w, \A x \in S : w[x] \in Int,
           NEW g \in [SUBSET S -> Int], Adds(w, S, g)
    PROVE  AnyFirst(w, S, g)
<1>0. Recurs(w, S, g)
  BY AddsSays
<1> DEFINE Bad == {s \in SUBSET S : \E x \in s : g[s] # w[x] + g[s \ {x}]}
<1>1. ASSUME NEW s \in Bad PROVE \E t \in Bad : Cardinality(t) < Cardinality(s)
  <2>1. PICK x \in s : g[s] # w[x] + g[s \ {x}]
    OBVIOUS
  <2> DEFINE c == First(s)
  <2>2. c \in s
    BY <2>1, FirstIn
  <2>3. g[s] = w[c] + g[s \ {c}]
    BY <1>0, <2>2 DEF Recurs
  <2>4. x # c
    BY <2>1, <2>3
  <2>5. /\ IsFiniteSet(s) /\ Cardinality(s \ {x}) < Cardinality(s)
        /\ Cardinality(s \ {c}) < Cardinality(s)
    BY <2>2, FS_Subset, Smaller
  <2> HIDE DEF c
  <2> DEFINE a == s \ {c}
             b == s \ {x}
  <2>6. a \in SUBSET S /\ b \in SUBSET S /\ x \in a /\ c \in b
        /\ a \ {x} \in SUBSET S /\ a \ {x} = b \ {c}
    BY <2>2, <2>4
  <2>7. g[a] # w[x] + g[a \ {x}] \/ g[b] # w[c] + g[b \ {c}]
    <3> SUFFICES ASSUME g[a] = w[x] + g[a \ {x}], g[b] = w[c] + g[b \ {c}] PROVE FALSE
      OBVIOUS
    <3>1. w[x] \in Int /\ w[c] \in Int /\ g[a \ {x}] \in Int /\ g[b \ {c}] = g[a \ {x}]
      BY <2>2, <2>6
    <3> HIDE DEF a, b
    <3>2. g[s] = w[c] + g[a] /\ g[s] # w[x] + g[b]
      BY <2>1, <2>3 DEF a, b
    <3> QED
      BY <3>1, <3>2
  <2>8. a \in Bad \/ b \in Bad
    BY <2>6, <2>7
  <2> QED
    BY <2>5, <2>8
<1>2. Bad = {}
  <2> HIDE DEF Bad
  <2>1. Bad \in SUBSET (SUBSET S)
    BY DEF Bad
  <2> QED
    BY <1>1, <2>1, NoneFails
<1> QED
  BY <1>2 DEF AnyFirst

-----------------------------------------------------------------------------

LEMMA SumAdds ==
    ASSUME NEW S, IsFiniteSet(S), NEW w, \A x \in S : w[x] \in Int
    PROVE  \E g \in [SUBSET S -> Int] : Adds(w, S, g) /\ g[S] = SumFunctionOnSet(w, S)
<1>1. PICK g \in [SUBSET S -> Int] : Adds(w, S, g)
  BY AddsExists
<1> DEFINE h == CHOOSE k : Adds(w, S, k)
<1>2. Adds(w, S, h)
  BY <1>1
<1>3. SumFunctionOnSet(w, S) = h[S]
  BY SumIs
<1> HIDE DEF h
<1>4. g[S] = h[S]
  BY <1>1, <1>2, AddsAgree
<1> QED
  BY <1>1, <1>3, <1>4

\* A sum is a number, nothing for no member, the same for the same numbers.
LEMMA SumType ==
    ASSUME NEW S, IsFiniteSet(S), NEW w, \A x \in S : w[x] \in Int
    PROVE  SumFunctionOnSet(w, S) \in Int
<1>1. PICK g \in [SUBSET S -> Int] : Adds(w, S, g) /\ g[S] = SumFunctionOnSet(w, S)
  BY SumAdds
<1>2. g[S] \in Int
  OBVIOUS
<1> QED
  BY <1>1, <1>2

LEMMA SumNothing == ASSUME NEW w PROVE SumFunctionOnSet(w, {}) = 0
<1>1. PICK g \in [SUBSET {} -> Int] : Adds(w, {}, g) /\ g[{}] = SumFunctionOnSet(w, {})
  BY SumAdds, FS_EmptySet
<1>2. Recurs(w, {}, g)
  BY <1>1, AddsSays
<1> QED
  BY <1>1, <1>2 DEF Recurs

LEMMA SumSame ==
    ASSUME NEW S, IsFiniteSet(S), NEW v, NEW w, \A x \in S : w[x] \in Int /\ v[x] = w[x]
    PROVE  SumFunctionOnSet(v, S) = SumFunctionOnSet(w, S)
<1>1. PICK g \in [SUBSET S -> Int] : Adds(w, S, g) /\ g[S] = SumFunctionOnSet(w, S)
  BY SumAdds
<1>2. PICK h \in [SUBSET S -> Int] : Adds(v, S, h) /\ h[S] = SumFunctionOnSet(v, S)
  BY SumAdds
<1>3. g[S] = h[S]
  BY <1>1, <1>2, AddsAgree
<1> QED
  BY <1>1, <1>2, <1>3

\* Taking a member out.
LEMMA SumWithout ==
    ASSUME NEW S, IsFiniteSet(S), NEW w, \A x \in S : w[x] \in Int, NEW x \in S
    PROVE  SumFunctionOnSet(w, S) = w[x] + SumFunctionOnSet(w, S \ {x})
<1>1. PICK g \in [SUBSET S -> Int] : Adds(w, S, g) /\ g[S] = SumFunctionOnSet(w, S)
  BY SumAdds
<1>2. AnyFirst(w, S, g)
  BY <1>1, AddsAnyFirst
<1> DEFINE T == S \ {x}
<1>6. IsFiniteSet(T) /\ T \in SUBSET S
  BY FS_Subset
<1>3. PICK h \in [SUBSET T -> Int] : Adds(w, T, h) /\ h[T] = SumFunctionOnSet(w, T)
  BY <1>6, SumAdds
<1>4. g[T] = h[T]
  BY <1>1, <1>6, <1>3, AddsAgree
<1>5. g[S] = w[x] + g[T]
  BY <1>2 DEF AnyFirst
<1> QED
  BY <1>1, <1>3, <1>4, <1>5

LEMMA SumZero ==
    ASSUME NEW S, IsFiniteSet(S), NEW w, \A x \in S : w[x] = 0
    PROVE  SumFunctionOnSet(w, S) = 0
<1> DEFINE Bad == {s \in SUBSET S : SumFunctionOnSet(w, s) # 0}
<1>0. \A s \in SUBSET S : IsFiniteSet(s)
  BY FS_Subset
<1>1. ASSUME NEW s \in Bad PROVE \E t \in Bad : Cardinality(t) < Cardinality(s)
  <2>1. s # {}
    BY SumNothing
  <2>2. PICK x \in s : TRUE
    BY <2>1
  <2>3. SumFunctionOnSet(w, s) = w[x] + SumFunctionOnSet(w, s \ {x})
    BY <1>0, SumWithout
  <2>4. SumFunctionOnSet(w, s \ {x}) # 0
    BY <2>3
  <2>5. Cardinality(s \ {x}) < Cardinality(s)
    BY <1>0, Smaller
  <2> QED
    BY <2>4, <2>5
<1>2. Bad = {}
  <2> HIDE DEF Bad
  <2>1. Bad \in SUBSET (SUBSET S)
    BY DEF Bad
  <2> QED
    BY <1>1, <2>1, NoneFails
<1> QED
  BY <1>2

\* One number changes.
LEMMA SumChanges ==
    ASSUME NEW S, IsFiniteSet(S), NEW v, NEW w, NEW x \in S,
           \A y \in S : w[y] \in Int, v[x] \in Int, \A y \in S : y # x => v[y] = w[y]
    PROVE  SumFunctionOnSet(v, S) = SumFunctionOnSet(w, S) - w[x] + v[x]
<1> DEFINE T == S \ {x}
<1>1. IsFiniteSet(T) /\ T \in SUBSET S
  BY FS_Subset
<1>2. SumFunctionOnSet(w, S) = w[x] + SumFunctionOnSet(w, T)
  BY SumWithout
<1>3. \A y \in S : v[y] \in Int
  OBVIOUS
<1>4. SumFunctionOnSet(v, S) = v[x] + SumFunctionOnSet(v, T)
  BY <1>3, SumWithout
<1>5. SumFunctionOnSet(v, T) = SumFunctionOnSet(w, T)
  BY <1>1, SumSame
<1>6. SumFunctionOnSet(w, T) \in Int
  BY <1>1, SumType
<1> QED
  BY <1>2, <1>4, <1>5, <1>6

\* A member comes.
LEMMA SumGrows ==
    ASSUME NEW S, IsFiniteSet(S), NEW x, x \notin S, NEW v, NEW w, v[x] \in Int,
           \A y \in S : w[y] \in Int /\ v[y] = w[y]
    PROVE  SumFunctionOnSet(v, S \cup {x}) = SumFunctionOnSet(w, S) + v[x]
<1> DEFINE T == S \cup {x}
<1>1. IsFiniteSet(T) /\ x \in T /\ T \ {x} = S /\ \A y \in T : v[y] \in Int
  BY FS_AddElement
<1>2. SumFunctionOnSet(v, T) = v[x] + SumFunctionOnSet(v, T \ {x})
  <2> HIDE DEF T
  <2> QED
    BY <1>1, SumWithout
<1>3. SumFunctionOnSet(v, S) = SumFunctionOnSet(w, S) /\ SumFunctionOnSet(w, S) \in Int
  BY SumSame, SumType
<1> HIDE DEF T
<1>5. SumFunctionOnSet(v, T) = v[x] + SumFunctionOnSet(v, S)
  BY Zenon, <1>1, <1>2
<1>4. SumFunctionOnSet(v, T) = SumFunctionOnSet(w, S) + v[x]
  BY <1>3, <1>5
<1> QED
  BY <1>4 DEF T

\* A sum of naturals is at least each of them.
LEMMA SumCovers ==
    ASSUME NEW S, IsFiniteSet(S), NEW w, \A x \in S : w[x] \in Nat
    PROVE  /\ SumFunctionOnSet(w, S) \in Nat
           /\ \A x \in S : w[x] <= SumFunctionOnSet(w, S)
<1> DEFINE Bad == {s \in SUBSET S : SumFunctionOnSet(w, s) \notin Nat}
<1>0. \A s \in SUBSET S : IsFiniteSet(s)
  BY FS_Subset
<1>1. ASSUME NEW s \in Bad PROVE \E t \in Bad : Cardinality(t) < Cardinality(s)
  <2>1. s # {}
    BY SumNothing
  <2>2. PICK x \in s : TRUE
    BY <2>1
  <2>3. SumFunctionOnSet(w, s) = w[x] + SumFunctionOnSet(w, s \ {x})
    BY <1>0, SumWithout
  <2>4. SumFunctionOnSet(w, s \ {x}) \notin Nat
    BY <2>3
  <2>5. Cardinality(s \ {x}) < Cardinality(s)
    BY <1>0, Smaller
  <2> QED
    BY <2>4, <2>5
<1>2. Bad = {}
  <2> HIDE DEF Bad
  <2>1. Bad \in SUBSET (SUBSET S)
    BY DEF Bad
  <2> QED
    BY <1>1, <2>1, NoneFails
<1>3. \A s \in SUBSET S : SumFunctionOnSet(w, s) \in Nat
  BY <1>2
<1>4. ASSUME NEW x \in S PROVE w[x] <= SumFunctionOnSet(w, S)
  <2>1. SumFunctionOnSet(w, S) = w[x] + SumFunctionOnSet(w, S \ {x})
    BY SumWithout
  <2>2. SumFunctionOnSet(w, S \ {x}) \in Nat
    BY <1>3
  <2> QED
    BY <2>1, <2>2
<1> QED
  BY <1>3, <1>4

-----------------------------------------------------------------------------
(* A driver's wallet                                                        *)

\* What an admin read of a payout it still says, unless two wrote at once.
ReadsInv ==
    ~raced => \A a \in Admins : settling[a].job # Anyone =>
        /\ settling[a].job \in Open
        /\ settling[a].to \in allowedTransitions[payout[settling[a].job].status]

\* What an admin read of a ride it still comes to, unless two undid it at once;
\* what was not posted or was undone comes to nothing.
VoidsInv ==
    /\ \A r \in BookRides : posted[r].at = "no" => posted[r].net = NoEffect
    /\ \A a \in Admins : voiding[a].ride \notin met \cup {Anyone} =>
          posted[voiding[a].ride] = [at |-> "yes", net |-> voiding[a].net]
    /\ VoidUndoes

BooksInv == BooksTypeOK /\ ReadsInv /\ VoidsInv /\ BooksStand

Wallet == [available : Int, debt : Int, pending : Nat]
Entry == [at : {"no", "yes", "voided"}, net : Effect]
Record == [status : {"none", "pending", "processing"} \cup Final, amount : Nat]
Judged == [job : Payouts \cup {Anyone}, to : {"none", "processing"} \cup Final]
Void == [ride : BookRides \cup {Anyone}, net : Effect]

\* The columns that are summed.
Amounts == [p \in Payouts |-> payout[p].amount]
Credits == [t \in Topups |-> TopupAmount * credited[t]]
Nets == [r \in BookRides |-> posted[r].net.available - posted[r].net.debt]

LEMMA SumsSay ==
    /\ PendingCovers <=> raced \/ wallet.pending = SumFunctionOnSet(Amounts, Open)
    /\ CameIn = SumFunctionOnSet(Credits, Topups)
    /\ Earned = SumFunctionOnSet(Nets, BookRides)
BY DEF PendingCovers, CameIn, Earned, Amounts, Credits, Nets

LEMMA ColumnTypes ==
    ASSUME BooksTypeOK
    PROVE  /\ \A p \in Payouts : Amounts[p] \in Nat
           /\ \A t \in Topups : Credits[t] \in Nat
           /\ \A r \in BookRides : Nets[r] \in Int
           /\ IsFiniteSet(Open) /\ Open \subseteq Payouts
           /\ IsFiniteSet(BookRides) /\ IsFiniteSet(Topups)
<1>1. \A p \in Payouts : Amounts[p] \in Nat
  BY DEF BooksTypeOK, Amounts
<1>2. \A t \in Topups : Credits[t] \in Nat
  <2>1. \A t \in Topups : credited[t] \in Nat
    BY DEF BooksTypeOK
  <2>2. TopupAmount \in Nat
    BY BooksAssumption
  <2>3. \A n \in Nat : TopupAmount * n \in Nat
    BY <2>2
  <2> QED
    BY <2>1, <2>3 DEF Credits
<1>3. \A r \in BookRides : Nets[r] \in Int
  BY DEF BooksTypeOK, Effect, Nets
<1>4. Open \subseteq Payouts
  BY DEF Open
<1>5. IsFiniteSet(Open) /\ IsFiniteSet(BookRides) /\ IsFiniteSet(Topups)
  BY <1>4, BooksAssumption, FS_Subset DEF BookRides
<1> QED
  BY <1>1, <1>2, <1>3, <1>4, <1>5

LEMMA BooksInvInit == BooksInit => BooksInv
<1> SUFFICES ASSUME BooksInit PROVE BooksInv
  OBVIOUS
<1>1. BooksTypeOK
  <2>1. NoEffect \in Effect
    BY DEF NoEffect, Effect
  <2>2. wallet \in [available : Int, debt : Int, pending : Nat]
    BY DEF BooksInit
  <2>7. sent \in Nat /\ raced \in BOOLEAN
    BY DEF BooksInit
  <2>3. posted \in [BookRides -> [at : {"no", "yes", "voided"}, net : Effect]]
    BY <2>1 DEF BooksInit
  <2>4. topup \in [Topups \cup PaxTopups -> {"PENDING", "crediting", "SUCCESS"}]
        /\ credited \in [Topups \cup PaxTopups -> Nat]
    BY DEF BooksInit
  <2>5. payout \in [Payouts -> [status : {"none", "pending", "processing"} \cup Final,
                                amount : Nat]]
    BY DEF BooksInit
  <2>6. settling \in [Admins -> [job : Payouts \cup {Anyone},
                                 to : {"none", "processing"} \cup Final]]
    BY DEF BooksInit
  <2>8. voiding \in [Admins -> [ride : BookRides \cup {Anyone}, net : Effect]]
        /\ met \subseteq BookRides
    BY <2>1 DEF BooksInit, NotVoiding
  <2> QED
    BY <2>2, <2>3, <2>4, <2>5, <2>6, <2>7, <2>8 DEF BooksTypeOK
<1>2. ReadsInv /\ VoidsInv
  BY DEF BooksInit, ReadsInv, VoidsInv, VoidUndoes, NotVoiding
<1>3. Open = {} /\ \A r \in BookRides : Nets[r] = 0
  BY DEF BooksInit, Open, Nets, NoEffect, allowedTransitions
<1>4. SumFunctionOnSet(Amounts, Open) = 0 /\ Earned = 0
  <2>1. SumFunctionOnSet(Nets, BookRides) = 0
    BY <1>1, <1>3, ColumnTypes, SumZero
  <2> QED
    BY <1>3, <2>1, SumNothing, SumsSay
<1>5. CameIn = 0
  <2>1. \A t \in Topups : Credits[t] = 0
    BY BooksAssumption DEF BooksInit, Credits
  <2>2. SumFunctionOnSet(Credits, Topups) = 0
    BY <1>1, <2>1, ColumnTypes, SumZero
  <2> QED
    BY <2>2, SumsSay
<1>6. /\ wallet.available = 0 /\ wallet.pending = 0 /\ wallet.debt = 0 /\ sent = 0
  BY DEF BooksInit
<1>7. PendingCovers /\ BooksBalance
  BY <1>4, <1>5, <1>6, SumsSay DEF BooksBalance
<1> QED
  BY <1>1, <1>2, <1>7 DEF BooksInv, BooksStand

-----------------------------------------------------------------------------

\* What the books say in numbers.
LEMMA BooksSay ==
    ASSUME BooksInv
    PROVE  /\ wallet \in Wallet /\ sent \in Nat /\ raced \in BOOLEAN
           /\ posted \in [BookRides -> Entry]
           /\ topup \in [Topups \cup PaxTopups -> {"PENDING", "crediting", "SUCCESS"}]
           /\ credited \in [Topups \cup PaxTopups -> Nat]
           /\ payout \in [Payouts -> Record] /\ settling \in [Admins -> Judged]
           /\ voiding \in [Admins -> Void] /\ met \subseteq BookRides
           /\ CameIn \in Int /\ Earned \in Int
           /\ ~raced => wallet.pending = SumFunctionOnSet(Amounts, Open)
           /\ ~raced => wallet.available + wallet.pending - wallet.debt + sent = CameIn + Earned
<1>1. BooksTypeOK /\ PendingCovers /\ BooksBalance
  BY DEF BooksInv, BooksStand
<1>2. CameIn \in Int
  <2>1. \A t \in Topups : Credits[t] \in Int
    BY <1>1, ColumnTypes
  <2> QED
    BY <1>1, <2>1, ColumnTypes, SumType, SumsSay
<1>3. Earned \in Int
  <2>1. \A r \in BookRides : Nets[r] \in Int
    BY <1>1, ColumnTypes
  <2> QED
    BY <1>1, <2>1, ColumnTypes, SumType, SumsSay
<1> QED
  BY <1>1, <1>2, <1>3, SumsSay
     DEF BooksTypeOK, BooksBalance, Wallet, Entry, Record, Judged, Void

\* Whatever neither posts nor voids leaves the rides' entries as they are.
LEMMA VoidsStay ==
    ASSUME BooksInv, UNCHANGED <<posted, voiding, met>>
    PROVE  VoidsInv'
BY DEF BooksInv, VoidsInv, VoidUndoes

\* One ride's entries change, and what the rides brought changes by as much.
LEMMA EarnedChanges ==
    ASSUME BooksInv, BooksTypeOK', NEW r \in BookRides, NEW e, posted' = [posted EXCEPT ![r] = e]
    PROVE  Earned' = Earned - Nets[r] + Nets'[r]
<1>1. IsFiniteSet(BookRides) /\ \A q \in BookRides : Nets[q] \in Int
  BY ColumnTypes DEF BooksInv
<1>2. \A q \in BookRides : q # r => Nets'[q] = Nets[q]
  BY BooksSay DEF Nets
<1>3. Nets'[r] \in Int
  BY DEF BooksTypeOK, Effect, Nets
<1>4. SumFunctionOnSet(Nets', BookRides) = SumFunctionOnSet(Nets, BookRides) - Nets[r] + Nets'[r]
  BY Zenon, <1>1, <1>2, <1>3, SumChanges
<1>5. Earned = SumFunctionOnSet(Nets, BookRides) /\ Earned' = SumFunctionOnSet(Nets', BookRides)
  BY DEF Earned, Nets
<1> QED
  BY Zenon, <1>4, <1>5

\* The wallet moves, by a available and d debt.
LEMMA WalletMoves ==
    ASSUME wallet \in Wallet, NEW a \in Int, NEW d \in Int, wallet' = Moved(a, d)
    PROVE  /\ wallet' \in Wallet /\ wallet'.available = wallet.available + a
           /\ wallet'.debt = wallet.debt + d /\ wallet'.pending = wallet.pending
<1> DEFINE x == wallet.available + a
           y == wallet.debt + d
<1>1. x \in Int /\ y \in Int
  BY DEF Wallet
<1>2. wallet' = [wallet EXCEPT !.available = x, !.debt = y]
  BY DEF Moved
<1> HIDE DEF x, y
<1>3. /\ wallet' \in Wallet /\ wallet'.available = x /\ wallet'.debt = y
      /\ wallet'.pending = wallet.pending
  BY <1>1, <1>2 DEF Wallet
<1> QED
  BY <1>3 DEF x, y

LEMMA BooksPost ==
    ASSUME BooksInv, NEW r \in BookRides, NEW a \in Int, NEW d \in Int, Post(r, a, d)
    PROVE  BooksInv'
<1>1. /\ posted[r].at = "no" /\ wallet' = Moved(a, d)
      /\ posted' = [posted EXCEPT ![r] = [at |-> "yes",
                                          net |-> [available |-> a, debt |-> d]]]
      /\ UNCHANGED <<topup, credited, payout, settling, sent, raced, voiding, met>>
  BY DEF Post
<1>2. /\ wallet' \in Wallet /\ wallet'.available = wallet.available + a
      /\ wallet'.debt = wallet.debt + d /\ wallet'.pending = wallet.pending
  BY <1>1, BooksSay, WalletMoves
<1>3. posted' \in [BookRides -> Entry]
  <2>1. [at |-> "yes", net |-> [available |-> a, debt |-> d]] \in Entry
    BY DEF Entry, Effect
  <2> QED
    BY <1>1, <2>1, BooksSay
<1>4. BooksTypeOK'
  BY <1>1, <1>2, <1>3, BooksSay DEF BooksTypeOK, Wallet, Entry, Record, Judged, Void
<1>5. Earned' = Earned + a - d
  <2>1. posted[r].net = NoEffect
    BY <1>1 DEF BooksInv, VoidsInv
  <2>2. Nets[r] = 0 /\ Nets'[r] = a - d
    BY <1>1, <2>1, BooksSay DEF Nets, NoEffect
  <2>3. Earned' = Earned - Nets[r] + Nets'[r]
    BY Zenon, <1>1, <1>4, EarnedChanges
  <2> QED
    BY <2>2, <2>3, BooksSay
<1>8. VoidsInv'
  <2>1. posted'[r].at = "yes" /\ \A q \in BookRides \ {r} : posted'[q] = posted[q]
    BY <1>1, BooksSay
  <2>2. ASSUME NEW x \in Admins, voiding[x].ride \notin met \cup {Anyone}
        PROVE  posted'[voiding[x].ride] = [at |-> "yes", net |-> voiding[x].net]
    <3>1. posted[voiding[x].ride] = [at |-> "yes", net |-> voiding[x].net]
      BY <2>2 DEF BooksInv, VoidsInv
    <3>2. voiding[x].ride \in BookRides \ {r}
      BY <1>1, <2>2, <3>1, BooksSay DEF Void
    <3> QED
      BY <2>1, <3>1, <3>2
  <2> QED
    BY <1>1, <2>1, <2>2 DEF BooksInv, VoidsInv, VoidUndoes
<1>6. CameIn' = CameIn /\ Amounts' = Amounts /\ Open' = Open /\ ReadsInv'
  BY <1>1 DEF CameIn, Amounts, Open, ReadsInv, BooksInv
<1>7. PendingCovers' /\ BooksBalance'
  BY <1>1, <1>2, <1>5, <1>6, BooksSay DEF PendingCovers, BooksBalance, Amounts, Wallet
<1> QED
  BY <1>4, <1>6, <1>7, <1>8 DEF BooksInv, BooksStand

LEMMA BooksReadEntries ==
    ASSUME BooksInv, NEW a \in Admins, NEW r \in BookRides, ReadEntries(a, r)
    PROVE  BooksInv'
<1>1. /\ posted[r].at = "yes"
      /\ voiding' = [voiding EXCEPT ![a] = [ride |-> r, net |-> posted[r].net]]
      /\ UNCHANGED <<wallet, posted, topup, credited, payout, settling, sent, raced, met>>
  BY DEF ReadEntries
<1>2. voiding' \in [Admins -> Void]
  <2>1. [ride |-> r, net |-> posted[r].net] \in Void
    BY BooksSay DEF Void, Entry
  <2> QED
    BY <1>1, <2>1, BooksSay
<1>3. BooksTypeOK'
  BY <1>1, <1>2, BooksSay DEF BooksTypeOK, Wallet, Entry, Record, Judged, Void
<1>4. VoidsInv'
  <2>1. ASSUME NEW x \in Admins, voiding'[x].ride \notin met \cup {Anyone}
        PROVE  posted[voiding'[x].ride] = [at |-> "yes", net |-> voiding'[x].net]
    <3>1. CASE x = a
      <4>1. voiding'[x].ride = r /\ voiding'[x].net = posted[r].net
        BY <1>1, <3>1, BooksSay
      <4>2. posted[r] = [at |-> "yes", net |-> posted[r].net]
        BY <1>1, BooksSay DEF Entry
      <4> QED
        BY <4>1, <4>2
    <3>2. CASE x # a
      <4>1. voiding'[x] = voiding[x]
        BY <1>1, <3>2, BooksSay
      <4> QED
        BY <2>1, <4>1 DEF BooksInv, VoidsInv
    <3> QED
      BY <3>1, <3>2
  <2> QED
    BY <1>1, <2>1 DEF BooksInv, VoidsInv, VoidUndoes
<1>5. ReadsInv' /\ PendingCovers' /\ BooksBalance'
  BY <1>1 DEF BooksInv, ReadsInv, BooksStand, PendingCovers, BooksBalance, CameIn, Earned, Open
<1> QED
  BY <1>3, <1>4, <1>5 DEF BooksInv, BooksStand

LEMMA BooksVoidFails ==
    ASSUME BooksInv, NEW a \in Admins, VoidFails(a)
    PROVE  BooksInv'
<1>1. /\ voiding' = [voiding EXCEPT ![a] = NotVoiding]
      /\ UNCHANGED <<wallet, posted, topup, credited, payout, settling, sent, raced, met>>
  BY DEF VoidFails
<1>2. NotVoiding \in Void /\ NotVoiding.ride = Anyone
  BY DEF NotVoiding, NoEffect, Void, Effect
<1>3. BooksTypeOK'
  BY <1>1, <1>2, BooksSay DEF BooksTypeOK, Wallet, Entry, Record, Judged, Void
<1>4. VoidsInv'
  BY <1>1, <1>2, BooksSay DEF BooksInv, VoidsInv, VoidUndoes
<1>5. ReadsInv' /\ PendingCovers' /\ BooksBalance'
  BY <1>1 DEF BooksInv, ReadsInv, BooksStand, PendingCovers, BooksBalance, CameIn, Earned, Open
<1> QED
  BY <1>3, <1>4, <1>5 DEF BooksInv, BooksStand

LEMMA BooksReverse ==
    ASSUME BooksInv, NEW v \in Admins, reverseRideFinancials(v)
    PROVE  BooksInv'
<1> DEFINE r == voiding[v].ride
           a == voiding[v].net.available
           d == voiding[v].net.debt
           e == [at |-> "voided", net |-> [available |-> posted[r].net.available - a,
                                           debt |-> posted[r].net.debt - d]]
<1>1. /\ r # Anyone /\ wallet' = Moved(-a, -d)
      /\ posted' = [posted EXCEPT ![r] = e]
      /\ met' = IF \E b \in Admins \ {v} : voiding[b].ride = r THEN met \cup {r} ELSE met
      /\ voiding' = [voiding EXCEPT ![v] = NotVoiding]
      /\ UNCHANGED <<topup, credited, payout, settling, sent, raced>>
  BY DEF reverseRideFinancials, Undoes
<1>2. r \in BookRides /\ a \in Int /\ d \in Int /\ -a \in Int /\ -d \in Int
  BY <1>1, BooksSay DEF Void, Effect
<1>3. /\ wallet' \in Wallet /\ wallet'.available = wallet.available - a
      /\ wallet'.debt = wallet.debt - d /\ wallet'.pending = wallet.pending
  <2> HIDE DEF a, d
  <2>1. /\ wallet' \in Wallet /\ wallet'.available = wallet.available + (-a)
        /\ wallet'.debt = wallet.debt + (-d) /\ wallet'.pending = wallet.pending
    BY <1>1, <1>2, BooksSay, WalletMoves
  <2> QED
    BY <1>2, <2>1, BooksSay DEF Wallet
<1>4. posted[r].net.available \in Int /\ posted[r].net.debt \in Int
  BY <1>2, BooksSay DEF Entry, Effect
<1>5. e \in Entry /\ NotVoiding \in Void /\ NotVoiding.ride = Anyone
  BY <1>2, <1>4 DEF Entry, Effect, NotVoiding, NoEffect, Void
<1>6. BooksTypeOK'
  <2>1. posted' \in [BookRides -> Entry] /\ met' \subseteq BookRides
    BY <1>1, <1>2, <1>5, BooksSay
  <2>2. voiding' \in [Admins -> Void]
    BY <1>1, <1>5, BooksSay
  <2> HIDE DEF r, a, d, e
  <2> QED
    BY <1>1, <1>3, <2>1, <2>2, BooksSay DEF BooksTypeOK, Wallet, Entry, Record, Judged, Void
<1>7. Earned' = Earned - (a - d)
  <2>1. posted'[r] = e
    BY <1>1, <1>2, BooksSay
  <2>2. Nets'[r] = Nets[r] - (a - d) /\ Nets[r] \in Int
    BY <1>2, <1>4, <2>1 DEF Nets
  <2>3. Earned' = Earned - Nets[r] + Nets'[r]
    <3> HIDE DEF r, e
    <3> QED
      BY Zenon, <1>1, <1>2, <1>6, EarnedChanges
  <2> HIDE DEF r, a, d, e
  <2> QED
    BY <1>2, <2>2, <2>3, BooksSay
<1>8. VoidsInv'
  <2>1. posted'[r] = e /\ \A q \in BookRides \ {r} : posted'[q] = posted[q]
    BY <1>1, <1>2, BooksSay
  <2>2. \A x \in Admins \ {v} : voiding'[x] = voiding[x]
    BY <1>1, BooksSay
  <2>3. voiding'[v].ride = Anyone
    BY <1>1, <1>5, BooksSay
  <2>4. ASSUME NEW x \in Admins, voiding'[x].ride \notin met' \cup {Anyone}
        PROVE  posted'[voiding'[x].ride] = [at |-> "yes", net |-> voiding'[x].net]
    <3>1. x # v /\ voiding'[x] = voiding[x]
      BY <2>2, <2>3, <2>4
    <3>2. voiding[x].ride # r /\ voiding[x].ride \notin met \cup {Anyone}
      BY <1>1, <2>4, <3>1
    <3>3. posted[voiding[x].ride] = [at |-> "yes", net |-> voiding[x].net]
      BY <3>2 DEF BooksInv, VoidsInv
    <3>4. voiding[x].ride \in BookRides \ {r}
      BY <3>2, BooksSay DEF Void
    <3> QED
      BY <2>1, <3>1, <3>3, <3>4
  <2>5. ASSUME r \notin met' PROVE e.net = NoEffect
    <3>1. r \notin met \cup {Anyone}
      BY <1>1, <2>5
    <3>2. posted[r] = [at |-> "yes", net |-> voiding[v].net]
      BY <3>1 DEF BooksInv, VoidsInv
    <3>3. posted[r].net.available = a /\ posted[r].net.debt = d
      BY <3>2
    <3> QED
      BY <1>2, <3>3 DEF NoEffect
  <2>6. met \subseteq met' /\ e.at = "voided"
    BY <1>1
  <2> HIDE DEF r, e
  <2>7. \A q \in BookRides : posted'[q].at = "no" => posted'[q].net = NoEffect
    BY <2>1, <2>6 DEF BooksInv, VoidsInv
  <2>8. VoidUndoes'
    BY <2>1, <2>5, <2>6 DEF BooksInv, VoidsInv, VoidUndoes
  <2> QED
    BY <2>4, <2>7, <2>8 DEF VoidsInv
<1>9. CameIn' = CameIn /\ Amounts' = Amounts /\ Open' = Open /\ ReadsInv'
  BY <1>1 DEF CameIn, Amounts, Open, ReadsInv, BooksInv
<1> HIDE DEF r, a, d, e
<1>10. PendingCovers' /\ BooksBalance'
  BY <1>1, <1>2, <1>3, <1>7, <1>9, BooksSay
     DEF PendingCovers, BooksBalance, Amounts, Wallet
<1> QED
  BY <1>6, <1>8, <1>9, <1>10 DEF BooksInv, BooksStand

LEMMA BooksCredit ==
    ASSUME BooksInv, NEW t \in Topups, creditDriverSettlingDebt(t)
    PROVE  BooksInv'
<1> DEFINE s == SettledBy(TopupAmount)
<1>0. TopupAmount \in Nat
  BY BooksAssumption
<1>1. /\ topup' = [topup EXCEPT ![t] = "SUCCESS"]
      /\ credited' = [credited EXCEPT ![t] = @ + 1]
      /\ wallet' = Moved(TopupAmount - s, -s)
      /\ UNCHANGED <<posted, payout, settling, sent, raced, voiding, met>>
  BY DEF creditDriverSettlingDebt
<1>2. s \in Int /\ TopupAmount - s \in Int /\ -s \in Int
  <2>1. wallet.debt \in Int
    BY BooksSay DEF Wallet
  <2>2. s \in Int
    BY <1>0, <2>1 DEF SettledBy, Least
  <2> QED
    BY <1>0, <2>2
<1> HIDE DEF s
<1>3. /\ wallet' \in Wallet /\ wallet'.available = wallet.available + TopupAmount - s
      /\ wallet'.debt = wallet.debt - s /\ wallet'.pending = wallet.pending
  <2>1. /\ wallet' \in Wallet /\ wallet'.available = wallet.available + (TopupAmount - s)
        /\ wallet'.debt = wallet.debt + (-s) /\ wallet'.pending = wallet.pending
    BY <1>1, <1>2, BooksSay, WalletMoves
  <2> QED
    BY <1>0, <1>2, <2>1, BooksSay DEF Wallet
<1>4. /\ topup' \in [Topups \cup PaxTopups -> {"PENDING", "crediting", "SUCCESS"}]
      /\ credited' \in [Topups \cup PaxTopups -> Nat]
  BY <1>1, BooksSay
<1>5. BooksTypeOK'
  BY <1>1, <1>3, <1>4, BooksSay DEF BooksTypeOK, Wallet, Entry, Record, Judged, Void
<1>6. CameIn' = CameIn + TopupAmount
  <2>1. Credits[t] \in Nat /\ Credits'[t] = Credits[t] + TopupAmount
    <3>1. credited[t] \in Nat /\ credited'[t] = credited[t] + 1
      BY <1>1, BooksSay
    <3>2. \A n \in Nat : TopupAmount * (n + 1) = TopupAmount * n + TopupAmount
                         /\ TopupAmount * n \in Nat
      BY <1>0
    <3> QED
      BY <3>1, <3>2 DEF Credits
  <2>2. \A u \in Topups : u # t => Credits'[u] = Credits[u]
    BY <1>1, BooksSay DEF Credits
  <2>3. IsFiniteSet(Topups) /\ \A u \in Topups : Credits[u] \in Int
    BY ColumnTypes DEF BooksInv
  <2>4. Credits'[t] \in Int
    BY <1>0, <2>1
  <2>5. SumFunctionOnSet(Credits', Topups)
            = SumFunctionOnSet(Credits, Topups) - Credits[t] + Credits'[t]
    BY Zenon, <2>2, <2>3, <2>4, SumChanges
  <2>6. CameIn = SumFunctionOnSet(Credits, Topups)
        /\ CameIn' = SumFunctionOnSet(Credits', Topups)
    BY DEF CameIn, Credits
  <2>7. CameIn' = CameIn - Credits[t] + Credits'[t]
    BY Zenon, <2>5, <2>6
  <2> QED
    BY <1>0, <2>1, <2>7, BooksSay
<1>7. Earned' = Earned /\ Amounts' = Amounts /\ Open' = Open /\ ReadsInv'
  BY <1>1 DEF Earned, Amounts, Open, ReadsInv, BooksInv
<1>8. PendingCovers' /\ BooksBalance'
  BY <1>0, <1>1, <1>2, <1>3, <1>6, <1>7, BooksSay
     DEF PendingCovers, BooksBalance, Amounts, Wallet
<1> QED
  BY <1>1, VoidsStay, <1>5, <1>7, <1>8 DEF BooksInv, BooksStand

LEMMA BooksPassenger ==
    ASSUME BooksInv, NEW t \in PaxTopups,
           creditPassenger(t) \/ \E ok \in BOOLEAN : RecordSuccess(t, ok)
    PROVE  BooksInv'
<1>1. /\ topup' \in [Topups \cup PaxTopups -> {"PENDING", "crediting", "SUCCESS"}]
      /\ credited' \in [Topups \cup PaxTopups -> Nat]
      /\ UNCHANGED <<wallet, posted, payout, settling, sent, raced, voiding, met>>
  BY BooksSay DEF creditPassenger, RecordSuccess
<1>2. BooksTypeOK'
  BY <1>1, BooksSay DEF BooksTypeOK, Wallet, Entry, Record, Judged, Void
<1>3. \A u \in Topups : credited'[u] = credited[u]
  <2>1. \A u \in Topups : u # t /\ u \in Topups \cup PaxTopups
    BY BooksAssumption
  <2> QED
    BY <2>1, BooksSay DEF creditPassenger, RecordSuccess
<1>4. Credits' = Credits
  BY <1>3 DEF Credits
<1>5. CameIn' = CameIn
  BY <1>4 DEF CameIn, Credits
<1>6. Earned' = Earned /\ Amounts' = Amounts /\ Open' = Open /\ ReadsInv'
  BY <1>1 DEF Earned, Amounts, Open, ReadsInv, BooksInv
<1>7. PendingCovers' /\ BooksBalance'
  BY <1>1, <1>5, <1>6, BooksSay DEF PendingCovers, BooksBalance, Amounts
<1> QED
  BY <1>1, VoidsStay, <1>2, <1>6, <1>7 DEF BooksInv, BooksStand

LEMMA BooksRepay ==
    ASSUME BooksInv, repayDebtFromBalance
    PROVE  BooksInv'
<1> DEFINE a == Least(wallet.available, wallet.debt)
<1>1. /\ wallet' = Moved(-a, -a)
      /\ UNCHANGED <<posted, topup, credited, payout, settling, sent, raced, voiding, met>>
  BY DEF repayDebtFromBalance
<1>2. a \in Int /\ -a \in Int
  <2>1. wallet.available \in Int /\ wallet.debt \in Int
    BY BooksSay DEF Wallet
  <2>2. a \in Int
    BY <2>1 DEF Least
  <2> QED
    BY <2>2
<1> HIDE DEF a
<1>3. /\ wallet' \in Wallet /\ wallet'.available = wallet.available - a
      /\ wallet'.debt = wallet.debt - a /\ wallet'.pending = wallet.pending
  <2>1. /\ wallet' \in Wallet /\ wallet'.available = wallet.available + (-a)
        /\ wallet'.debt = wallet.debt + (-a) /\ wallet'.pending = wallet.pending
    BY <1>1, <1>2, BooksSay, WalletMoves
  <2> QED
    BY <1>2, <2>1, BooksSay DEF Wallet
<1>4. BooksTypeOK'
  BY <1>1, <1>3, BooksSay DEF BooksTypeOK, Wallet, Entry, Record, Judged, Void
<1>5. /\ Earned' = Earned /\ CameIn' = CameIn /\ Amounts' = Amounts /\ Open' = Open
      /\ ReadsInv'
  BY <1>1 DEF Earned, CameIn, Amounts, Open, ReadsInv, BooksInv
<1>6. PendingCovers' /\ BooksBalance'
  BY <1>1, <1>2, <1>3, <1>5, BooksSay DEF PendingCovers, BooksBalance, Amounts, Wallet
<1> QED
  BY <1>1, VoidsStay, <1>4, <1>5, <1>6 DEF BooksInv, BooksStand

LEMMA BooksInitiate ==
    ASSUME BooksInv, NEW p \in Payouts, NEW amount \in 1..MaxPayout,
           initiatePayout(p, amount)
    PROVE  BooksInv'
<1>0. amount \in Nat
  BY BooksAssumption
<1>1. /\ payout[p].status = "none"
      /\ wallet' = [wallet EXCEPT !.available = @ - amount, !.pending = @ + amount]
      /\ payout' = [payout EXCEPT ![p] = [status |-> "pending", amount |-> amount]]
      /\ UNCHANGED <<posted, topup, credited, settling, sent, raced, voiding, met>>
  BY DEF initiatePayout
<1>2. /\ wallet' \in Wallet /\ wallet'.available = wallet.available - amount
      /\ wallet'.debt = wallet.debt /\ wallet'.pending = wallet.pending + amount
  <2> DEFINE x == wallet.available - amount
             y == wallet.pending + amount
  <2>1. x \in Int /\ y \in Nat /\ wallet \in Wallet
    BY <1>0, BooksSay DEF Wallet
  <2>2. wallet' = [wallet EXCEPT !.available = x, !.pending = y]
    BY <1>1
  <2> HIDE DEF x, y
  <2>3. /\ wallet' \in Wallet /\ wallet'.available = x /\ wallet'.pending = y
        /\ wallet'.debt = wallet.debt
    BY <2>1, <2>2 DEF Wallet
  <2> QED
    BY <2>3 DEF x, y
<1>3. payout' \in [Payouts -> Record]
  <2>1. [status |-> "pending", amount |-> amount] \in Record
    BY <1>0 DEF Record
  <2> QED
    BY <1>1, <2>1, BooksSay
<1>4. BooksTypeOK'
  BY <1>1, <1>2, <1>3, BooksSay DEF BooksTypeOK, Wallet, Entry, Record, Judged, Void
<1>5. p \notin Open /\ Open' = Open \cup {p} /\ payout'[p].amount = amount
      /\ \A q \in Payouts : q # p => payout'[q] = payout[q]
  BY <1>1, BooksSay DEF Open, allowedTransitions
<1>6. ~raced => SumFunctionOnSet(Amounts', Open') = wallet.pending + amount
  <2> SUFFICES ASSUME ~raced
               PROVE  SumFunctionOnSet(Amounts', Open') = wallet.pending + amount
    OBVIOUS
  <2>1. Amounts'[p] = amount /\ Amounts'[p] \in Int
    BY <1>0, <1>5 DEF Amounts
  <2>2. IsFiniteSet(Open) /\ p \notin Open
    BY <1>5, ColumnTypes DEF BooksInv
  <2>3. \A q \in Open : Amounts[q] \in Int /\ Amounts'[q] = Amounts[q]
    <3>1. \A q \in Open : q \in Payouts /\ q # p /\ Amounts[q] \in Int
      BY <1>5, ColumnTypes DEF BooksInv
    <3> QED
      BY <1>5, <3>1 DEF Amounts
  <2>4. SumFunctionOnSet(Amounts', Open \cup {p})
            = SumFunctionOnSet(Amounts, Open) + Amounts'[p]
    BY Zenon, <2>1, <2>2, <2>3, SumGrows
  <2>5. wallet.pending = SumFunctionOnSet(Amounts, Open)
    BY BooksSay
  <2>6. SumFunctionOnSet(Amounts', Open') = wallet.pending + Amounts'[p]
    BY Zenon, <1>5, <2>4, <2>5
  <2> QED
    BY <2>1, <2>6
<1>7. Earned' = Earned /\ CameIn' = CameIn
  BY <1>1 DEF Earned, CameIn
<1>8. ReadsInv'
  <2>1. ASSUME ~raced, NEW a \in Admins, settling[a].job # Anyone
        PROVE  /\ settling[a].job \in Open'
               /\ settling[a].to \in allowedTransitions[payout'[settling[a].job].status]
    <3>1. /\ settling[a].job \in Open
          /\ settling[a].to \in allowedTransitions[payout[settling[a].job].status]
      BY <2>1 DEF BooksInv, ReadsInv
    <3>2. settling[a].job # p /\ settling[a].job \in Payouts
      BY <1>5, <3>1 DEF Open
    <3> QED
      BY <1>5, <3>1, <3>2
  <2> QED
    BY <1>1, <2>1 DEF ReadsInv
<1>9. PendingCovers'
  BY <1>1, <1>2, <1>6 DEF PendingCovers, Amounts
<1>10. BooksBalance'
  BY <1>0, <1>1, <1>2, <1>7, BooksSay DEF BooksBalance, Wallet
<1> QED
  BY <1>1, VoidsStay, <1>4, <1>8, <1>9, <1>10 DEF BooksInv, BooksStand

LEMMA BooksRead ==
    ASSUME BooksInv, NEW a \in Admins, NEW p \in Payouts,
           NEW to \in {"processing"} \cup Final, ReadPayout(a, p, to)
    PROVE  BooksInv'
<1>1. /\ payout[p].status \in DOMAIN allowedTransitions
      /\ to \in allowedTransitions[payout[p].status]
      /\ settling' = [settling EXCEPT ![a] = [job |-> p, to |-> to]]
      /\ UNCHANGED <<wallet, posted, topup, credited, payout, sent, raced, voiding, met>>
  BY DEF ReadPayout
<1>2. settling' \in [Admins -> Judged]
  BY <1>1, BooksSay DEF Judged
<1>3. BooksTypeOK'
  BY <1>1, <1>2, BooksSay DEF BooksTypeOK, Wallet, Entry, Record, Judged, Void
<1>4. p \in Open /\ Open' = Open
  BY <1>1 DEF Open
<1>5. ReadsInv'
  <2>1. ASSUME ~raced, NEW b \in Admins, settling'[b].job # Anyone
        PROVE  /\ settling'[b].job \in Open
               /\ settling'[b].to \in allowedTransitions[payout[settling'[b].job].status]
    <3>1. CASE b = a
      <4>1. settling'[b].job = p /\ settling'[b].to = to
        BY <1>1, <3>1, BooksSay
      <4> QED
        BY <1>1, <1>4, <4>1
    <3>2. CASE b # a
      <4>1. settling'[b] = settling[b]
        BY <1>1, <3>2, BooksSay
      <4> QED
        BY <2>1, <4>1 DEF BooksInv, ReadsInv
    <3> QED
      BY <3>1, <3>2
  <2> QED
    BY <1>1, <1>4, <2>1 DEF ReadsInv
<1>6. Earned' = Earned /\ CameIn' = CameIn
  BY <1>1 DEF Earned, CameIn
<1>7. PendingCovers' /\ BooksBalance'
  BY <1>1, <1>4, <1>6, BooksSay DEF PendingCovers, BooksBalance, Amounts
<1> QED
  BY <1>1, VoidsStay, <1>3, <1>5, <1>7 DEF BooksInv, BooksStand

\* A payout finds its own money: what is pending covers it.
LEMMA OwnMoney ==
    ASSUME BooksInv, ~raced, NEW p \in Open
    PROVE  /\ payout[p].amount \in Nat /\ payout[p].amount <= wallet.pending
           /\ Least(wallet.pending, payout[p].amount) = payout[p].amount
<1>1. p \in Payouts /\ IsFiniteSet(Open) /\ \A q \in Open : Amounts[q] \in Nat
  BY ColumnTypes DEF BooksInv
<1>2. Amounts[p] <= SumFunctionOnSet(Amounts, Open)
  BY <1>1, SumCovers
<1>3. wallet.pending = SumFunctionOnSet(Amounts, Open) /\ wallet.pending \in Nat
  BY BooksSay DEF Wallet
<1>4. payout[p].amount \in Nat /\ payout[p].amount <= wallet.pending
  BY <1>1, <1>2, <1>3 DEF Amounts
<1> QED
  BY <1>3, <1>4 DEF Least

LEMMA BooksUpdate ==
    ASSUME BooksInv, NEW a \in Admins, updatePayoutStatus(a)
    PROVE  BooksInv'
<1> DEFINE p == settling[a].job
           to == settling[a].to
           owed == payout[p].amount
           deducted == IF to \in Final THEN Least(wallet.pending, owed) ELSE 0
           back == IF to = "failed" THEN deducted ELSE 0
<1>1. /\ p \in Payouts /\ to \in {"none", "processing"} \cup Final
      /\ payout' = [payout EXCEPT ![p].status = to]
      /\ wallet' = [wallet EXCEPT !.pending = @ - deducted, !.available = @ + back]
      /\ sent' = IF to = "success" THEN sent + owed ELSE sent
      /\ raced' = (raced \/ \E b \in Admins \ {a} : settling[b].job = p)
      /\ settling' = [settling EXCEPT ![a] = [job |-> Anyone, to |-> "none"]]
      /\ UNCHANGED <<posted, topup, credited, voiding, met>>
  BY BooksSay DEF updatePayoutStatus, Judged
<1>2. owed \in Nat /\ deducted \in Nat /\ deducted <= wallet.pending /\ back \in Nat
  <2>1. owed \in Nat /\ wallet.pending \in Nat
    BY <1>1, BooksSay DEF Record, Wallet
  <2> QED
    BY <2>1 DEF Least
<1>3. /\ wallet' \in Wallet /\ wallet'.available = wallet.available + back
      /\ wallet'.debt = wallet.debt /\ wallet'.pending = wallet.pending - deducted
  <2> HIDE DEF deducted, back
  <2> DEFINE x == wallet.available + back
             y == wallet.pending - deducted
  <2>1. x \in Int /\ y \in Nat /\ wallet \in Wallet
    BY <1>2, BooksSay DEF Wallet
  <2>2. wallet' = [wallet EXCEPT !.pending = y, !.available = x]
    BY <1>1
  <2> HIDE DEF x, y
  <2>3. /\ wallet' \in Wallet /\ wallet'.available = x /\ wallet'.pending = y
        /\ wallet'.debt = wallet.debt
    BY <2>1, <2>2 DEF Wallet
  <2> QED
    BY <2>3 DEF x, y
<1>4. /\ sent' \in Nat /\ raced' \in BOOLEAN /\ settling' \in [Admins -> Judged]
  <2>1. sent' \in Nat
    BY <1>1, <1>2, BooksSay
  <2>2. raced' \in BOOLEAN
    BY <1>1
  <2>3. settling' \in [Admins -> Judged]
    BY <1>1, BooksSay DEF Judged
  <2> QED
    BY <2>1, <2>2, <2>3
<1>5. payout' \in [Payouts -> Record]
  BY <1>1, BooksSay DEF Record
<1>6. BooksTypeOK'
  BY <1>1, <1>3, <1>4, <1>5, BooksSay DEF BooksTypeOK, Wallet, Entry, Record, Judged, Void
<1>7. Earned' = Earned /\ CameIn' = CameIn
  BY <1>1 DEF Earned, CameIn
<1>8. CASE raced'
  BY <1>1, <1>6, <1>8, VoidsStay DEF BooksInv, BooksStand, ReadsInv, PendingCovers, BooksBalance
<1>9. CASE ~raced'
  <2>1. ~raced /\ \A b \in Admins : b # a => settling[b].job # p
    BY <1>1, <1>9
  <2>2. p # Anyone
    BY DEF updatePayoutStatus
  <2>3. p \in Open /\ to \in allowedTransitions[payout[p].status]
    BY <2>1, <2>2 DEF BooksInv, ReadsInv
  <2>4. to \in {"processing"} \cup Final
    BY <2>3 DEF Open, allowedTransitions, Final
  <2>5. Least(wallet.pending, owed) = owed
    BY <2>1, <2>3, OwnMoney
  <2>6. /\ payout'[p].status = to /\ payout'[p].amount = owed
        /\ \A q \in Payouts : q # p => payout'[q] = payout[q]
    BY <1>1, BooksSay DEF Record
  <2>7. Amounts' = Amounts
    BY <2>6 DEF Amounts
  <2>8. Open' = IF to \in Final THEN Open \ {p} ELSE Open
    BY <2>3, <2>4, <2>6 DEF Open, allowedTransitions, Final
  <2>9. ReadsInv'
    <3>1. ASSUME NEW b \in Admins, settling'[b].job # Anyone
          PROVE  /\ settling'[b].job \in Open'
                 /\ settling'[b].to \in allowedTransitions[payout'[settling'[b].job].status]
      <4>1. b # a /\ settling'[b] = settling[b]
        BY <1>1, <3>1, BooksSay
      <4>2. settling[b].job # p
        BY <2>1, <4>1
      <4>3. /\ settling[b].job \in Open
            /\ settling[b].to \in allowedTransitions[payout[settling[b].job].status]
        BY <2>1, <3>1, <4>1 DEF BooksInv, ReadsInv
      <4>4. settling[b].job \in Open' /\ payout'[settling[b].job] = payout[settling[b].job]
        BY <2>6, <2>8, <4>2, <4>3 DEF Open
      <4> QED
        BY <4>1, <4>3, <4>4
    <3> QED
      BY <3>1 DEF ReadsInv
  <2>10. SumFunctionOnSet(Amounts', Open') = wallet.pending - deducted
    <3>1. wallet.pending = SumFunctionOnSet(Amounts, Open) /\ wallet.pending \in Nat
      BY <2>1, BooksSay DEF Wallet
    <3>2. CASE to \in Final
      <4>1. IsFiniteSet(Open) /\ \A q \in Open : Amounts[q] \in Int
        BY ColumnTypes DEF BooksInv
      <4>2. Open' = Open \ {p} /\ \A q \in Open' : Amounts'[q] = Amounts[q]
        BY <2>7, <2>8, <3>2
      <4> HIDE DEF p
      <4>6. IsFiniteSet(Open') /\ p \notin Open' /\ Amounts[p] \in Int
        BY <2>3, <4>1, <4>2, FS_RemoveElement
      <4>7. \A q \in Open' : Amounts'[q] \in Int /\ Amounts[q] = Amounts'[q]
        BY <4>1, <4>2
      <4>8. SumFunctionOnSet(Amounts, Open' \cup {p})
                = SumFunctionOnSet(Amounts', Open') + Amounts[p]
        BY Zenon, <4>6, <4>7, SumGrows
      <4>9. Open = Open' \cup {p}
        BY <2>3, <4>2
      <4>3. SumFunctionOnSet(Amounts, Open) = SumFunctionOnSet(Amounts', Open') + Amounts[p]
        BY Zenon, <4>8, <4>9
      <4>10. SumFunctionOnSet(Amounts', Open') \in Int
        BY <4>6, <4>7, SumType
      <4> USE DEF p
      <4>4. Amounts[p] = owed /\ deducted = owed
        BY <1>1, <2>5, <3>2 DEF Amounts
      <4> HIDE DEF p, owed, deducted
      <4>5. wallet.pending = SumFunctionOnSet(Amounts', Open') + Amounts[p]
        BY Zenon, <3>1, <4>3
      <4> QED
        BY <3>1, <4>4, <4>5, <4>6, <4>10
    <3>3. CASE to \notin Final
      <4>1. deducted = 0 /\ Open' = Open
        BY <2>8, <3>3
      <4>2. SumFunctionOnSet(Amounts', Open') = SumFunctionOnSet(Amounts, Open)
        BY Zenon, <2>7, <4>1
      <4> HIDE DEF deducted
      <4> QED
        BY <3>1, <4>1, <4>2
    <3> QED
      BY <3>2, <3>3
  <2>11. PendingCovers'
    <3>1. wallet'.pending = SumFunctionOnSet(Amounts', Open')
      BY Zenon, <1>3, <2>10
    <3> QED
      BY <3>1 DEF PendingCovers, Amounts
  <2>12. BooksBalance'
    <3>1. back - deducted + sent' = sent
      BY <1>1, <1>2, <2>4, <2>5, BooksSay DEF Final
    <3>2. /\ wallet.available \in Int /\ wallet.debt \in Int /\ wallet.pending \in Nat
          /\ sent \in Nat /\ sent' \in Nat
      BY <1>4, BooksSay DEF Wallet
    <3>4. wallet.available + wallet.pending - wallet.debt + sent = CameIn + Earned
      BY <2>1, BooksSay
    <3> HIDE DEF back, deducted
    <3>5. back \in Int /\ deducted \in Int
      BY <1>2
    <3>7. wallet.pending \in Int /\ sent \in Int /\ sent' \in Int
      BY <3>2
    <3> DEFINE av == wallet.available
               pe == wallet.pending
               de == wallet.debt
               out == sent'
    <3>8. av \in Int /\ pe \in Int /\ de \in Int /\ out \in Int /\ back - deducted + out = sent
      BY <3>1, <3>2, <3>7
    <3> HIDE DEF av, pe, de, out
    <3>9. (av + back) + (pe - deducted) - de + out = av + pe - de + sent
      BY <3>5, <3>7, <3>8
    <3>6. (wallet.available + back) + (wallet.pending - deducted) - wallet.debt + sent'
              = wallet.available + wallet.pending - wallet.debt + sent
      BY Zenon, <3>9 DEF av, pe, de, out
    <3>3. wallet'.available + wallet'.pending - wallet'.debt + sent'
              = wallet.available + wallet.pending - wallet.debt + sent
      BY Zenon, <1>3, <3>6
    <3> QED
      BY <1>7, <3>3, <3>4 DEF BooksBalance
  <2> QED
    BY <1>1, VoidsStay, <1>6, <2>9, <2>11, <2>12 DEF BooksInv, BooksStand
<1> QED
  BY <1>4, <1>8, <1>9

LEMMA BooksInvStep == BooksInv /\ [BooksNext]_bookVars => BooksInv'
<1> SUFFICES ASSUME BooksInv, [BooksNext]_bookVars PROVE BooksInv'
  OBVIOUS
<1>0. wallet.available \in Int /\ wallet.debt \in Int
  BY BooksSay DEF Wallet
<1>1. ASSUME NEW r \in BookRides, postCashRide(r) PROVE BooksInv'
  <2> DEFINE a == IF CanPay > 0 THEN -CanPay ELSE 0
             d == Commission - CanPay
  <2>1. CanPay \in Int /\ Commission \in Int
    BY <1>0, BooksAssumption DEF CanPay, Least
  <2>2. a \in Int /\ d \in Int
    BY <2>1
  <2>3. Post(r, a, d)
    BY <1>1 DEF postCashRide
  <2> HIDE DEF a, d
  <2> QED
    BY <2>2, <2>3, BooksPost
<1>2. ASSUME NEW r \in BookRides, postWalletRide(r) PROVE BooksInv'
  <2> DEFINE recovered == IF wallet.debt > 0 THEN SettledBy(Earning) ELSE 0
             a == Earning - recovered
             d == -recovered
  <2>1. recovered \in Int /\ Earning \in Int
    BY <1>0, BooksAssumption DEF SettledBy, Least
  <2>2. a \in Int /\ d \in Int
    <3> HIDE DEF recovered
    <3> QED
      BY <2>1
  <2>3. Post(r, a, d)
    BY <1>2 DEF postWalletRide
  <2> HIDE DEF a, d
  <2> QED
    BY <2>2, <2>3, BooksPost
<1>3. CASE UNCHANGED bookVars
  BY <1>3 DEF bookVars, BooksInv, BooksTypeOK, ReadsInv, BooksStand, PendingCovers,
              BooksBalance, CameIn, Earned, Open, VoidsInv, VoidUndoes
<1> QED
  BY <1>1, <1>2, <1>3, BooksReadEntries, BooksVoidFails, BooksReverse, BooksCredit,
     BooksPassenger, BooksRepay, BooksInitiate, BooksRead, BooksUpdate DEF BooksNext

\* A wallet's columns and the ledger agree in every run, for any number of rides,
\* payouts and administrators, and a void that no other void of the ride met has
\* undone what the ride cost (wallet_service.ts:40-700).
THEOREM BooksHold == BooksSpec => [](BooksStand /\ VoidUndoes)
<1>1. BooksInv => BooksStand /\ VoidUndoes
  BY DEF BooksInv, VoidsInv
<1> QED
  BY <1>1, BooksInvInit, BooksInvStep, PTL DEF BooksSpec

-------------------------------------------------------------------------------
(* The services together *)

\* The retries of a request and its key keep their types (idempotency_service.ts).
THEOREM ReplayTypes == ReplaySpec => []ReplayTypeOK
<1>1. ReplayInv => ReplayTypeOK
  BY DEF ReplayInv
<1> QED
  BY ReplayInvInit, ReplayInvStep, <1>1, PTL DEF ReplaySpec

\* The dispatches to passengers and the batches that send them keep their types
\* (lifecycle_automation_service.ts).
THEOREM OutreachTypes == OutreachSpec => []OutreachTypeOK
<1>1. OutInv => OutreachTypeOK
  BY DEF OutInv
<1> QED
  BY OutInvInit, OutInvStep, <1>1, PTL DEF OutreachSpec

\* The columns of a wallet, its payouts and its top-ups keep their types
\* (wallet_service.ts).
THEOREM BooksTypes == BooksSpec => []BooksTypeOK
<1>1. BooksInv => BooksTypeOK
  BY DEF BooksInv
<1> QED
  BY BooksInvInit, BooksInvStep, <1>1, PTL DEF BooksSpec

\* A run of the services together is, seen by each of them, a run of that
\* service: it moves as it moves alone, or not at all.  Whatever is proved of
\* a service alone therefore holds beside the others.
THEOREM EachBackServiceRuns ==
    BackSpec => /\ BooksSpec /\ CampaignSpec /\ OutreachSpec /\ ReplaySpec
                /\ MailSpec /\ RosterSpec /\ DutySpec
<1>1. BackInit => /\ BooksInit /\ CampaignInit /\ OutreachInit /\ ReplayInit
                  /\ MailInit /\ RosterInit /\ DutyInit
  BY DEF BackInit
<1>2. [BackNext]_backVars =>
         /\ [BooksNext]_bookVars /\ [CampaignNext]_campaignVars
         /\ [OutreachNext]_outreachVars /\ [ReplayNext]_replayVars
         /\ [MailNext]_mailVars /\ [RosterNext]_rosterVars /\ [DutyNext]_dutyVars
  BY DEF BackNext, backVars
<1> QED
  BY <1>1, <1>2, PTL DEF BackSpec, BooksSpec, CampaignSpec, OutreachSpec,
                         ReplaySpec, MailSpec, RosterSpec, DutySpec

\* The state of every service keeps its type in every run of them all, for any
\* number of rides, passengers, marketers, drivers, desks and phones.
THEOREM BackTypes == BackSpec => []BackTypeOK
<1>1. /\ BooksTypeOK /\ CampaignTypeOK /\ OutreachTypeOK /\ ReplayTypeOK
      /\ MailTypeOK /\ RosterTypeOK /\ DutyTypeOK
      => BackTypeOK
  BY DEF BackTypeOK
<1> QED
  BY <1>1, EachBackServiceRuns, BooksTypes, CampaignTypes, OutreachTypes,
     ReplayTypes, MailTypes, RosterTypes, DutyTypes, PTL

\* Every promise of the services behind the rides stands in every run of them
\* all: the books agree, an e-mail and a push reach a passenger once and as
\* approved, nobody who withdrew hears from the marketers, a retried request
\* runs once, the queue is in order, phones ring for those on duty, and the
\* phone does not walk over the dispatcher's word.
THEOREM BackServicesStand ==
    BackSpec => /\ [](BooksStand /\ VoidUndoes /\ RunsOnce /\ QueueInOrder)
                /\ [](EmailOnce /\ SentAsApproved /\ PushedOnce)
                /\ [](Silent /\ AlertsOnDuty)
                /\ DispatchersWordStands
BY EachBackServiceRuns, BooksHold, RetryRunsOnce, QueueStands, OneEmail,
   ApprovedIsSent, OnePush, StopMeansStop, DutyAlerts, WordStands, PTL

=============================================================================
