--------------------------- MODULE OpsControl_proofs ---------------------------
(***************************************************************************)
(* What Operations may do to a ride, and to each other's leases, for any   *)
(* number of rides, drivers, handlers and dispatchers and any clock.       *)
(*                                                                         *)
(* The argument: a step of OpsControl is a step of RideLifecycle or leaves *)
(* the ride alone, so RideLifecycle's inductive invariant is one here too; *)
(* about its own state the module needs to know that a request read its    *)
(* clock in the past, which is what makes a late upsert or renewal safe.   *)
(***************************************************************************)
EXTENDS OpsControl, RideLifecycle_proofs

\* Types of this module's own variables, and the age of a request.
DeskInv ==
    /\ now \in 0..MaxTime
    /\ lease \in [Rides -> Lease]
    /\ desk \in [Staff -> Desk]
    /\ freed \subseteq Handlers
    /\ lapsed \subseteq Rides
    /\ \A s \in Staff : /\ desk[s].since <= now
                        /\ desk[s].at # "idle" => desk[s].ride \in Rides
                        /\ desk[s].at = "assign" => desk[s].driver \in Drivers

OpsInv == IInv /\ DeskInv

-------------------------------------------------------------------------------
(* What the helpers do to the desks and the leases *)

LEMMA CallsEffect ==
    ASSUME DeskInv, NEW s \in Staff, NEW at \in DeskStep, NEW r \in Rides,
           NEW d \in Drivers \cup {NoDriver}, NEW t \in 0..now,
           at = "assign" => d \in Drivers,
           Calls(s, at, r, d, t), UNCHANGED <<now, lease, freed, lapsed>>
    PROVE  DeskInv'
<1> DEFINE new == [at |-> at, ride |-> r, driver |-> d, since |-> t]
<1>1. t \in 0..MaxTime
  BY OpsAssumption DEF DeskInv
<1>2. new \in Desk /\ new.since <= now /\ new.ride \in Rides /\ new.at = at /\ new.driver = d
  BY <1>1 DEF Desk, DeskInv
<1>3. desk' = [desk EXCEPT ![s] = new]
  BY DEF Calls
<1> HIDE DEF new
<1> QED
  BY <1>2, <1>3 DEF DeskInv

LEMMA AnswersEffect ==
    ASSUME DeskInv, NEW s \in Staff, NEW at, Answers(s, at),
           UNCHANGED <<now, freed, lapsed>>, lease' \in [Rides -> Lease]
    PROVE  DeskInv'
<1>1. Waiting \in Desk /\ Waiting.since = 0 /\ Waiting.at = "idle"
  BY OpsAssumption DEF Waiting, Desk, DeskStep
<1>2. desk' = [desk EXCEPT ![s] = Waiting]
  BY DEF Answers
<1>3. 0 <= now
  BY DEF DeskInv
<1> QED
  BY <1>1, <1>2, <1>3 DEF DeskInv

LEMMA GrantEffect ==
    ASSUME DeskInv, NEW s \in Staff, desk[s].ride \in Rides, Grant(s)
    PROVE  /\ lease' \in [Rides -> Lease]
           /\ lease'[desk[s].ride].owner = s
           /\ \A r \in Rides \ {desk[s].ride} : lease'[r] = lease[r]
<1> DEFINE new == [owner |-> s, until |-> desk[s].since + LeaseDuration]
<1>1. new \in Lease /\ new.owner = s
  BY OpsAssumption DEF DeskInv, Desk, Lease
<1>2. lease' = [lease EXCEPT ![desk[s].ride] = new]
  BY DEF Grant
<1> HIDE DEF new
<1> QED
  BY <1>1, <1>2 DEF DeskInv

LEMMA WithdrawEffect ==
    ASSUME DeskInv, NEW r, Withdraw(r)
    PROVE  /\ lease' \in [Rides -> Lease]
           /\ \A q \in Rides : lease'[q].owner \in {lease[q].owner, NoStaff}
<1>1. Automatic \in Lease /\ Automatic.owner = NoStaff
  BY OpsAssumption DEF Automatic, Lease
<1> QED
  BY <1>1 DEF Withdraw, DeskInv

-------------------------------------------------------------------------------
(* Every step is a step of RideLifecycle, or none of its business *)

LEMMA PauseStops ==
    ASSUME OpsInv, NEW s \in Staff, Pause(s)
    PROVE  [Next]_vars
<1> DEFINE r == desk[s].ride
<1>1. r \in Rides
  BY DEF Pause, Answers, OpsInv, DeskInv
<1>2. run \in [Rides -> RunState]
  BY DEF OpsInv, IInv, TypeOK
<1>3. UNCHANGED <<row, lock, call>>
  BY DEF Pause
<1>4. CASE run[r] = "running"
  <2>1. LoopMoves(r, "running", "stopping")
    BY <1>4 DEF Pause, LoopMoves
  <2> QED
    BY <1>1, <1>3, <2>1 DEF LoopStops, Search, Next
<1>5. CASE run[r] # "running"
  BY <1>1, <1>2, <1>3, <1>5 DEF Pause, vars, row
<1> QED
  BY <1>4, <1>5

LEMMA DispatchingRefines ==
    ASSUME OpsInv, NEW s \in Staff, Dispatching(s)
    PROVE  [Next]_vars
<1>1. CASE Pause(s)
  BY <1>1, PauseStops
<1>2. CASE AssignEnters(s)
  <2>1. CASE UNCHANGED vars
    BY <2>1
  <2>2. ASSUME NEW h \in Handlers, AcceptCheck(h, desk[s].ride, desk[s].driver)
        PROVE  Next
    <3>1. desk[s].at = "assign"
      BY <1>2 DEF AssignEnters, Answers
    <3>2. desk[s].ride \in Rides /\ desk[s].driver \in Drivers
      BY <3>1 DEF OpsInv, DeskInv
    <3> QED
      BY <2>2, <3>2 DEF Decision, Next
  <2> QED
    BY <1>2, <2>1, <2>2 DEF AssignEnters
<1>3. ASSUME NEW h \in Handlers, ReleaseEnters(s, h)
      PROVE  Next
  <2>1. desk[s].ride \in Rides /\ ReleaseDriver(h, desk[s].ride)
    BY <1>3 DEF ReleaseEnters, Answers, OpsInv, DeskInv
  <2> QED
    BY <2>1 DEF Decision, Next
<1>4. CASE \E r \in Rides : \/ TakeoverRead(s, r) \/ RenewCall(s, r)
                            \/ HandBack(s, r) \/ ReleaseRead(s, r)
                            \/ \E d \in Drivers : AssignRead(s, r, d)
  BY <1>4 DEF TakeoverRead, RenewCall, HandBack, ReleaseRead, AssignRead
<1>5. CASE \/ TakeoverWon(s) \/ TakeoverLost(s) \/ RenewWrite(s)
           \/ ReleaseRefused(s) \/ DeskThrows(s)
  BY <1>5 DEF TakeoverWon, TakeoverLost, RenewWrite, ReleaseRefused, DeskThrows
<1> QED
  BY <1>1, <1>2, <1>3, <1>4, <1>5 DEF Dispatching

LEMMA StepImplements ==
    ASSUME OpsInv, [OpsNext]_opsVars
    PROVE  [Next]_vars
<1>1. CASE UNCHANGED opsVars
  BY <1>1 DEF opsVars
<1>2. CASE Underlying
  BY <1>2 DEF Underlying, Decision, Next
<1>3. ASSUME NEW s \in Staff, Dispatching(s)
      PROVE  [Next]_vars
  BY <1>3, DispatchingRefines
<1>4. ASSUME NEW h \in Handlers,
             ReleaseOnAssignment(h) \/ AnnounceFreed(h) \/ HandlerThrows(h)
      PROVE  [Next]_vars
  BY <1>4 DEF ReleaseOnAssignment, AnnounceFreed, HandlerThrows, Decision, Next
<1>5. CASE \/ \E r \in Rides : SweepReleases(r)
           \/ SweepReads \/ SweepAborts \/ TimePasses
  BY <1>5 DEF SweepReleases, SweepReads, SweepAborts, TimePasses
<1>6. CASE OpsRestart
  BY <1>6 DEF OpsRestart, Next
<1> QED
  BY <1>1, <1>2, <1>3, <1>4, <1>5, <1>6 DEF OpsNext

-------------------------------------------------------------------------------
(* The inductive invariant *)

LEMMA DispatchingStep ==
    ASSUME OpsInv, NEW s \in Staff, Dispatching(s)
    PROVE  DeskInv'
<1>0. DeskInv /\ 0 \in 0..now /\ now \in 0..now
  BY DEF OpsInv, DeskInv
<1>1. driver \in [Rides -> Drivers \cup {NoDriver}]
  BY DEF OpsInv, IInv, TypeOK
<1>2. ASSUME NEW r \in Rides, TakeoverRead(s, r) \/ RenewCall(s, r)
      PROVE  DeskInv'
  <2>1. PICK at \in {"upsert", "renew"} : Calls(s, at, r, NoDriver, now)
    BY <1>2 DEF TakeoverRead, RenewCall
  <2>2. at \in DeskStep /\ at # "assign" /\ UNCHANGED <<now, lease, freed, lapsed>>
    BY <1>2 DEF DeskStep, TakeoverRead, RenewCall
  <2> QED
    BY <1>0, <2>1, <2>2, CallsEffect
<1>3. ASSUME NEW r \in Rides, HandBack(s, r)
      PROVE  DeskInv'
  BY <1>0, <1>3, WithdrawEffect DEF HandBack, DeskInv
<1>4. ASSUME NEW r \in Rides, ReleaseRead(s, r)
      PROVE  DeskInv'
  <2>1. Calls(s, "release", r, driver[r], 0) /\ UNCHANGED <<now, lease, freed, lapsed>>
    BY <1>4 DEF ReleaseRead
  <2>2. "release" \in DeskStep /\ driver[r] \in Drivers \cup {NoDriver}
    BY <1>1 DEF DeskStep
  <2> QED
    BY <1>0, <2>1, <2>2, CallsEffect
<1>5. ASSUME NEW r \in Rides, NEW d \in Drivers, AssignRead(s, r, d)
      PROVE  DeskInv'
  <2>1. Calls(s, "assign", r, d, 0) /\ UNCHANGED <<now, lease, freed, lapsed>>
    BY <1>5 DEF AssignRead
  <2>2. "assign" \in DeskStep
    BY DEF DeskStep
  <2> QED
    BY <1>0, <2>1, <2>2, CallsEffect
<1>6. CASE TakeoverWon(s)
  <2>1. desk[s].ride \in Rides /\ Grant(s)
    BY <1>0, <1>6 DEF TakeoverWon, DeskInv
  <2>2. lease' \in [Rides -> Lease]
    BY <1>0, <2>1, GrantEffect
  <2> DEFINE new == [at |-> "pause", ride |-> desk[s].ride,
                     driver |-> NoDriver, since |-> 0]
  <2>3. /\ new \in Desk /\ new.since <= now
        /\ new.at = "pause" /\ new.ride \in Rides
    BY <1>0, <2>1, OpsAssumption DEF DeskInv, Desk, DeskStep
  <2>4. desk' = [desk EXCEPT ![s] = new]
    BY <1>6 DEF TakeoverWon
  <2> HIDE DEF new
  <2> QED
    BY <1>0, <1>6, <2>2, <2>3, <2>4 DEF TakeoverWon, DeskInv
<1>7. CASE RenewWrite(s)
  <2>1. desk[s].ride \in Rides
    BY <1>0, <1>7 DEF RenewWrite, Answers, DeskInv
  <2>2. lease' \in [Rides -> Lease]
    BY <1>0, <1>7, <2>1, GrantEffect DEF RenewWrite, DeskInv
  <2> QED
    BY <1>0, <1>7, <2>2, AnswersEffect DEF RenewWrite
<1>8. CASE \/ TakeoverLost(s) \/ Pause(s) \/ AssignEnters(s)
           \/ ReleaseRefused(s) \/ DeskThrows(s)
           \/ \E h \in Handlers : ReleaseEnters(s, h)
  <2>1. PICK at : Answers(s, at)
    BY <1>8 DEF TakeoverLost, Pause, AssignEnters, ReleaseRefused, DeskThrows,
                ReleaseEnters
  <2>2. UNCHANGED <<now, lease, freed, lapsed>>
    BY <1>8 DEF TakeoverLost, Pause, AssignEnters, ReleaseRefused, DeskThrows,
                ReleaseEnters
  <2>3. lease' \in [Rides -> Lease]
    BY <1>0, <2>2 DEF DeskInv
  <2> QED
    BY <1>0, <2>1, <2>2, <2>3, AnswersEffect
<1> QED
  BY <1>2, <1>3, <1>4, <1>5, <1>6, <1>7, <1>8 DEF Dispatching

LEMMA NextDeskInv ==
    ASSUME OpsInv, [OpsNext]_opsVars
    PROVE  DeskInv'
<1>0. DeskInv
  BY DEF OpsInv
<1>1. CASE UNCHANGED opsVars
  BY <1>0, <1>1 DEF opsVars, DeskInv
<1>2. CASE Underlying /\ UNCHANGED <<now, lease, desk, freed, lapsed>>
  BY <1>0, <1>2 DEF DeskInv
<1>3. CASE \E s \in Staff : Dispatching(s)
  BY <1>3, DispatchingStep
<1>4. ASSUME NEW h \in Handlers, ReleaseOnAssignment(h)
      PROVE  DeskInv'
  <2>1. lease' \in [Rides -> Lease]
    BY <1>0, <1>4, WithdrawEffect DEF ReleaseOnAssignment, DeskInv
  <2> QED
    BY <1>0, <1>4, <2>1 DEF ReleaseOnAssignment, DeskInv
<1>5. ASSUME NEW h \in Handlers, AnnounceFreed(h) \/ HandlerThrows(h)
      PROVE  DeskInv'
  BY <1>0, <1>5 DEF AnnounceFreed, HandlerThrows, DeskInv
<1>6. ASSUME NEW r \in Rides, SweepReleases(r)
      PROVE  DeskInv'
  <2>1. lease' \in [Rides -> Lease]
    BY <1>0, <1>6, WithdrawEffect DEF SweepReleases
  <2> QED
    BY <1>0, <1>6, <2>1 DEF SweepReleases, DeskInv
<1>7. CASE SweepReads \/ SweepAborts
  BY <1>0, <1>7 DEF SweepReads, SweepAborts, DeskInv
<1>8. CASE TimePasses
  <2>1. now' \in 0..MaxTime /\ \A t \in Nat : t <= now => t <= now'
    BY <1>0, <1>8, OpsAssumption DEF TimePasses, DeskInv
  <2>2. \A s \in Staff : desk[s].since \in Nat
    BY <1>0, OpsAssumption DEF DeskInv, Desk
  <2> QED
    BY <1>0, <1>8, <2>1, <2>2 DEF TimePasses, DeskInv
<1>9. CASE OpsRestart
  <2>1. Waiting \in Desk /\ Waiting.since = 0 /\ Waiting.at = "idle" /\ 0 <= now
    BY <1>0, OpsAssumption DEF Waiting, Desk, DeskStep, DeskInv
  <2> QED
    BY <1>0, <1>9, <2>1 DEF OpsRestart, DeskInv
<1> QED
  BY <1>1, <1>2, <1>3, <1>4, <1>5, <1>6, <1>7, <1>8, <1>9 DEF OpsNext

LEMMA InitOpsInv == OpsInit => OpsInv
<1> SUFFICES ASSUME OpsInit PROVE DeskInv
  BY InitIInv DEF OpsInit, OpsInv
<1>1. Waiting \in Desk /\ Waiting.since = 0 /\ Waiting.at = "idle"
  BY OpsAssumption DEF Waiting, Desk, DeskStep
<1>2. Automatic \in Lease
  BY OpsAssumption DEF Automatic, Lease
<1> QED
  BY <1>1, <1>2, OpsAssumption DEF OpsInit, DeskInv

\* The inductive invariant.
LEMMA OpsInvariance == OpsSpec => []OpsInv
<1>1. OpsInv /\ [OpsNext]_opsVars => OpsInv'
  BY StepImplements, NextDeskInv, NextIInv DEF OpsInv
<1> QED
  BY <1>1, InitOpsInv, PTL DEF OpsSpec

-------------------------------------------------------------------------------

\* The variables of OpsControl keep their types.
THEOREM OpsTypeCorrect == OpsSpec => []OpsTypeOK
<1>1. OpsInv => OpsTypeOK
  BY DEF OpsInv, IInv, DeskInv, OpsTypeOK
<1> QED
  BY <1>1, OpsInvariance, PTL

\* No intervention is a second way to gain, lose or change a driver: whatever
\* Operations do, the ride behaves as RideLifecycle says, and so everything
\* proved of RideLifecycle holds under interventions too.
THEOREM OpsImplements == OpsSpec => ImplementsLifecycle
<1>1. OpsInit => Init
  BY DEF OpsInit
<1>2. OpsInv /\ [OpsNext]_opsVars => [Next]_vars
  BY StepImplements
<1> QED
  BY <1>1, <1>2, OpsInvariance, PTL DEF OpsSpec, ImplementsLifecycle, Spec

\* A live ride keeps its driver under interventions as well.
THEOREM OpsOwnership == OpsSpec => []OwnershipInv
  BY OpsImplements, Ownership, PTL DEF ImplementsLifecycle

\* A live lease is never handed to somebody else.
THEOREM LeaseSafe == OpsSpec => LiveLeaseNotStolen
<1> DEFINE Kept == \A r \in Rides :
                       Live(r, now) => lease'[r].owner \in {lease[r].owner, NoStaff}
<1>1. OpsInv /\ [OpsNext]_opsVars => [Kept]_opsVars
  <2> SUFFICES ASSUME OpsInv, OpsNext PROVE Kept
    OBVIOUS
  <2>0. DeskInv
    BY DEF OpsInv
  <2>1. CASE lease' = lease
    BY <2>1
  <2>2. ASSUME NEW r, Withdraw(r) PROVE Kept
    BY <2>0, <2>2, WithdrawEffect
  <2>3. ASSUME NEW s \in Staff, Grant(s), desk[s].ride \in Rides,
               Claimable(s) \/ Renewable(s)
        PROVE  Kept
    <3>1. lease[desk[s].ride].until \in Nat /\ desk[s].since \in Nat /\ now \in Nat
      BY <2>0, <2>3, OpsAssumption DEF DeskInv, Desk, Lease
    <3>2. desk[s].since <= now
      BY <2>0 DEF DeskInv
    <3>3. Live(desk[s].ride, now) => lease[desk[s].ride].owner \in {NoStaff, s}
      BY <2>3, <3>1, <3>2 DEF Claimable, Renewable, Live
    <3> QED
      BY <2>0, <2>3, <3>3, GrantEffect DEF Live
  <2>4. ASSUME NEW s \in Staff, Dispatching(s)
        PROVE  Kept
    <3>1. CASE \E r \in Rides : HandBack(s, r)
      BY <2>2, <3>1 DEF HandBack
    <3>2. CASE TakeoverWon(s)
      <4>1. Grant(s) /\ Claimable(s) /\ desk[s].ride \in Rides
        BY <2>0, <3>2 DEF TakeoverWon, DeskInv
      <4> QED
        BY <2>3, <4>1
    <3>3. CASE RenewWrite(s)
      <4>1. desk[s].ride \in Rides
        BY <2>0, <3>3 DEF RenewWrite, Answers, DeskInv
      <4> QED
        BY <2>1, <2>3, <3>3, <4>1 DEF RenewWrite
    <3> QED
      BY <2>1, <2>4, <3>1, <3>2, <3>3
         DEF Dispatching, TakeoverRead, TakeoverLost, Pause, RenewCall, AssignRead,
             AssignEnters, ReleaseRead, ReleaseEnters, ReleaseRefused, DeskThrows
  <2>5. CASE \E r \in Rides : SweepReleases(r)
    BY <2>2, <2>5 DEF SweepReleases
  <2>6. CASE \E h \in Handlers : ReleaseOnAssignment(h)
    BY <2>1, <2>2, <2>6 DEF ReleaseOnAssignment
  <2> QED
    BY <2>1, <2>4, <2>5, <2>6
       DEF OpsNext, AnnounceFreed, HandlerThrows, SweepReads, SweepAborts,
           TimePasses, OpsRestart
<1> QED
  BY <1>1, OpsInvariance, PTL DEF OpsSpec, LiveLeaseNotStolen
===============================================================================
