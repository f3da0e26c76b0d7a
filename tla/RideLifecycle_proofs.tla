------------------------- MODULE RideLifecycle_proofs -------------------------
(*****************************************************************************)
(* Proofs about RideLifecycle, for any number of rides, drivers and          *)
(* concurrent invocations.                                                   *)
(*****************************************************************************)
EXTENDS RideLifecycle, TLAPS

-------------------------------------------------------------------------------
(* What the helpers do *)

\* An invocation that starts holds what it was started with.
LEMMA BeginEffect ==
    ASSUME TypeOK, NEW h \in Handlers, NEW at \in Step, NEW r \in Rides,
           NEW d \in Drivers \cup {NoDriver}, NEW e \in SUBSET Status,
           Begin(h, at, r, d, e)
    PROVE  /\ call' \in [Handlers -> Call]
           /\ call[h].at = "idle"
           /\ call'[h] = [at |-> at, ride |-> r, driver |-> d, expected |-> e]
           /\ \A g \in Handlers \ {h} : call'[g] = call[g]
<1> DEFINE c == [at |-> at, ride |-> r, driver |-> d, expected |-> e]
<1>1. c \in Call
  BY DEF Call
<1>2. call' = [call EXCEPT ![h] = c] /\ call \in [Handlers -> Call]
  BY DEF Begin, TypeOK
<1> QED
  BY <1>1, <1>2 DEF Begin

\* An invocation that resumes keeps what it was started with, or ends.
LEMMA ResumeEffect ==
    ASSUME TypeOK, NEW h \in Handlers, NEW from \in Step, NEW to \in Step,
           Resume(h, from, to)
    PROVE  /\ call' \in [Handlers -> Call]
           /\ call[h].at = from
           /\ call'[h].at = to
           /\ to # "idle" => /\ call'[h].ride = call[h].ride
                             /\ call'[h].driver = call[h].driver
                             /\ call'[h].expected = call[h].expected
           /\ \A g \in Handlers \ {h} : call'[g] = call[g]
<1> DEFINE c == IF to = "idle" THEN Idle ELSE [call[h] EXCEPT !.at = to]
<1>1. call \in [Handlers -> Call] /\ call[h] \in Call
  BY DEF TypeOK
<1>2. Idle \in Call /\ Idle.at = "idle"
  BY DEF Idle, Call, Step
<1>3. [call[h] EXCEPT !.at = to] \in Call
  BY <1>1 DEF Call
<1>4. call' = [call EXCEPT ![h] = c]
  BY DEF Resume
<1>5. c \in Call /\ c.at = to
  BY <1>1, <1>2, <1>3 DEF Call
<1>6. to # "idle" => /\ c.ride = call[h].ride
                     /\ c.driver = call[h].driver
                     /\ c.expected = call[h].expected
  BY <1>1 DEF Call
<1>7. call' \in [Handlers -> Call] /\ call'[h] = c
  BY <1>1, <1>4, <1>5
<1>8. \A g \in Handlers \ {h} : call'[g] = call[g]
  BY <1>1, <1>4
<1> HIDE DEF c
<1> QED
  BY <1>5, <1>6, <1>7, <1>8 DEF Resume

\* A conditional UPDATE touches the status of one row.
LEMMA FlipEffect ==
    ASSUME TypeOK, NEW r \in Rides, NEW from, NEW new \in Status,
           Flip(r, from, new)
    PROVE  /\ status' \in [Rides -> Status]
           /\ status[r] \in from
           /\ status'[r] = new
           /\ \A q \in Rides \ {r} : status'[q] = status[q]
  BY DEF Flip, TypeOK

\* A dispatch loop that moves is one run.
LEMMA LoopMovesEffect ==
    ASSUME TypeOK, NEW r \in Rides, NEW from, NEW to \in RunState,
           LoopMoves(r, from, to)
    PROVE  /\ run' \in [Rides -> RunState]
           /\ run[r] = from
           /\ run'[r] = to
           /\ \A q \in Rides \ {r} : run'[q] = run[q]
  BY DEF LoopMoves, TypeOK

-------------------------------------------------------------------------------
(* The inductive invariant *)

IInv == TypeOK /\ OwnershipInv /\ CallInv

\* Decision steps of an invocation preserve the invariant.
LEMMA DecisionStep ==
    ASSUME IInv, NEW h \in Handlers, Decision(h)
    PROVE  IInv'
<1> USE DEF IInv
<1>0. TypeOK /\ h \in Handlers
  OBVIOUS
<1>1. ASSUME NEW r \in Rides, NEW d \in Drivers, AcceptCheck(h, r, d)
      PROVE  IInv'
  <2>1. Begin(h, "claim", r, d, {})
    BY <1>1 DEF AcceptCheck
  <2>2. /\ "claim" \in Step
        /\ d \in Drivers \cup {NoDriver}
        /\ {} \in SUBSET Status
    BY DEF Step, Status, TypeOK
  <2>3. /\ call' \in [Handlers -> Call]
        /\ call[h].at = "idle"
        /\ call'[h] = [at |-> "claim", ride |-> r, driver |-> d, expected |-> {}]
        /\ \A g \in Handlers \ {h} : call'[g] = call[g]
    BY <2>1, <2>2, BeginEffect
  <2> QED
    BY <1>1, <2>3 DEF AcceptCheck, Flip, row, TypeOK, OwnershipInv, CallInv, Busy, Ended, Status, RunState
<1>2. ASSUME ClaimWon(h)
      PROVE  IInv'
  <2>1. Resume(h, "claim", "lock")
    BY <1>2 DEF ClaimWon
  <2>2. "claim" \in Step /\ "lock" \in Step
    BY DEF Step
  <2>3. /\ call' \in [Handlers -> Call]
        /\ call[h].at = "claim"
        /\ call'[h].at = "lock"
        /\ call'[h].ride = call[h].ride
        /\ call'[h].driver = call[h].driver
        /\ call'[h].expected = call[h].expected
        /\ \A g \in Handlers \ {h} : call'[g] = call[g]
    BY <2>1, <2>2, ResumeEffect
  <2> QED
    BY <1>2, <2>3 DEF ClaimWon, Flip, row, TypeOK, OwnershipInv, CallInv, Busy, Ended, Status, RunState
<1>3. ASSUME ClaimLost(h)
      PROVE  IInv'
  <2>1. Resume(h, "claim", "idle")
    BY <1>3 DEF ClaimLost
  <2>2. "claim" \in Step /\ "idle" \in Step
    BY DEF Step
  <2>3. /\ call' \in [Handlers -> Call]
        /\ call[h].at = "claim"
        /\ call'[h].at = "idle"
        /\ \A g \in Handlers \ {h} : call'[g] = call[g]
    BY <2>1, <2>2, ResumeEffect
  <2> QED
    BY <1>3, <2>3 DEF ClaimLost, Flip, row, TypeOK, OwnershipInv, CallInv, Busy, Ended, Status, RunState
<1>4. ASSUME SetLock(h)
      PROVE  IInv'
  <2>1. Resume(h, "lock", "announce")
    BY <1>4 DEF SetLock
  <2>2. "lock" \in Step /\ "announce" \in Step
    BY DEF Step
  <2>3. /\ call' \in [Handlers -> Call]
        /\ call[h].at = "lock"
        /\ call'[h].at = "announce"
        /\ call'[h].ride = call[h].ride
        /\ call'[h].driver = call[h].driver
        /\ call'[h].expected = call[h].expected
        /\ \A g \in Handlers \ {h} : call'[g] = call[g]
    BY <2>1, <2>2, ResumeEffect
  <2> QED
    BY <1>4, <2>3 DEF SetLock, Flip, row, TypeOK, OwnershipInv, CallInv, Busy, Ended, Status, RunState
<1>5. ASSUME Announce(h)
      PROVE  IInv'
  <2>1. Resume(h, "announce", "idle")
    BY <1>5 DEF Announce
  <2>2. "announce" \in Step /\ "idle" \in Step
    BY DEF Step
  <2>3. /\ call' \in [Handlers -> Call]
        /\ call[h].at = "announce"
        /\ call'[h].at = "idle"
        /\ \A g \in Handlers \ {h} : call'[g] = call[g]
    BY <2>1, <2>2, ResumeEffect
  <2> QED
    BY <1>5, <2>3 DEF Announce, Flip, row, TypeOK, OwnershipInv, CallInv, Busy, Ended, Status, RunState
<1>6. ASSUME NEW r \in Rides, ReleaseDriver(h, r)
      PROVE  IInv'
  <2>1. Begin(h, "unlock", r, driver[r], {})
    BY <1>6 DEF ReleaseDriver
  <2>2. /\ "unlock" \in Step
        /\ driver[r] \in Drivers \cup {NoDriver}
        /\ {} \in SUBSET Status
    BY DEF Step, Status, TypeOK
  <2>3. /\ call' \in [Handlers -> Call]
        /\ call[h].at = "idle"
        /\ call'[h] = [at |-> "unlock", ride |-> r, driver |-> driver[r], expected |-> {}]
        /\ \A g \in Handlers \ {h} : call'[g] = call[g]
    BY <2>1, <2>2, BeginEffect
  <2> QED
    BY <1>6, <2>3 DEF ReleaseDriver, Flip, row, TypeOK, OwnershipInv, CallInv, Busy, Ended, Status, RunState
<1>7. ASSUME Unlock(h)
      PROVE  IInv'
  <2>1. Resume(h, "unlock", "idle")
    BY <1>7 DEF Unlock
  <2>2. "unlock" \in Step /\ "idle" \in Step
    BY DEF Step
  <2>3. /\ call' \in [Handlers -> Call]
        /\ call[h].at = "unlock"
        /\ call'[h].at = "idle"
        /\ \A g \in Handlers \ {h} : call'[g] = call[g]
    BY <2>1, <2>2, ResumeEffect
  <2> QED
    BY <1>7, <2>3 DEF Unlock, Flip, row, TypeOK, OwnershipInv, CallInv, Busy, Ended, Status, RunState
<1> QED
  BY <1>1, <1>2, <1>3, <1>4, <1>5, <1>6, <1>7 DEF Decision

\* Ending steps of an invocation preserve the invariant.
LEMMA EndingStep ==
    ASSUME IInv, NEW h \in Handlers, Ending(h)
    PROVE  IInv'
<1> USE DEF IInv
<1>0. TypeOK /\ h \in Handlers
  OBVIOUS
<1>1. ASSUME NEW r \in Rides, CompleteCheck(h, r)
      PROVE  IInv'
  <2>1. Begin(h, "complete", r, driver[r], {})
    BY <1>1 DEF CompleteCheck
  <2>2. /\ "complete" \in Step
        /\ driver[r] \in Drivers \cup {NoDriver}
        /\ {} \in SUBSET Status
    BY DEF Step, Status, TypeOK
  <2>3. /\ call' \in [Handlers -> Call]
        /\ call[h].at = "idle"
        /\ call'[h] = [at |-> "complete", ride |-> r, driver |-> driver[r], expected |-> {}]
        /\ \A g \in Handlers \ {h} : call'[g] = call[g]
    BY <2>1, <2>2, BeginEffect
  <2> QED
    BY <1>1, <2>3 DEF CompleteCheck, Flip, row, TypeOK, OwnershipInv, CallInv, Busy, Ended, Status, RunState
<1>2. ASSUME CompleteWrite(h)
      PROVE  IInv'
  <2>1. Resume(h, "complete", "idle")
    BY <1>2 DEF CompleteWrite
  <2>2. "complete" \in Step /\ "idle" \in Step
    BY DEF Step
  <2>3. /\ call' \in [Handlers -> Call]
        /\ call[h].at = "complete"
        /\ call'[h].at = "idle"
        /\ \A g \in Handlers \ {h} : call'[g] = call[g]
    BY <2>1, <2>2, ResumeEffect
  <2> QED
    BY <1>2, <2>3 DEF CompleteWrite, Flip, row, TypeOK, OwnershipInv, CallInv, Busy, Ended, Status, RunState
<1>3. ASSUME NEW r \in Rides, CancelCheck(h, r)
      PROVE  IInv'
  <2>1. Begin(h, "cancel", r, driver[r], {})
    BY <1>3 DEF CancelCheck
  <2>2. /\ "cancel" \in Step
        /\ driver[r] \in Drivers \cup {NoDriver}
        /\ {} \in SUBSET Status
    BY DEF Step, Status, TypeOK
  <2>3. /\ call' \in [Handlers -> Call]
        /\ call[h].at = "idle"
        /\ call'[h] = [at |-> "cancel", ride |-> r, driver |-> driver[r], expected |-> {}]
        /\ \A g \in Handlers \ {h} : call'[g] = call[g]
    BY <2>1, <2>2, BeginEffect
  <2> QED
    BY <1>3, <2>3 DEF CancelCheck, Flip, row, TypeOK, OwnershipInv, CallInv, Busy, Ended, Status, RunState
<1>4. ASSUME CancelWrite(h)
      PROVE  IInv'
  <2>1. Resume(h, "cancel", "abort")
    BY <1>4 DEF CancelWrite
  <2>2. "cancel" \in Step /\ "abort" \in Step
    BY DEF Step
  <2>3. /\ call' \in [Handlers -> Call]
        /\ call[h].at = "cancel"
        /\ call'[h].at = "abort"
        /\ call'[h].ride = call[h].ride
        /\ call'[h].driver = call[h].driver
        /\ call'[h].expected = call[h].expected
        /\ \A g \in Handlers \ {h} : call'[g] = call[g]
    BY <2>1, <2>2, ResumeEffect
  <2> QED
    BY <1>4, <2>3 DEF CancelWrite, Flip, row, TypeOK, OwnershipInv, CallInv, Busy, Ended, Status, RunState
<1>5. ASSUME NEW r \in Rides,
             NEW e \in {{"accepted"}, {"arrived"}, {"accepted", "arrived"}},
             TerminateCheck(h, r, e)
      PROVE  IInv'
  <2>1. Begin(h, "terminate", r, driver[r], e)
    BY <1>5 DEF TerminateCheck
  <2>2. /\ "terminate" \in Step
        /\ driver[r] \in Drivers \cup {NoDriver}
        /\ e \in SUBSET Status
    BY DEF Step, Status, TypeOK
  <2>3. /\ call' \in [Handlers -> Call]
        /\ call[h].at = "idle"
        /\ call'[h] = [at |-> "terminate", ride |-> r, driver |-> driver[r], expected |-> e]
        /\ \A g \in Handlers \ {h} : call'[g] = call[g]
    BY <2>1, <2>2, BeginEffect
  <2> QED
    BY <1>5, <2>3 DEF TerminateCheck, Flip, row, TypeOK, OwnershipInv, CallInv, Busy, Ended, Status, RunState
<1>6. ASSUME TerminateWon(h)
      PROVE  IInv'
  <2>1. Resume(h, "terminate", "abort")
    BY <1>6 DEF TerminateWon
  <2>2. "terminate" \in Step /\ "abort" \in Step
    BY DEF Step
  <2>3. /\ call' \in [Handlers -> Call]
        /\ call[h].at = "terminate"
        /\ call'[h].at = "abort"
        /\ call'[h].ride = call[h].ride
        /\ call'[h].driver = call[h].driver
        /\ call'[h].expected = call[h].expected
        /\ \A g \in Handlers \ {h} : call'[g] = call[g]
    BY <2>1, <2>2, ResumeEffect
  <2> QED
    BY <1>6, <2>3 DEF TerminateWon, Flip, row, TypeOK, OwnershipInv, CallInv, Busy, Ended, Status, RunState
<1>7. ASSUME TerminateLost(h)
      PROVE  IInv'
  <2>1. Resume(h, "terminate", "idle")
    BY <1>7 DEF TerminateLost
  <2>2. "terminate" \in Step /\ "idle" \in Step
    BY DEF Step
  <2>3. /\ call' \in [Handlers -> Call]
        /\ call[h].at = "terminate"
        /\ call'[h].at = "idle"
        /\ \A g \in Handlers \ {h} : call'[g] = call[g]
    BY <2>1, <2>2, ResumeEffect
  <2> QED
    BY <1>7, <2>3 DEF TerminateLost, Flip, row, TypeOK, OwnershipInv, CallInv, Busy, Ended, Status, RunState
<1>8. ASSUME AbortDispatch(h)
      PROVE  IInv'
  <2>1. Resume(h, "abort", "idle")
    BY <1>8 DEF AbortDispatch
  <2>2. "abort" \in Step /\ "idle" \in Step
    BY DEF Step
  <2>3. /\ call' \in [Handlers -> Call]
        /\ call[h].at = "abort"
        /\ call'[h].at = "idle"
        /\ \A g \in Handlers \ {h} : call'[g] = call[g]
    BY <2>1, <2>2, ResumeEffect
  <2> QED
    BY <1>8, <2>3 DEF AbortDispatch, Flip, row, TypeOK, OwnershipInv, CallInv, Busy, Ended, Status, RunState
<1> QED
  BY <1>1, <1>2, <1>3, <1>4, <1>5, <1>6, <1>7, <1>8 DEF Ending

\* The steps of a ride's own row preserve the invariant.
LEMMA TripStep ==
    ASSUME IInv, NEW r \in Rides, Trip(r) \/ ParkGivesUp(r)
    PROVE  IInv'
<1> USE DEF IInv
<1>1. CASE Request(r)
  <2>1. Flip(r, {"none"}, "searching") /\ "searching" \in Status
    BY <1>1 DEF Request, Status
  <2>2. /\ status' \in [Rides -> Status]
        /\ status[r] \in {"none"}
        /\ status'[r] = "searching"
        /\ \A q \in Rides \ {r} : status'[q] = status[q]
    BY <2>1, FlipEffect
  <2> QED
    BY <1>1, <2>2 DEF Request, row, TypeOK, OwnershipInv, CallInv, Busy, Ended, Status, RunState
<1>2. CASE Arrive(r)
  <2>1. Flip(r, {"accepted"}, "arrived") /\ "arrived" \in Status
    BY <1>2 DEF Arrive, Status
  <2>2. /\ status' \in [Rides -> Status]
        /\ status[r] \in {"accepted"}
        /\ status'[r] = "arrived"
        /\ \A q \in Rides \ {r} : status'[q] = status[q]
    BY <2>1, FlipEffect
  <2> QED
    BY <1>2, <2>2 DEF Arrive, row, TypeOK, OwnershipInv, CallInv, Busy, Ended, Status, RunState
<1>3. CASE Start(r)
  <2>1. Flip(r, {"arrived", "accepted"}, "in_progress") /\ "in_progress" \in Status
    BY <1>3 DEF Start, Status
  <2>2. /\ status' \in [Rides -> Status]
        /\ status[r] \in {"arrived", "accepted"}
        /\ status'[r] = "in_progress"
        /\ \A q \in Rides \ {r} : status'[q] = status[q]
    BY <2>1, FlipEffect
  <2> QED
    BY <1>3, <2>2 DEF Start, row, TypeOK, OwnershipInv, CallInv, Busy, Ended, Status, RunState
<1>4. CASE ParkGivesUp(r)
  <2>1. Flip(r, {"searching"}, "failed") /\ "failed" \in Status
    BY <1>4 DEF ParkGivesUp, Status
  <2>2. /\ status' \in [Rides -> Status]
        /\ status[r] \in {"searching"}
        /\ status'[r] = "failed"
        /\ \A q \in Rides \ {r} : status'[q] = status[q]
    BY <2>1, FlipEffect
  <2> QED
    BY <1>4, <2>2 DEF ParkGivesUp, row, TypeOK, OwnershipInv, CallInv, Busy, Ended, Status, RunState
<1> QED
  BY <1>1, <1>2, <1>3, <1>4 DEF Trip

\* The steps of a ride's dispatch loop preserve the invariant.
LEMMA SearchStep ==
    ASSUME IInv, NEW r \in Rides, Search(r) \/ LoopThrows(r)
    PROVE  IInv'
<1> USE DEF IInv
<1>1. ASSUME NEW from \in RunState \ {"off"}, NEW to \in RunState,
             LoopMoves(r, from, to), UNCHANGED <<row, lock, call>>
      PROVE  IInv'
  <2>1. /\ run' \in [Rides -> RunState]
        /\ run[r] # "off"
        /\ \A q \in Rides \ {r} : run'[q] = run[q]
    BY <1>1, LoopMovesEffect
  <2> QED
    BY <1>1, <2>1 DEF row, TypeOK, OwnershipInv, CallInv, Ended
<1>2. CASE FinaliseFail(r)
  <2>1. /\ LoopMoves(r, "offering_park", "stopping")
        /\ Flip(r, Status, "failed")
    BY <1>2 DEF FinaliseFail
  <2>2. "failed" \in Status /\ "stopping" \in RunState
    BY DEF Status, RunState
  <2>3. /\ status' \in [Rides -> Status]
        /\ status'[r] = "failed"
        /\ \A q \in Rides \ {r} : status'[q] = status[q]
    BY <2>1, <2>2, FlipEffect
  <2>4. /\ run' \in [Rides -> RunState]
        /\ run[r] = "offering_park"
        /\ \A q \in Rides \ {r} : run'[q] = run[q]
    BY <2>1, <2>2, LoopMovesEffect
  <2> QED
    BY <1>2, <2>3, <2>4 DEF FinaliseFail, TypeOK, OwnershipInv, CallInv, Busy, Ended
<1>3. \/ FinaliseFail(r)
      \/ \E from \in RunState \ {"off"}, to \in RunState :
             LoopMoves(r, from, to) /\ UNCHANGED <<row, lock, call>>
  BY DEF Search, LoopStops, LoopExhausted, FinaliseReadRow, FinaliseReadLock,
         ParkTakes, LoopCleanup, LoopThrows, RunState
<1> QED
  BY <1>1, <1>2, <1>3

\* A failed call and a restart preserve the invariant.
LEMMA FailureStep ==
    ASSUME IInv, Restart \/ \E h \in Handlers : Throw(h)
    PROVE  IInv'
<1> USE DEF IInv
<1>1. Idle \in Call /\ Idle.at = "idle"
  BY DEF Idle, Call, Step
<1>2. ASSUME NEW h \in Handlers, Throw(h)
      PROVE  IInv'
  <2>1. /\ call' \in [Handlers -> Call]
        /\ call'[h] = Idle
        /\ \A g \in Handlers \ {h} : call'[g] = call[g]
    BY <1>1, <1>2 DEF Throw, TypeOK
  <2> QED
    BY <1>1, <1>2, <2>1 DEF Throw, row, TypeOK, OwnershipInv, CallInv
<1>3. CASE Restart
  <2>1. PICK old \in SUBSET {r \in Rides : status[r] = "searching"} :
          status' = [r \in Rides |-> IF r \in old THEN "failed" ELSE status[r]]
    BY <1>3 DEF Restart
  <2>2. /\ run' = [r \in Rides |-> "off"]
        /\ call' = [h \in Handlers |-> Idle]
        /\ UNCHANGED <<driver, started, lock>>
    BY <1>3 DEF Restart
  <2>3. TypeOK'
    BY <1>1, <2>1, <2>2 DEF TypeOK, Status, RunState
  <2>4. OwnershipInv'
    BY <2>1, <2>2 DEF TypeOK, OwnershipInv, Busy
  <2>5. CallInv'
    BY <1>1, <2>1, <2>2 DEF CallInv
  <2> QED
    BY <2>3, <2>4, <2>5
<1> QED
  BY <1>2, <1>3

\* The invariant is inductive: it holds initially and every step keeps it.
LEMMA InitIInv == Init => IInv
<1> SUFFICES ASSUME Init PROVE IInv
  OBVIOUS
<1>1. Idle \in Call /\ Idle.at = "idle"
  BY DEF Idle, Call, Step
<1>2. TypeOK
  BY <1>1 DEF Init, TypeOK, Status, RunState
<1>3. OwnershipInv
  BY DEF Init, OwnershipInv, Busy
<1>4. CallInv
  BY <1>1 DEF Init, CallInv
<1> QED
  BY <1>2, <1>3, <1>4 DEF IInv

LEMMA NextIInv == IInv /\ [Next]_vars => IInv'
<1> SUFFICES ASSUME IInv, [Next]_vars PROVE IInv'
  OBVIOUS
<1>1. CASE Next
  BY <1>1, DecisionStep, EndingStep, TripStep, SearchStep, FailureStep DEF Next
<1>2. CASE UNCHANGED vars
  BY <1>2 DEF vars, IInv, TypeOK, OwnershipInv, CallInv
<1> QED
  BY <1>1, <1>2

\* Types, ownership and what suspended invocations rely on hold in every
\* reachable state.
THEOREM Invariance == Spec => []IInv
  BY InitIInv, NextIInv, PTL DEF Spec

\* The row and the bookkeeping of the handlers keep their types.
THEOREM TypeCorrect == Spec => []TypeOK
<1>1. IInv => TypeOK
  BY DEF IInv
<1> QED
  BY <1>1, Invariance, PTL

\* A live ride always has its driver and a completed ride was driven, whatever
\* the handlers of ride:cancel, ride:complete and the releases interleave to.
THEOREM Ownership == Spec => []OwnershipInv
<1>1. IInv => OwnershipInv
  BY DEF IInv
<1> QED
  BY <1>1, Invariance, PTL

\* However long a handler or a dispatch loop sleeps, what it has read and still
\* relies on is true when it resumes: a settlement, above all, is of a trip that
\* did begin and has the driver who is to be paid.
THEOREM StillValid == Spec => []CallInv
<1>1. IInv => CallInv
  BY DEF IInv
<1> QED
  BY <1>1, Invariance, PTL

-------------------------------------------------------------------------------
(* What a step may do to a row *)

Unchanged == UNCHANGED <<status, driver>>

\* The rides of S end; nothing else happens to a row.
Ends(S) ==
    /\ \A r \in S : status[r] # "none" /\ status'[r] \in Ended
    /\ \A r \in Rides \ S : status'[r] = status[r]
    /\ UNCHANGED driver

\* The status of one row goes from `from` to `to` and its driver becomes d.
Moves(r, from, to, d) ==
    /\ status[r] \in from
    /\ status' = [status EXCEPT ![r] = to]
    /\ driver' = [driver EXCEPT ![r] = d]

\* Invocation h's claim commits.
Claims(h) ==
    LET c == call[h] IN
    /\ ClaimWon(h)
    /\ c.ride \in Rides /\ c.driver \in Drivers
    /\ Moves(c.ride, {"searching"}, "accepted", c.driver)

\* Everything a step of the program can do to the rows of the rides.
RowStep ==
    \/ Unchanged
    \/ \E S \in SUBSET Rides : Ends(S)
    \/ \E h \in Handlers : Claims(h)
    \/ \E r \in Rides :
          \/ Moves(r, {"none"}, "searching", driver[r])
          \/ Moves(r, {"accepted", "arrived"}, "searching", NoDriver)
          \/ Moves(r, {"accepted"}, "arrived", driver[r])
          \/ Moves(r, {"accepted", "arrived"}, "in_progress", driver[r])

\* An unconditional final write ends exactly its ride.
LEMMA FlipEnds ==
    ASSUME TypeOK, NEW r \in Rides, NEW from, NEW new \in Ended,
           status[r] # "none", Flip(r, from, new), UNCHANGED driver
    PROVE  RowStep
<1>1. Ends({r})
  BY DEF Flip, Ends, TypeOK
<1> QED
  BY <1>1 DEF RowStep

\* No interleaving of the handlers does anything else to a row.
LEMMA NextRowStep ==
    ASSUME IInv, [Next]_vars
    PROVE  RowStep
<1> USE DEF IInv
<1>1. CASE UNCHANGED vars
  BY <1>1 DEF vars, RowStep, Unchanged
<1>2. ASSUME NEW h \in Handlers, Decision(h)
      PROVE  RowStep
  <2>1. CASE ClaimWon(h)
    <3>1. call[h].ride \in Rides /\ call[h].driver \in Drivers
      BY <2>1 DEF ClaimWon, Resume, CallInv
    <3>2. Moves(call[h].ride, {"searching"}, "accepted", call[h].driver)
      BY <2>1 DEF ClaimWon, Flip, Moves
    <3> QED
      BY <2>1, <3>1, <3>2 DEF RowStep, Claims
  <2>2. ASSUME NEW r \in Rides, ReleaseDriver(h, r)
        PROVE  RowStep
    BY <2>2 DEF ReleaseDriver, Flip, Moves, RowStep
  <2>3. CASE UNCHANGED row
    BY <2>3 DEF row, Unchanged, RowStep
  <2> QED
    BY <1>2, <2>1, <2>2, <2>3 DEF Decision, AcceptCheck, ClaimLost, SetLock, Announce, Unlock
<1>3. ASSUME NEW h \in Handlers, Ending(h)
      PROVE  RowStep
  <2>1. CASE CompleteWrite(h) \/ CancelWrite(h) \/ TerminateWon(h)
    <3>1. call[h].ride \in Rides /\ status[call[h].ride] # "none"
      BY <2>1 DEF CompleteWrite, CancelWrite, TerminateWon, Resume, CallInv
    <3>2. /\ \/ Flip(call[h].ride, Status, "completed")
             \/ Flip(call[h].ride, Status, "canceled")
             \/ Flip(call[h].ride, call[h].expected, "canceled")
          /\ UNCHANGED driver
      BY <2>1 DEF CompleteWrite, CancelWrite, TerminateWon
    <3>3. "completed" \in Ended /\ "canceled" \in Ended
      BY DEF Ended
    <3> QED
      BY <3>1, <3>2, <3>3, FlipEnds
  <2>2. CASE UNCHANGED row
    BY <2>2 DEF row, Unchanged, RowStep
  <2> QED
    BY <1>3, <2>1, <2>2 DEF Ending, CompleteCheck, CancelCheck, TerminateCheck,
       TerminateLost, AbortDispatch
<1>4. ASSUME NEW r \in Rides, Trip(r)
      PROVE  RowStep
  <2>1. driver = [driver EXCEPT ![r] = driver[r]]
    BY DEF TypeOK
  <2>2. \/ Moves(r, {"none"}, "searching", driver[r])
        \/ Moves(r, {"accepted"}, "arrived", driver[r])
        \/ Moves(r, {"accepted", "arrived"}, "in_progress", driver[r])
    BY <1>4, <2>1 DEF Trip, Request, Arrive, Start, Flip, Moves
  <2> QED
    BY <2>2 DEF RowStep
<1>5. ASSUME NEW r \in Rides, Search(r) \/ LoopThrows(r) \/ ParkGivesUp(r)
      PROVE  RowStep
  <2>1. CASE FinaliseFail(r) \/ ParkGivesUp(r)
    <3>1. status[r] # "none"
      BY <2>1 DEF FinaliseFail, LoopMoves, ParkGivesUp, Flip, CallInv
    <3>2. /\ Flip(r, Status, "failed") \/ Flip(r, {"searching"}, "failed")
          /\ UNCHANGED driver
      BY <2>1 DEF FinaliseFail, ParkGivesUp
    <3> QED
      BY <3>1, <3>2, FlipEnds DEF Ended
  <2>2. CASE UNCHANGED row
    BY <2>2 DEF row, Unchanged, RowStep
  <2> QED
    BY <1>5, <2>1, <2>2 DEF Search, LoopStops, LoopExhausted, FinaliseReadRow,
       FinaliseReadLock, ParkTakes, LoopCleanup, LoopThrows
<1>6. ASSUME NEW h \in Handlers, Throw(h)
      PROVE  RowStep
  BY <1>6 DEF Throw, row, Unchanged, RowStep
<1>7. CASE Restart
  <2>1. PICK old \in SUBSET {r \in Rides : status[r] = "searching"} :
          status' = [r \in Rides |-> IF r \in old THEN "failed" ELSE status[r]]
    BY <1>7 DEF Restart
  <2>2. Ends(old)
    BY <1>7, <2>1 DEF Restart, Ends, Ended
  <2> QED
    BY <2>2 DEF RowStep
<1> QED
  BY <1>1, <1>2, <1>3, <1>4, <1>5, <1>6, <1>7 DEF Next

\* "A start must never revive a ride the sweep already cancelled": no step of
\* any handler, release, late acceptance or restart takes a ride out of Ended.
THEOREM NeverRevived == Spec => EndedNeverRevived
<1>1. IInv /\ [Next]_vars =>
        [\A r \in Rides : status[r] \in Ended => status'[r] \in Ended]_vars
  <2> SUFFICES ASSUME IInv, [Next]_vars, NEW r \in Rides, status[r] \in Ended
               PROVE  status'[r] \in Ended
    OBVIOUS
  <2>1. RowStep
    BY NextRowStep
  <2> QED
    BY <2>1 DEF RowStep, Unchanged, Claims, Ends, Moves, Ended, IInv, TypeOK
<1> QED
  BY <1>1, Invariance, PTL DEF Spec, EndedNeverRevived

-------------------------------------------------------------------------------
(* The ride row implements RideAssignment *)

\* The initial rows are its initial state.
LEMMA InitRefines == Init => Assignment!Init
  BY DEF Init, Assignment!Init, PhaseOf

\* Every change of a row is a step of RideAssignment or invisible to it.
LEMMA StepRefines ==
    ASSUME IInv, RowStep
    PROVE  [Assignment!Next]_(Assignment!vars)
<1> DEFINE ph == [r \in Rides |-> PhaseOf(status[r])]
<1>0. TypeOK
  BY DEF IInv
<1>1. CASE Unchanged
  BY <1>1 DEF Unchanged, Assignment!vars
<1>2. ASSUME NEW S \in SUBSET Rides, Ends(S)
      PROVE  Assignment!Next
  <2>1. \A r \in S : ph[r] # "absent" /\ PhaseOf(status'[r]) = "closed"
    BY <1>0, <1>2 DEF Ends, Ended, PhaseOf, TypeOK, Status
  <2>2. ph' = [r \in Rides |-> IF r \in S THEN "closed" ELSE ph[r]]
    BY <1>2, <2>1 DEF Ends
  <2>3. Assignment!Close(S)
    BY <1>2, <2>2 DEF Ends, Assignment!Close
  <2> QED
    BY <2>1, <2>3 DEF Assignment!Next
<1>3. ASSUME NEW r \in Rides, NEW from, NEW to, NEW d, Moves(r, from, to, d)
      PROVE  /\ ph' = [ph EXCEPT ![r] = PhaseOf(to)]
             /\ ph[r] = PhaseOf(status[r])
  BY <1>0, <1>3 DEF Moves, TypeOK
<1> HIDE DEF ph
<1>4. ASSUME NEW r \in Rides, Moves(r, {"none"}, "searching", driver[r])
      PROVE  Assignment!Next
  <2>1. ph[r] = "absent" /\ ph' = [ph EXCEPT ![r] = "open"]
    BY <1>3, <1>4 DEF Moves, PhaseOf
  <2>2. driver' = driver
    BY <1>0, <1>4 DEF Moves, TypeOK
  <2> QED
    BY <2>1, <2>2 DEF ph, Assignment!Next, Assignment!Open, Assignment!Move
<1>5. ASSUME NEW r \in Rides, NEW d \in Drivers, Moves(r, {"searching"}, "accepted", d)
      PROVE  Assignment!Next
  <2>1. ph[r] = "open" /\ ph' = [ph EXCEPT ![r] = "owned"]
    BY <1>3, <1>5 DEF Moves, PhaseOf
  <2> QED
    BY <1>5, <2>1 DEF ph, Moves, Assignment!Next, Assignment!Claim, Assignment!Move
<1>6. ASSUME NEW r \in Rides, Moves(r, {"accepted", "arrived"}, "searching", NoDriver)
      PROVE  Assignment!Next
  <2>1. ph[r] = "owned" /\ ph' = [ph EXCEPT ![r] = "open"]
    BY <1>3, <1>6 DEF Moves, PhaseOf
  <2> QED
    BY <1>6, <2>1 DEF ph, Moves, Assignment!Next, Assignment!Vacate, Assignment!Move
<1>7. ASSUME NEW r \in Rides, Moves(r, {"accepted"}, "arrived", driver[r])
      PROVE  UNCHANGED Assignment!vars
  <2>1. ph[r] = "owned" /\ ph' = [ph EXCEPT ![r] = "owned"]
    BY <1>3, <1>7 DEF Moves, PhaseOf
  <2>2. driver' = driver /\ ph' = ph
    BY <1>0, <1>7, <2>1 DEF ph, Moves, TypeOK
  <2> QED
    BY <2>2 DEF ph, Assignment!vars
<1>8. ASSUME NEW r \in Rides, Moves(r, {"accepted", "arrived"}, "in_progress", driver[r])
      PROVE  Assignment!Next
  <2>1. ph[r] = "owned" /\ ph' = [ph EXCEPT ![r] = "riding"]
    BY <1>3, <1>8 DEF Moves, PhaseOf
  <2>2. driver' = driver
    BY <1>0, <1>8 DEF Moves, TypeOK
  <2> QED
    BY <2>1, <2>2 DEF ph, Assignment!Next, Assignment!Depart, Assignment!Move
<1> QED
  BY <1>1, <1>2, <1>4, <1>5, <1>6, <1>7, <1>8 DEF RowStep, Claims

\* One winner per opening, no driver swapped, no trip reopened: the handlers
\* implement RideAssignment.
THEOREM Implementation == Spec => ImplementsAssignment
<1>1. IInv /\ [Next]_vars => [Assignment!Next]_(Assignment!vars)
  BY NextRowStep, StepRefines
<1> QED
  BY <1>1, InitRefines, Invariance, PTL DEF Spec, ImplementsAssignment, Assignment!Spec

===============================================================================
