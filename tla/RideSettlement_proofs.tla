------------------------- MODULE RideSettlement_proofs -------------------------
(***************************************************************************)
(* For any number of rides, invocations and attempts: no completed ride    *)
(* loses its money unnoticed, and no quarantined ride is charged.          *)
(*                                                                         *)
(* Accounted is not inductive: that dropping a flag is harmless rests on   *)
(* the posting behind it, which the invocation made or saw before it was   *)
(* suspended.  BackedInv says so, and the pair is inductive because ledger *)
(* entries are only ever added.                                            *)
(***************************************************************************)
EXTENDS RideSettlement, TLAPS

IInv == TypeOK /\ BackedInv /\ Accounted

-------------------------------------------------------------------------------
(* What the helpers do *)

\* An invocation that starts holds its ride and nothing else.
LEMMA BeginEffect ==
    ASSUME TypeOK, NEW p \in Payers, NEW at \in Step, NEW r \in Rides,
           Begin(p, at, r)
    PROVE  /\ call' \in [Payers -> Call]
           /\ call[p].at = "idle"
           /\ call'[p] = [at |-> at, ride |-> r, amount |-> 0]
           /\ \A q \in Payers \ {p} : call'[q] = call[q]
<1>1. [at |-> at, ride |-> r, amount |-> 0] \in Call
  BY SettlementAssumption DEF Call
<1> QED
  BY <1>1 DEF Begin, TypeOK

\* An invocation that resumes keeps its ride and amount, or ends.
LEMMA ResumeEffect ==
    ASSUME TypeOK, NEW p \in Payers, NEW from, NEW to \in Step, Resume(p, from, to)
    PROVE  /\ call' \in [Payers -> Call]
           /\ call[p].at = from
           /\ call'[p].at = to
           /\ \/ call'[p] = Idle
              \/ call'[p].ride = call[p].ride /\ call'[p].amount = call[p].amount
           /\ to = "idle" => call'[p] = Idle
           /\ \A q \in Payers \ {p} : call'[q] = call[q]
<1> DEFINE c == IF to = "idle" THEN Idle ELSE [call[p] EXCEPT !.at = to]
<1>1. call \in [Payers -> Call] /\ call[p] \in Call
  BY DEF TypeOK
<1>2. Idle \in Call /\ Idle.at = "idle"
  BY SettlementAssumption DEF Idle, Call, Step
<1>3. [call[p] EXCEPT !.at = to] \in Call
  BY <1>1 DEF Call
<1>4. call' = [call EXCEPT ![p] = c]
  BY DEF Resume
<1>5. c \in Call /\ c.at = to
  BY <1>1, <1>2, <1>3 DEF Call
<1>6. c = Idle \/ (c.ride = call[p].ride /\ c.amount = call[p].amount)
  BY <1>1 DEF Call
<1>7. to = "idle" => c = Idle
  OBVIOUS
<1> HIDE DEF c
<1> QED
  BY <1>1, <1>4, <1>5, <1>6, <1>7 DEF Resume

\* A write by primary key changes one row.
LEMMA WriteEffect ==
    ASSUME TypeOK, NEW r \in Rides, NEW new \in RideRow, Write(r, new)
    PROVE  /\ ride' \in [Rides -> RideRow]
           /\ ride'[r] = new
           /\ \A s \in Rides \ {r} : ride'[s] = ride[s]
  BY DEF Write, TypeOK

\* A posting adds one charge to one ride.
LEMMA ChargeEffect ==
    ASSUME TypeOK, NEW r \in Rides, Charge(r)
    PROVE  /\ ledger' \in [Rides -> Ledger]
           /\ ledger'[r].charged = ledger[r].charged + 1
           /\ ledger'[r].refunded = ledger[r].refunded
           /\ \A s \in Rides \ {r} : ledger'[s] = ledger[s]
<1>1. ledger[r] \in Ledger /\ ledger \in [Rides -> Ledger]
  BY DEF TypeOK
<1>2. [ledger[r] EXCEPT !.charged = @ + 1] \in Ledger
  BY <1>1, SettlementAssumption DEF Charge, Ledger
<1> QED
  BY <1>1, <1>2 DEF Charge, Ledger

-------------------------------------------------------------------------------
(* The invariant, invocation by invocation *)

Backed(p) ==
    LET c == call[p] IN
    /\ IF c.at = "idle" THEN c.ride = NoRide ELSE c.ride \in Rides
    /\ c.at \in {"clear", "unhold"} => ledger[c.ride].charged > 0
    /\ c.at = "finish" => Settled(c.ride)
    /\ c.at = "refund" => c.amount > 0 /\ ledger[c.ride].charged > 0

\* What every step does to rows and ledger, whoever takes it: postings are never
\* undone, a flag is dropped only with a posting or a void behind it, a ride is
\* completed only when it is settled, and refunds follow charges.
Grows ==
    \A r \in Rides :
        /\ ledger'[r].charged >= ledger[r].charged
        /\ Settled(r) => Settled(r)'
        /\ ride'[r].completed => ride[r].completed \/ Settled(r)'
        /\ ledger'[r].refunded > 0 => ledger'[r].charged > 0

\* Growing rows keep every suspended invocation backed.
LEMMA GrowsBacked ==
    ASSUME TypeOK, TypeOK', Grows, NEW q \in Payers, Backed(q), call'[q] = call[q]
    PROVE  Backed(q)'
<1>1. call[q].at # "idle" => call[q].ride \in Rides
  BY DEF Backed
<1>2. \A r \in Rides : ledger[r].charged > 0 => ledger'[r].charged > 0
  BY DEF Grows, TypeOK, Ledger
<1> QED
  BY <1>1, <1>2 DEF Backed, Grows

\* The rest of the invariant is about the worker and follows from what a
\* handler leaves alone.
LEMMA HandlerFrame ==
    ASSUME IInv, NEW p \in Handlers, TypeOK', Grows, Backed(p)',
           \A q \in Payers \ {p} : call'[q] = call[q],
           \A r \in Rides : ride'[r].retries = ride[r].retries,
           batch' = batch
    PROVE  IInv'
<1>1. \A q \in Payers : Backed(q)
  BY DEF IInv, BackedInv, Backed
<1>2. \A q \in Payers : Backed(q)'
  BY <1>1, GrowsBacked DEF IInv
<1>3. call'[Worker] = call[Worker]
  BY SettlementAssumption DEF Payers
<1>4. Accounted'
  BY DEF IInv, Accounted, Grows
<1> QED
  BY <1>2, <1>3, <1>4 DEF IInv, BackedInv, Backed, Grows

\* ... and the same for the worker, which must look after its batch.
LEMMA WorkerFrame ==
    ASSUME IInv, TypeOK', Grows, Backed(Worker)',
           \A q \in Handlers : call'[q] = call[q],
           call'[Worker].ride \notin batch',
           \A r \in Rides : r \in batch' \/ call'[Worker].ride = r
                            => ride'[r].retries < MaxAttempts
    PROVE  IInv'
<1>1. \A q \in Payers : Backed(q)
  BY DEF IInv, BackedInv, Backed
<1>2. \A q \in Payers : Backed(q)'
  BY <1>1, GrowsBacked DEF IInv, Payers
<1>3. Accounted'
  BY DEF IInv, Accounted, Grows
<1> QED
  BY <1>2, <1>3 DEF IInv, BackedInv, Backed, Grows

-------------------------------------------------------------------------------
(* Every step preserves the invariant *)

\* A suspended invocation's ride is a ride.
LEMMA CallRide ==
    ASSUME IInv, NEW p \in Payers, call[p].at # "idle"
    PROVE  call[p].ride \in Rides
  BY DEF IInv, BackedInv

\* Steps that leave rows and ledger alone, and begin or resume without a claim
\* about either.
LEMMA QuietStep ==
    ASSUME IInv, NEW p \in Handlers, UNCHANGED <<ride, ledger, batch>>,
           call' \in [Payers -> Call], Backed(p)',
           \A q \in Payers \ {p} : call'[q] = call[q]
    PROVE  IInv'
<1>1. TypeOK'
  BY DEF IInv, TypeOK
<1>2. Grows
  BY DEF IInv, TypeOK, BackedInv, Grows, Settled, Ledger
<1> QED
  BY <1>1, <1>2, HandlerFrame

\* A write that keeps a settled ride settled, and completes only a settled one.
LEMMA WriteGrows ==
    ASSUME IInv, NEW r \in Rides, NEW new \in RideRow, Write(r, new), UNCHANGED ledger,
           Settled(r) => \/ ledger[r].charged > 0
                         \/ new.failed \/ new.held \/ new.voided,
           new.completed => ride[r].completed \/ Settled(r)
    PROVE  Grows
<1>1. TypeOK /\ BackedInv
  BY DEF IInv
<1>2. /\ ride'[r] = new
      /\ \A s \in Rides \ {r} : ride'[s] = ride[s]
  BY <1>1, WriteEffect
<1>3. \A s \in Rides : Settled(s) => Settled(s)'
  BY <1>2 DEF Settled
<1>4. \A s \in Rides : ride'[s].completed => ride[s].completed \/ Settled(s)'
  BY <1>2, <1>3
<1>5. \A s \in Rides : /\ ledger'[s].charged >= ledger[s].charged
                       /\ ledger'[s].refunded > 0 => ledger'[s].charged > 0
  BY <1>1 DEF TypeOK, Ledger, BackedInv
<1> QED
  BY <1>3, <1>4, <1>5 DEF Grows

\* A posting that leaves the rows alone.
LEMMA ChargeGrows ==
    ASSUME IInv, NEW r \in Rides, Charge(r), UNCHANGED ride
    PROVE  Grows
  BY ChargeEffect DEF IInv, Grows, Settled, TypeOK, Ledger, BackedInv

\* Completion.
LEMMA SettlementStep ==
    ASSUME IInv, NEW p \in Handlers, Settlement(p)
    PROVE  IInv'
<1> DEFINE r == call[p].ride
<1>0. TypeOK /\ p \in Payers /\ BackedInv
  BY DEF IInv, Payers
<1>1. ASSUME NEW s \in Rides, SettleCheck(p, s)
      PROVE  IInv'
  <2>1. Begin(p, "settle", s) /\ "settle" \in Step
    BY <1>1 DEF SettleCheck, Step
  <2>2. /\ call' \in [Payers -> Call]
        /\ call'[p] = [at |-> "settle", ride |-> s, amount |-> 0]
        /\ \A q \in Payers \ {p} : call'[q] = call[q]
    BY <1>0, <2>1, BeginEffect
  <2>3. Backed(p)'
    BY <2>2 DEF Backed
  <2> QED
    BY <1>1, <2>2, <2>3, QuietStep DEF SettleCheck
<1>2. CASE SettleHold(p)
  <2>1. Resume(p, "settle", "finish") /\ "finish" \in Step
    BY <1>2 DEF SettleHold, Step
  <2>2. r \in Rides
    BY <1>0, <2>1, CallRide DEF Resume
  <2>3. ride[r] \in RideRow /\ Write(r, [ride[r] EXCEPT !.held = TRUE])
    BY <1>0, <1>2, <2>2 DEF SettleHold, TypeOK
  <2>4. [ride[r] EXCEPT !.held = TRUE] \in RideRow
    BY <2>3 DEF RideRow
  <2>5. TypeOK'
    BY <1>0, <1>2, <2>1, <2>2, <2>3, <2>4, ResumeEffect, WriteEffect DEF SettleHold, TypeOK
  <2>6. Grows /\ \A s \in Rides : ride'[s].retries = ride[s].retries
    <3>1. Grows
      BY <1>2, <2>2, <2>3, <2>4, WriteGrows DEF SettleHold, RideRow
    <3>2. \A s \in Rides : ride'[s].retries = ride[s].retries
      BY <1>0, <2>2, <2>3, <2>4, WriteEffect DEF RideRow
    <3> QED
      BY <3>1, <3>2
  <2>7. Backed(p)'
    BY <1>0, <2>1, <2>2, <2>3, <2>4, ResumeEffect, WriteEffect DEF Backed, Settled, Idle, RideRow
  <2> QED
    BY <1>0, <1>2, <2>1, <2>5, <2>6, <2>7, ResumeEffect, HandlerFrame DEF SettleHold
<1>3. CASE SettlePost(p)
  <2>1. Resume(p, "settle", "finish") /\ "finish" \in Step
    BY <1>3 DEF SettlePost, Step
  <2>2. r \in Rides /\ Charge(r)
    BY <1>0, <1>3, <2>1, CallRide DEF Resume, SettlePost
  <2>3. TypeOK'
    BY <1>0, <1>3, <2>1, <2>2, ResumeEffect, ChargeEffect DEF SettlePost, TypeOK
  <2>4. Grows
    BY <1>0, <1>3, <2>2, ChargeEffect DEF SettlePost, Grows, Settled, TypeOK, Ledger, BackedInv
  <2>5. Backed(p)'
    BY <1>0, <2>1, <2>2, ResumeEffect, ChargeEffect DEF Backed, Settled, Idle, TypeOK, Ledger
  <2> QED
    BY <1>0, <1>3, <2>1, <2>3, <2>4, <2>5, ResumeEffect, HandlerFrame DEF SettlePost
<1>4. CASE SettleFails(p)
  <2> DEFINE new == [ride[r] EXCEPT !.failed = TRUE, !.nextRetry = "waiting"]
  <2>1. Resume(p, "settle", "finish") /\ "finish" \in Step
    BY <1>4 DEF SettleFails, Step
  <2>2. r \in Rides
    BY <1>0, <2>1, CallRide DEF Resume
  <2>3. ride[r] \in RideRow /\ Write(r, new)
    BY <1>0, <1>4, <2>2 DEF SettleFails, TypeOK
  <2>4. /\ new \in RideRow
        /\ new.failed /\ new.retries = ride[r].retries
        /\ new.completed = ride[r].completed
    BY <2>3 DEF RideRow
  <2> HIDE DEF new
  <2>5. /\ ledger' \in [Rides -> Ledger]
        /\ \A s \in Rides : /\ ledger'[s].charged >= ledger[s].charged
                             /\ ledger'[s].refunded = ledger[s].refunded
    <3>1. CASE Charge(r)
      BY <1>0, <2>2, <3>1, ChargeEffect DEF TypeOK, Ledger
    <3>2. CASE UNCHANGED ledger
      BY <1>0, <3>2 DEF TypeOK, Ledger
    <3> QED
      BY <1>4, <3>1, <3>2 DEF SettleFails
  <2>6. TypeOK'
    BY <1>0, <1>4, <2>1, <2>2, <2>3, <2>4, <2>5, ResumeEffect, WriteEffect DEF SettleFails, TypeOK
  <2>7. Grows /\ \A s \in Rides : ride'[s].retries = ride[s].retries
    <3>1. /\ ride'[r] = new
          /\ \A s \in Rides \ {r} : ride'[s] = ride[s]
      BY <1>0, <2>2, <2>3, <2>4, WriteEffect
    <3>2. \A s \in Rides : /\ ledger[s].charged > 0 => ledger'[s].charged > 0
                           /\ ledger[s].refunded > 0 => ledger[s].charged > 0
      BY <1>0, <2>5 DEF TypeOK, Ledger, BackedInv
    <3>3. \A s \in Rides : /\ Settled(s) => Settled(s)'
                           /\ ride'[s].completed => ride[s].completed
      BY <2>2, <2>4, <3>1, <3>2 DEF Settled
    <3> QED
      BY <2>4, <2>5, <3>1, <3>2, <3>3 DEF Grows
  <2>8. Backed(p)'
    BY <1>0, <2>1, <2>2, <2>3, <2>4, ResumeEffect, WriteEffect DEF Backed, Settled, Idle
  <2> QED
    BY <1>0, <1>4, <2>1, <2>6, <2>7, <2>8, ResumeEffect, HandlerFrame DEF SettleFails
<1>5. CASE SettleFinish(p)
  <2>1. Resume(p, "finish", "idle") /\ "idle" \in Step
    BY <1>5 DEF SettleFinish, Step
  <2>2. r \in Rides /\ Settled(r)
    BY <1>0, <2>1, CallRide DEF Resume, BackedInv
  <2>3. ride[r] \in RideRow /\ Write(r, [ride[r] EXCEPT !.completed = TRUE])
    BY <1>0, <1>5, <2>2 DEF SettleFinish, TypeOK
  <2>4. [ride[r] EXCEPT !.completed = TRUE] \in RideRow
    BY <2>3 DEF RideRow
  <2>5. TypeOK'
    BY <1>0, <1>5, <2>1, <2>2, <2>3, <2>4, ResumeEffect, WriteEffect DEF SettleFinish, TypeOK
  <2>6. Grows /\ \A s \in Rides : ride'[s].retries = ride[s].retries
    <3>1. Grows
      BY <1>5, <2>2, <2>3, <2>4, WriteGrows DEF SettleFinish, RideRow, Settled
    <3>2. \A s \in Rides : ride'[s].retries = ride[s].retries
      BY <1>0, <2>2, <2>3, <2>4, WriteEffect DEF RideRow
    <3> QED
      BY <3>1, <3>2
  <2>7. Backed(p)'
    BY <1>0, <2>1, ResumeEffect DEF Backed, Idle
  <2> QED
    BY <1>0, <1>5, <2>1, <2>5, <2>6, <2>7, ResumeEffect, HandlerFrame DEF SettleFinish
<1> QED
  BY <1>1, <1>2, <1>3, <1>4, <1>5 DEF Settlement

\* The retry of an operator or of the worker: the part that touches the rows.
LEMMA RetryStep ==
    ASSUME IInv, NEW p \in Payers, Retry(p)
    PROVE  /\ TypeOK' /\ Grows /\ Backed(p)'
           /\ \A q \in Payers \ {p} : call'[q] = call[q]
           /\ \A s \in Rides : ride'[s].retries = ride[s].retries
           /\ UNCHANGED batch
           /\ call'[p].ride \in {call[p].ride, NoRide}
<1> DEFINE r == call[p].ride
<1>0. TypeOK /\ BackedInv
  BY DEF IInv
<1>1. CASE CountEntries(p)
  <2> DEFINE to == IF ledger[r].charged = 0 THEN "post" ELSE "clear"
  <2>1. Resume(p, "count", to) /\ to \in Step /\ UNCHANGED <<ride, ledger, batch>>
    BY <1>1 DEF CountEntries, Step
  <2>2. r \in Rides
    BY <2>1, CallRide DEF Resume
  <2>3. ledger[r].charged = 0 \/ ledger[r].charged > 0
    BY <1>0, <2>2 DEF TypeOK, Ledger
  <2>4. /\ call' \in [Payers -> Call]
        /\ call'[p].at = to /\ to \in {"post", "clear"}
        /\ call'[p].ride = r
        /\ \A q \in Payers \ {p} : call'[q] = call[q]
    BY <1>0, <2>1, ResumeEffect DEF Idle
  <2>5. Backed(p)'
    BY <2>1, <2>2, <2>3, <2>4 DEF Backed
  <2>6. Grows
    BY <1>0, <2>1 DEF TypeOK, BackedInv, Grows, Settled, Ledger
  <2> QED
    BY <1>0, <2>1, <2>4, <2>5, <2>6 DEF TypeOK
<1>2. CASE RetryPost(p)
  <2>1. Resume(p, "post", "clear") /\ "clear" \in Step /\ UNCHANGED <<ride, batch>>
    BY <1>2 DEF RetryPost, Step
  <2>2. r \in Rides /\ Charge(r)
    BY <1>2, <2>1, CallRide DEF Resume, RetryPost
  <2>3. /\ call' \in [Payers -> Call]
        /\ call'[p].at = "clear" /\ call'[p].ride = r
        /\ \A q \in Payers \ {p} : call'[q] = call[q]
    BY <1>0, <2>1, ResumeEffect DEF Idle
  <2>4. ledger' \in [Rides -> Ledger] /\ ledger'[r].charged > 0
    BY <1>0, <2>2, ChargeEffect DEF TypeOK, Ledger
  <2>5. Backed(p)'
    BY <2>2, <2>3, <2>4 DEF Backed
  <2>6. Grows
    BY <2>1, <2>2, ChargeGrows
  <2> QED
    BY <1>0, <2>1, <2>3, <2>4, <2>5, <2>6 DEF TypeOK
<1>3. CASE ClearFailed(p)
  <2> DEFINE to == IF p = Worker THEN "recovered" ELSE "idle"
             new == [ride[r] EXCEPT !.failed = FALSE]
  <2>1. Resume(p, "clear", to) /\ to \in Step /\ UNCHANGED <<ledger, batch>>
    BY <1>3 DEF ClearFailed, Step
  <2>2. r \in Rides /\ ledger[r].charged > 0
    BY <1>0, <2>1, CallRide DEF Resume, BackedInv
  <2>3. ride[r] \in RideRow /\ Write(r, new)
    BY <1>0, <1>3, <2>2 DEF ClearFailed, TypeOK
  <2>4. new \in RideRow /\ new.retries = ride[r].retries /\ new.completed = ride[r].completed
    BY <2>3 DEF RideRow
  <2>5. /\ call' \in [Payers -> Call]
        /\ call'[p].at = to /\ to \in {"recovered", "idle"}
        /\ call'[p].ride \in {r, NoRide}
        /\ IF to = "idle" THEN call'[p].ride = NoRide ELSE call'[p].ride = r
        /\ \A q \in Payers \ {p} : call'[q] = call[q]
    BY <1>0, <2>1, ResumeEffect DEF Idle
  <2> HIDE DEF new, to
  <2>6. Backed(p)'
    BY <2>2, <2>5 DEF Backed
  <2>7. Grows
    BY <2>1, <2>2, <2>3, <2>4, WriteGrows
  <2>8. /\ ride' \in [Rides -> RideRow]
        /\ \A s \in Rides : ride'[s].retries = ride[s].retries
    BY <1>0, <2>2, <2>3, <2>4, WriteEffect
  <2> QED
    BY <1>0, <2>1, <2>5, <2>6, <2>7, <2>8 DEF TypeOK
<1> QED
  BY <1>1, <1>2, <1>3 DEF Retry

\* Operators: starting a retry, releasing, voiding.
LEMMA ReviewStep ==
    ASSUME IInv, NEW p \in Handlers, Review(p)
    PROVE  IInv'
<1> DEFINE r == call[p].ride
<1>0. TypeOK /\ p \in Payers /\ BackedInv
  BY DEF IInv, Payers
<1>1. ASSUME NEW s \in Rides, RetryRead(p, s)
      PROVE  IInv'
  <2>1. /\ Begin(p, "count", s) /\ "count" \in Step
        /\ UNCHANGED <<ride, ledger, batch>>
    BY <1>1 DEF RetryRead, Step
  <2>2. /\ call' \in [Payers -> Call]
        /\ call'[p] = [at |-> "count", ride |-> s, amount |-> 0]
        /\ \A q \in Payers \ {p} : call'[q] = call[q]
    BY <1>0, <2>1, BeginEffect
  <2>3. Backed(p)'
    BY <2>2 DEF Backed
  <2> QED
    BY <2>1, <2>2, <2>3, QuietStep
<1>2. ASSUME NEW s \in Rides, ReleaseRead(p, s)
      PROVE  IInv'
  <2>1. /\ Begin(p, "release", s) /\ "release" \in Step
        /\ UNCHANGED <<ride, ledger, batch>>
    BY <1>2 DEF ReleaseRead, Step
  <2>2. /\ call' \in [Payers -> Call]
        /\ call'[p] = [at |-> "release", ride |-> s, amount |-> 0]
        /\ \A q \in Payers \ {p} : call'[q] = call[q]
    BY <1>0, <2>1, BeginEffect
  <2>3. Backed(p)'
    BY <2>2 DEF Backed
  <2> QED
    BY <2>1, <2>2, <2>3, QuietStep
<1>3. ASSUME NEW s \in Rides, VoidRead(p, s)
      PROVE  IInv'
  <2>1. /\ Begin(p, "reverse", s) /\ "reverse" \in Step
        /\ UNCHANGED <<ride, ledger, batch>>
    BY <1>3 DEF VoidRead, Step
  <2>2. /\ call' \in [Payers -> Call]
        /\ call'[p] = [at |-> "reverse", ride |-> s, amount |-> 0]
        /\ \A q \in Payers \ {p} : call'[q] = call[q]
    BY <1>0, <2>1, BeginEffect
  <2>3. Backed(p)'
    BY <2>2 DEF Backed
  <2> QED
    BY <2>1, <2>2, <2>3, QuietStep
<1>4. CASE ReleasePost(p)
  <2>1. Resume(p, "release", "unhold") /\ "unhold" \in Step /\ UNCHANGED <<ride, batch>>
    BY <1>4 DEF ReleasePost, Step
  <2>2. r \in Rides /\ Charge(r)
    BY <1>0, <1>4, <2>1, CallRide DEF Resume, ReleasePost
  <2>3. /\ call' \in [Payers -> Call]
        /\ call'[p].at = "unhold" /\ call'[p].ride = r
        /\ \A q \in Payers \ {p} : call'[q] = call[q]
    BY <1>0, <2>1, ResumeEffect DEF Idle
  <2>4. ledger' \in [Rides -> Ledger] /\ ledger'[r].charged > 0
    BY <1>0, <2>2, ChargeEffect DEF TypeOK, Ledger
  <2>5. Backed(p)'
    BY <2>2, <2>3, <2>4 DEF Backed
  <2>6. Grows
    BY <2>1, <2>2, ChargeGrows
  <2>7. TypeOK'
    BY <1>0, <2>1, <2>3, <2>4 DEF TypeOK
  <2> QED
    BY <2>1, <2>3, <2>5, <2>6, <2>7, HandlerFrame
<1>5. CASE Unhold(p)
  <2> DEFINE new == [ride[r] EXCEPT !.held = FALSE]
  <2>1. /\ Resume(p, "unhold", "idle") /\ "idle" \in Step
        /\ UNCHANGED <<ledger, batch>>
    BY <1>5 DEF Unhold, Step
  <2>2. r \in Rides /\ ledger[r].charged > 0
    BY <1>0, <2>1, CallRide DEF Resume, BackedInv
  <2>3. ride[r] \in RideRow /\ Write(r, new)
    BY <1>0, <1>5, <2>2 DEF Unhold, TypeOK
  <2>4. /\ new \in RideRow /\ new.retries = ride[r].retries
        /\ new.completed = ride[r].completed
    BY <2>3 DEF RideRow
  <2>5. /\ call' \in [Payers -> Call] /\ call'[p] = Idle
        /\ \A q \in Payers \ {p} : call'[q] = call[q]
    BY <1>0, <2>1, ResumeEffect
  <2> HIDE DEF new
  <2>6. Backed(p)'
    BY <2>5 DEF Backed, Idle
  <2>7. Grows
    BY <2>1, <2>2, <2>3, <2>4, WriteGrows
  <2>8. /\ ride' \in [Rides -> RideRow]
        /\ \A s \in Rides : ride'[s].retries = ride[s].retries
    BY <1>0, <2>2, <2>3, <2>4, WriteEffect
  <2>9. TypeOK'
    BY <1>0, <2>1, <2>5, <2>8 DEF TypeOK
  <2> QED
    BY <2>1, <2>5, <2>6, <2>7, <2>8, <2>9, HandlerFrame
<1>6. CASE ReverseRead(p)
  <2> DEFINE due == IF ledger[r].refunded > 0 THEN 0 ELSE ledger[r].charged
             at == IF due = 0 THEN "void" ELSE "refund"
             c == [call[p] EXCEPT !.at = at, !.amount = due]
  <2>1. /\ call[p].at = "reverse" /\ UNCHANGED <<ride, ledger, batch>>
        /\ call' = [call EXCEPT ![p] = c]
    BY <1>6 DEF ReverseRead
  <2>2. r \in Rides /\ call[p] \in Call /\ ledger[r] \in Ledger
    BY <1>0, <2>1, CallRide DEF TypeOK
  <2>3. due \in 0..MaxCharges /\ (due # 0 => due > 0 /\ ledger[r].charged > 0)
    BY <2>2, SettlementAssumption DEF Ledger
  <2>4. /\ c \in Call /\ c.ride = r /\ c.amount = due /\ c.at = at
        /\ at \in {"void", "refund"} /\ (at = "refund" => due # 0)
    BY <2>2, <2>3 DEF Call, Step
  <2> HIDE DEF c, at, due
  <2>5. /\ call' \in [Payers -> Call] /\ call'[p] = c
        /\ \A q \in Payers \ {p} : call'[q] = call[q]
    BY <1>0, <2>1, <2>4 DEF TypeOK
  <2>6. Backed(p)'
    BY <2>1, <2>2, <2>3, <2>4, <2>5 DEF Backed
  <2> QED
    BY <2>1, <2>5, <2>6, QuietStep
<1>7. CASE Refund(p)
  <2>1. /\ Resume(p, "refund", "void") /\ "void" \in Step /\ UNCHANGED <<ride, batch>>
        /\ ledger' = [ledger EXCEPT ![r].refunded = @ + call[p].amount]
    BY <1>7 DEF Refund, Step
  <2>2. /\ r \in Rides /\ ledger[r] \in Ledger /\ ledger[r].charged > 0
        /\ call[p] \in Call
    BY <1>0, <2>1, CallRide DEF Resume, BackedInv, TypeOK
  <2>3. call[p].amount \in Nat
    BY <2>2, SettlementAssumption DEF Call
  <2>4. [ledger[r] EXCEPT !.refunded = @ + call[p].amount] \in Ledger
    BY <2>2, <2>3 DEF Ledger
  <2>5. /\ ledger' \in [Rides -> Ledger]
        /\ ledger'[r].charged = ledger[r].charged
        /\ \A s \in Rides \ {r} : ledger'[s] = ledger[s]
    BY <1>0, <2>1, <2>2, <2>4 DEF TypeOK, Ledger
  <2>6. /\ call' \in [Payers -> Call] /\ call'[p].at = "void" /\ call'[p].ride = r
        /\ \A q \in Payers \ {p} : call'[q] = call[q]
    BY <1>0, <2>1, ResumeEffect DEF Idle
  <2>7. Backed(p)'
    BY <2>2, <2>6 DEF Backed
  <2>8. Grows
    BY <1>0, <2>1, <2>2, <2>5 DEF Grows, Settled, TypeOK, Ledger, BackedInv
  <2>9. TypeOK'
    BY <1>0, <2>1, <2>5, <2>6 DEF TypeOK
  <2> QED
    BY <2>1, <2>6, <2>7, <2>8, <2>9, HandlerFrame
<1>8. CASE MarkVoided(p)
  <2> DEFINE new == [ride[r] EXCEPT !.held = FALSE, !.voided = TRUE]
  <2>1. /\ Resume(p, "void", "idle") /\ "idle" \in Step
        /\ UNCHANGED <<ledger, batch>>
    BY <1>8 DEF MarkVoided, Step
  <2>2. r \in Rides
    BY <1>0, <2>1, CallRide DEF Resume, BackedInv
  <2>3. ride[r] \in RideRow /\ Write(r, new)
    BY <1>0, <1>8, <2>2 DEF MarkVoided, TypeOK
  <2>4. /\ new \in RideRow /\ new.retries = ride[r].retries
        /\ new.completed = ride[r].completed /\ new.voided
    BY <2>3 DEF RideRow
  <2>5. /\ call' \in [Payers -> Call] /\ call'[p] = Idle
        /\ \A q \in Payers \ {p} : call'[q] = call[q]
    BY <1>0, <2>1, ResumeEffect
  <2> HIDE DEF new
  <2>6. Backed(p)'
    BY <2>5 DEF Backed, Idle
  <2>7. Grows
    BY <2>1, <2>2, <2>3, <2>4, WriteGrows
  <2>8. /\ ride' \in [Rides -> RideRow]
        /\ \A s \in Rides : ride'[s].retries = ride[s].retries
    BY <1>0, <2>2, <2>3, <2>4, WriteEffect
  <2>9. TypeOK'
    BY <1>0, <2>1, <2>5, <2>8 DEF TypeOK
  <2> QED
    BY <2>1, <2>5, <2>6, <2>7, <2>8, <2>9, HandlerFrame
<1> QED
  BY <1>1, <1>2, <1>3, <1>4, <1>5, <1>6, <1>7, <1>8 DEF Review

\* The worker records the outcome of an attempt.
LEMMA RecordsStep ==
    ASSUME IInv, NEW r \in Rides, NEW from, NEW attempts \in {Attempt(r), MaxAttempts},
           NEW when \in {"never", "waiting"}, Records(r, from, attempts, when)
    PROVE  IInv'
<1>0. TypeOK /\ BackedInv /\ Worker \in Payers
  BY DEF IInv, Payers
<1> DEFINE new == [ride[r] EXCEPT !.retries = attempts, !.nextRetry = when]
<1>2. PICK at \in from : Resume(Worker, at, "idle")
  BY DEF Records
<1>3. /\ call[Worker].ride = r /\ Write(r, new) /\ UNCHANGED <<ledger, batch>>
  BY DEF Records
<1>4. ride[r].retries < MaxAttempts /\ r \notin batch
  BY <1>0, <1>3 DEF BackedInv
<1>5. attempts \in 0..MaxAttempts /\ ride[r] \in RideRow
  BY <1>0, <1>4, SettlementAssumption DEF TypeOK, RideRow, Attempt
<1>6. /\ new \in RideRow /\ new.completed = ride[r].completed
      /\ new.failed = ride[r].failed /\ new.held = ride[r].held
      /\ new.voided = ride[r].voided
  BY <1>5 DEF RideRow
<1> HIDE DEF new
<1>7. /\ call' \in [Payers -> Call] /\ call'[Worker] = Idle
      /\ \A q \in Payers \ {Worker} : call'[q] = call[q]
  BY <1>0, <1>2, ResumeEffect DEF Step
<1>8. /\ ride' \in [Rides -> RideRow]
      /\ \A s \in Rides \ {r} : ride'[s] = ride[s]
  BY <1>0, <1>3, <1>6, WriteEffect
<1>9. Grows
  BY <1>3, <1>6, WriteGrows DEF Settled
<1>10. TypeOK'
  BY <1>0, <1>3, <1>7, <1>8 DEF TypeOK
<1>11. Backed(Worker)'
  BY <1>7 DEF Backed, Idle
<1>12. \A q \in Handlers : call'[q] = call[q]
  BY <1>7, SettlementAssumption DEF Payers
<1>13. /\ call'[Worker].ride \notin batch'
       /\ \A s \in Rides : s \in batch' \/ call'[Worker].ride = s
                           => ride'[s].retries < MaxAttempts
  BY <1>0, <1>3, <1>4, <1>7, <1>8, SettlementAssumption DEF Idle, TypeOK, BackedInv
<1> QED
  BY <1>9, <1>10, <1>11, <1>12, <1>13, WorkerFrame

LEMMA RecordingStep ==
    ASSUME IInv, NEW r \in Rides, Recording(r)
    PROVE  IInv'
<1>1. CASE WorkerRecovered(r)
  BY <1>1, RecordsStep DEF WorkerRecovered
<1>2. CASE WorkerRefused(r)
  BY <1>2, RecordsStep DEF WorkerRefused
<1>3. CASE WorkerThrows(r)
  BY <1>3, RecordsStep DEF WorkerThrows
<1> QED
  BY <1>1, <1>2, <1>3 DEF Recording

\* Steps that leave rows and ledger alone, and only drop calls or batch members
\* or select rides with attempts left.
LEMMA TickQuiet ==
    ASSUME IInv, UNCHANGED <<ride, ledger>>, TypeOK',
           \A q \in Payers : call'[q] = call[q] \/ Backed(q)',
           call'[Worker].ride \notin batch',
           \A r \in Rides : r \in batch' \/ call'[Worker].ride = r
                            => ride[r].retries < MaxAttempts
    PROVE  IInv'
<1>1. Grows
  BY DEF IInv, TypeOK, BackedInv, Grows, Settled, Ledger
<1>2. \A q \in Payers : Backed(q)
  BY DEF IInv, BackedInv, Backed
<1>3. \A q \in Payers : Backed(q)'
  BY <1>1, <1>2, GrowsBacked DEF IInv
<1>4. Accounted'
  BY <1>1 DEF IInv, Accounted, Grows
<1> QED
  BY <1>1, <1>3, <1>4 DEF IInv, BackedInv, Backed, Grows

LEMMA TickStep ==
    ASSUME IInv, Tick
    PROVE  IInv'
<1>0. TypeOK /\ BackedInv /\ Worker \in Payers
  BY DEF IInv, Payers
<1>1. CASE TickStarts
  <2>1. batch' = Due /\ call[Worker].at = "idle" /\ UNCHANGED <<ride, ledger, call>>
    BY <1>1 DEF TickStarts
  <2>2. Due \subseteq Rides /\ \A r \in Due : ride[r].retries < MaxAttempts
    BY DEF Due
  <2>3. call[Worker].ride \notin Due
    BY <1>0, <2>1, <2>2, SettlementAssumption DEF BackedInv
  <2>4. TypeOK'
    BY <1>0, <2>1, <2>2 DEF TypeOK
  <2>5. \A r \in Rides : r \in batch' \/ call'[Worker].ride = r
                         => ride[r].retries < MaxAttempts
    BY <1>0, <2>1, <2>2, SettlementAssumption DEF BackedInv
  <2> QED
    BY <2>1, <2>3, <2>4, <2>5, TickQuiet
<1>2. ASSUME NEW r \in Rides, WorkerReads(r)
      PROVE  IInv'
  <2> DEFINE at == IF Retriable(r) THEN "count" ELSE "refused"
  <2>1. /\ Begin(Worker, at, r) /\ at \in Step /\ at \in {"count", "refused"}
        /\ r \in batch /\ batch' = batch \ {r} /\ UNCHANGED <<ride, ledger>>
    BY <1>2 DEF WorkerReads, Step
  <2>2. /\ call' \in [Payers -> Call]
        /\ call'[Worker] = [at |-> at, ride |-> r, amount |-> 0]
        /\ \A q \in Payers \ {Worker} : call'[q] = call[q]
    BY <1>0, <2>1, BeginEffect
  <2>3. Backed(Worker)'
    BY <2>1, <2>2 DEF Backed
  <2>4. TypeOK'
    BY <1>0, <2>1, <2>2 DEF TypeOK
  <2>5. \A s \in Rides : s \in batch' \/ call'[Worker].ride = s
                         => ride[s].retries < MaxAttempts
    BY <1>0, <2>1, <2>2 DEF BackedInv
  <2> QED
    BY <2>1, <2>2, <2>3, <2>4, <2>5, TickQuiet
<1>3. ASSUME NEW r \in Rides, Recording(r)
      PROVE  IInv'
  BY <1>3, RecordingStep
<1>4. CASE Retry(Worker)
  <2>1. /\ TypeOK' /\ Grows /\ Backed(Worker)' /\ UNCHANGED batch
        /\ \A q \in Payers \ {Worker} : call'[q] = call[q]
        /\ \A s \in Rides : ride'[s].retries = ride[s].retries
        /\ call'[Worker].ride \in {call[Worker].ride, NoRide}
    BY <1>0, <1>4, RetryStep
  <2>2. \A q \in Handlers : call'[q] = call[q]
    BY <2>1, SettlementAssumption DEF Payers
  <2>3. /\ call'[Worker].ride \notin batch'
        /\ \A s \in Rides : s \in batch' \/ call'[Worker].ride = s
                            => ride'[s].retries < MaxAttempts
    BY <1>0, <2>1, SettlementAssumption DEF BackedInv, TypeOK
  <2> QED
    BY <2>1, <2>2, <2>3, WorkerFrame
<1> QED
  BY <1>1, <1>2, <1>3, <1>4 DEF Tick

LEMMA InitIInv == Init => IInv
<1> SUFFICES ASSUME Init PROVE IInv
  OBVIOUS
<1>1. InProgress \in RideRow /\ Historical \in RideRow
  BY SettlementAssumption DEF InProgress, Historical, RideRow
<1>2. \A r \in Rides : /\ ride[r] \in {InProgress, Historical}
                       /\ ledger[r] = [charged |-> 0, refunded |-> 0]
  BY DEF Init
<1>3. \A p \in Payers : call[p] = [at |-> "idle", ride |-> NoRide, amount |-> 0]
  BY DEF Init, Idle
<1>4. TypeOK
  BY <1>1, SettlementAssumption DEF Init, TypeOK, Ledger, Call, Step, Idle
<1>5. \A r \in Rides : ride[r].completed => ride[r].failed
  BY <1>2 DEF InProgress, Historical
<1>6. Accounted
  BY <1>5 DEF Accounted, Settled
<1>7. BackedInv
  BY <1>2, <1>3, SettlementAssumption DEF BackedInv, Init, Payers
<1> QED
  BY <1>4, <1>6, <1>7 DEF IInv

LEMMA NextIInv == IInv /\ [Next]_vars => IInv'
<1> SUFFICES ASSUME IInv, [Next]_vars PROVE IInv'
  OBVIOUS
<1>0. TypeOK /\ BackedInv /\ Worker \in Payers
  BY DEF IInv, Payers
<1>i. Idle \in Call /\ Idle.at = "idle" /\ Idle.ride = NoRide
  BY SettlementAssumption DEF Idle, Call, Step
<1>1. ASSUME NEW p \in Handlers, Settlement(p) PROVE IInv'
  BY <1>1, SettlementStep
<1>2. ASSUME NEW p \in Handlers, Retry(p) PROVE IInv'
  <2>1. p \in Payers
    BY DEF Payers
  <2> QED
    BY <1>2, <2>1, RetryStep, HandlerFrame
<1>3. ASSUME NEW p \in Handlers, Review(p) PROVE IInv'
  BY <1>3, ReviewStep
<1>4. ASSUME NEW p \in Handlers, Throw(p) PROVE IInv'
  <2>1. p \in Payers /\ call' = [call EXCEPT ![p] = Idle] /\ UNCHANGED <<ride, ledger, batch>>
    BY <1>4 DEF Throw, Payers
  <2>2. /\ call' \in [Payers -> Call] /\ call'[p] = Idle
        /\ \A q \in Payers \ {p} : call'[q] = call[q]
    BY <1>0, <1>i, <2>1 DEF TypeOK
  <2>3. Backed(p)'
    BY <1>i, <2>2 DEF Backed
  <2> QED
    BY <2>1, <2>2, <2>3, QuietStep
<1>5. ASSUME NEW r \in Rides, TimePasses(r) PROVE IInv'
  <2> DEFINE new == [ride[r] EXCEPT !.nextRetry = "due"]
  <2>1. Write(r, new) /\ UNCHANGED <<ledger, call, batch>> /\ ride[r] \in RideRow
    BY <1>0, <1>5 DEF TimePasses, TypeOK
  <2>2. /\ new \in RideRow /\ new.completed = ride[r].completed
        /\ new.failed = ride[r].failed /\ new.held = ride[r].held
        /\ new.voided = ride[r].voided /\ new.retries = ride[r].retries
    BY <2>1 DEF RideRow
  <2> HIDE DEF new
  <2>3. /\ ride' \in [Rides -> RideRow]
        /\ \A s \in Rides : ride'[s].retries = ride[s].retries
    BY <1>0, <2>1, <2>2, WriteEffect
  <2>4. Grows
    BY <2>1, <2>2, WriteGrows DEF Settled
  <2>5. TypeOK'
    BY <1>0, <2>1, <2>3 DEF TypeOK
  <2>6. Backed(Worker)'
    BY <1>0, <2>1, <2>4, <2>5, GrowsBacked DEF BackedInv, Backed
  <2>7. /\ call'[Worker].ride \notin batch'
        /\ \A s \in Rides : s \in batch' \/ call'[Worker].ride = s
                            => ride'[s].retries < MaxAttempts
    BY <1>0, <2>1, <2>3 DEF BackedInv
  <2> QED
    BY <2>1, <2>4, <2>5, <2>6, <2>7, WorkerFrame
<1>6. CASE Tick
  BY <1>6, TickStep
<1>7. CASE WorkerAborts
  <2>1. /\ call' = [call EXCEPT ![Worker] = Idle] /\ batch' = {}
        /\ UNCHANGED <<ride, ledger>>
    BY <1>7 DEF WorkerAborts
  <2>2. /\ call' \in [Payers -> Call] /\ call'[Worker] = Idle
        /\ \A q \in Payers \ {Worker} : call'[q] = call[q]
    BY <1>0, <1>i, <2>1 DEF TypeOK
  <2>3. Backed(Worker)' /\ TypeOK'
    BY <1>0, <1>i, <2>1, <2>2 DEF Backed, TypeOK
  <2> QED
    BY <1>i, <2>1, <2>2, <2>3, TickQuiet, SettlementAssumption
<1>8. CASE Restart
  <2>1. /\ call' = [p \in Payers |-> Idle] /\ batch' = {}
        /\ UNCHANGED <<ride, ledger>>
    BY <1>8 DEF Restart
  <2>2. call' \in [Payers -> Call] /\ \A q \in Payers : call'[q] = Idle
    BY <1>i, <2>1
  <2>3. (\A q \in Payers : Backed(q)') /\ TypeOK'
    BY <1>0, <1>i, <2>1, <2>2 DEF Backed, TypeOK
  <2> QED
    BY <1>0, <1>i, <2>1, <2>2, <2>3, TickQuiet, SettlementAssumption
<1>9. CASE UNCHANGED vars
  BY <1>9 DEF vars, IInv, TypeOK, BackedInv, Accounted, Settled
<1> QED
  BY <1>1, <1>2, <1>3, <1>4, <1>5, <1>6, <1>7, <1>8, <1>9 DEF Next

-------------------------------------------------------------------------------
(* The theorems *)

THEOREM Invariance == Spec => []IInv
  BY InitIInv, NextIInv, PTL DEF Spec

\* Every reachable state is well-typed, the capped counters included: no
\* interleaving of ticks and restarts gives a ride more than MaxAttempts tries.
THEOREM TypeCorrect == Spec => []TypeOK
<1>1. IInv => TypeOK
  BY DEF IInv
<1> QED
  BY <1>1, Invariance, PTL

\* No interleaving, failure or restart leaves a completed ride without a posting
\* and without a flag that says so (settleAndComplete, retryFailedPosting, the
\* release and void routes).
THEOREM NothingLost == Spec => []Accounted
<1>1. IInv => Accounted
  BY DEF IInv
<1> QED
  BY <1>1, Invariance, PTL

\* What suspended invocations and the worker's batch rely on holds when they
\* resume.
THEOREM StillBacked == Spec => []BackedInv
<1>1. IInv => BackedInv
  BY DEF IInv
<1> QED
  BY <1>1, Invariance, PTL

-------------------------------------------------------------------------------
(* Quarantined rides *)

\* What may be in flight for a quarantined ride: refusals and voids.
Harmless == {"refused", "reverse", "refund", "void"}

\* A quarantined ride is completed and not held, so neither a settlement nor a
\* release begins on it, and every retry refuses it when it reads the row.
Untouchable ==
    \A r \in Rides :
        ride[r].quarantined =>
            /\ ride[r].completed /\ ~ride[r].held
            /\ \A p \in Payers : call[p].ride = r => call[p].at \in Harmless

\* A step that touches quarantined rides in none of the forbidden ways.
Spares ==
    \A r \in Rides :
        /\ ride'[r].quarantined = ride[r].quarantined
        /\ ride[r].quarantined => /\ ride'[r].completed /\ ~ride'[r].held
                                  /\ ledger'[r].charged = ledger[r].charged

LEMMA SparesRest ==
    ASSUME IInv, Untouchable, UNCHANGED <<ride, ledger>>
    PROVE  Spares
  BY DEF Spares, Untouchable

\* A row that is written keeps its quarantine, and is not held if it has one.
LEMMA SparesWrite ==
    ASSUME IInv, Untouchable, NEW r \in Rides, NEW new \in RideRow, Write(r, new),
           new.quarantined = ride[r].quarantined,
           ride[r].completed => new.completed,
           ride[r].quarantined => ~new.held,
           \A s \in Rides : ride[s].quarantined => ledger'[s].charged = ledger[s].charged
    PROVE  Spares
<1>1. ride'[r] = new /\ \A s \in Rides \ {r} : ride'[s] = ride[s]
  BY WriteEffect DEF IInv
<1> QED
  BY <1>1 DEF Spares, Untouchable

\* A posting for a ride with a forbidden invocation in flight.
LEMMA SparesCharge ==
    ASSUME IInv, Untouchable, NEW p \in Payers, call[p].ride \in Rides,
           call[p].at \notin Harmless, Charge(call[p].ride)
    PROVE  \A s \in Rides : ride[s].quarantined => ledger'[s].charged = ledger[s].charged
<1>1. \A s \in Rides \ {call[p].ride} : ledger'[s] = ledger[s]
  BY ChargeEffect DEF IInv
<1> QED
  BY <1>1 DEF Untouchable

\* Calls after a step by p that resumes or ends.
LEMMA UntouchableResume ==
    ASSUME IInv, Untouchable, Spares, NEW p \in Payers, NEW to \in Step,
           \/ call'[p] = Idle
           \/ call'[p].ride = call[p].ride /\ call'[p].at = to,
           call[p].at \in Harmless => to \in Harmless \cup {"idle"},
           call'[p].at = "idle" => call'[p].ride = NoRide,
           \A q \in Payers \ {p} : call'[q] = call[q]
    PROVE  Untouchable'
<1>1. \A r \in Rides : call'[p].ride = r /\ ride[r].quarantined => call'[p].at \in Harmless
  BY SettlementAssumption DEF Untouchable, Idle
<1> QED
  BY <1>1 DEF Untouchable, Spares

\* Calls after a step by p that begins on r.
LEMMA UntouchableBegin ==
    ASSUME IInv, Untouchable, UNCHANGED <<ride, ledger>>, NEW p \in Payers,
           NEW r \in Rides, NEW at \in Step, Begin(p, at, r),
           ride[r].quarantined => at \in Harmless
    PROVE  Untouchable'
<1>1. /\ call'[p] = [at |-> at, ride |-> r, amount |-> 0]
      /\ \A q \in Payers \ {p} : call'[q] = call[q]
  BY BeginEffect DEF IInv
<1> QED
  BY <1>1 DEF Untouchable

\* An invocation about to write or charge is on a ride.
LEMMA Forbidden ==
    ASSUME IInv, Untouchable, NEW p \in Payers, call[p].at \notin Harmless \cup {"idle"}
    PROVE  call[p].ride \in Rides /\ ~ride[call[p].ride].quarantined
  BY CallRide DEF Untouchable, IInv, TypeOK, RideRow

LEMMA UntouchableHandler ==
    ASSUME IInv, Untouchable, NEW p \in Payers,
           Settlement(p) \/ Retry(p) \/ Review(p)
    PROVE  Untouchable' /\ Spares
<1> DEFINE r == call[p].ride
<1>0. TypeOK
  BY DEF IInv
<1>1. ASSUME NEW s \in Rides, NEW at \in Step, Begin(p, at, s), UNCHANGED <<ride, ledger>>,
             ride[s].quarantined => at \in Harmless
      PROVE  Untouchable' /\ Spares
  BY <1>1, UntouchableBegin, SparesRest
<1>2. ASSUME NEW s \in Rides,
             SettleCheck(p, s) \/ RetryRead(p, s) \/ ReleaseRead(p, s) \/ VoidRead(p, s)
      PROVE  Untouchable' /\ Spares
  <2>1. CASE SettleCheck(p, s)
    BY <1>1, <2>1 DEF SettleCheck, Untouchable, Step
  <2>2. CASE RetryRead(p, s)
    BY <1>1, <2>2 DEF RetryRead, Retriable, Step
  <2>3. CASE ReleaseRead(p, s)
    BY <1>1, <2>3 DEF ReleaseRead, Untouchable, Step
  <2>4. CASE VoidRead(p, s)
    BY <1>1, <2>4 DEF VoidRead, Step, Harmless
  <2> QED
    BY <1>2, <2>1, <2>2, <2>3, <2>4
<1>3. ASSUME NEW from \in Step \ (Harmless \cup {"idle"}), NEW to \in Step, Resume(p, from, to)
      PROVE  /\ r \in Rides /\ ~ride[r].quarantined /\ call[p].at \notin Harmless
             /\ Spares => Untouchable'
  <2>1. /\ call[p].at = from /\ call'[p].at = to
        /\ \/ call'[p] = Idle
           \/ call'[p].ride = call[p].ride /\ call'[p].amount = call[p].amount
        /\ to = "idle" => call'[p] = Idle
        /\ \A q \in Payers \ {p} : call'[q] = call[q]
    BY <1>0, <1>3, ResumeEffect
  <2>2. r \in Rides /\ ~ride[r].quarantined
    BY <2>1, Forbidden
  <2>3. call'[p].at = "idle" => call'[p].ride = NoRide
    BY <2>1 DEF Idle
  <2> QED
    BY <2>1, <2>2, <2>3, UntouchableResume
<1>4. CASE SettleHold(p) \/ SettlePost(p) \/ SettleFails(p) \/ SettleFinish(p)
  <2>1. PICK from \in {"settle", "finish"}, to \in {"finish", "idle"} : Resume(p, from, to)
    BY <1>4 DEF SettleHold, SettlePost, SettleFails, SettleFinish
  <2>2. /\ r \in Rides /\ ~ride[r].quarantined /\ call[p].at \notin Harmless
        /\ Spares => Untouchable'
    BY <1>3, <2>1 DEF Step, Harmless
  <2>3. ride[r] \in RideRow
    BY <1>0, <2>2 DEF TypeOK
  <2>4. Charge(r) \/ UNCHANGED ledger
    BY <1>4 DEF SettleHold, SettlePost, SettleFails, SettleFinish
  <2>5. \A s \in Rides : ride[s].quarantined => ledger'[s].charged = ledger[s].charged
    BY <2>2, <2>4, SparesCharge
  <2>6. \/ UNCHANGED ride
        \/ \E new \in RideRow : /\ Write(r, new) /\ new.quarantined = ride[r].quarantined
                                /\ (ride[r].completed => new.completed)
    <3>1. CASE SettleHold(p)
      <4> DEFINE new == [ride[r] EXCEPT !.held = TRUE]
      <4>1. /\ Write(r, new) /\ new \in RideRow /\ new.quarantined = ride[r].quarantined
            /\ (ride[r].completed => new.completed)
        BY <2>3, <3>1 DEF SettleHold, RideRow
      <4> HIDE DEF new
      <4> QED
        BY <4>1
    <3>2. CASE SettlePost(p)
      BY <3>2 DEF SettlePost
    <3>3. CASE SettleFails(p)
      <4> DEFINE new == [ride[r] EXCEPT !.failed = TRUE, !.nextRetry = "waiting"]
      <4>1. /\ Write(r, new) /\ new \in RideRow /\ new.quarantined = ride[r].quarantined
            /\ new.completed = ride[r].completed
        BY <2>3, <3>3 DEF SettleFails, RideRow
      <4> HIDE DEF new
      <4> QED
        BY <4>1
    <3>4. CASE SettleFinish(p)
      <4> DEFINE new == [ride[r] EXCEPT !.completed = TRUE]
      <4>1. /\ Write(r, new) /\ new \in RideRow /\ new.quarantined = ride[r].quarantined
            /\ (ride[r].completed => new.completed)
        BY <2>3, <3>4 DEF SettleFinish, RideRow
      <4> HIDE DEF new
      <4> QED
        BY <4>1
    <3> QED
      BY <1>4, <3>1, <3>2, <3>3, <3>4
  <2>7. Spares
    <3>1. CASE UNCHANGED ride
      BY <2>5, <3>1 DEF Spares, Untouchable
    <3>2. ASSUME NEW new \in RideRow, Write(r, new), new.quarantined = ride[r].quarantined,
                 ride[r].completed => new.completed
          PROVE  Spares
      BY <2>2, <2>5, <3>2, SparesWrite
    <3> QED
      BY <2>6, <3>1, <3>2
  <2> QED
    BY <2>2, <2>7
<1>5. CASE Retry(p)
  <2>1. CASE CountEntries(p)
    <3>1. PICK to \in {"post", "clear"} : Resume(p, "count", to)
      BY <2>1 DEF CountEntries
    <3> QED
      BY <1>3, <2>1, <3>1, SparesRest DEF CountEntries, Step, Harmless
  <2>2. CASE RetryPost(p)
    <3>1. Resume(p, "post", "clear") /\ Charge(r) /\ UNCHANGED ride
      BY <2>2 DEF RetryPost
    <3>2. /\ r \in Rides /\ call[p].at \notin Harmless /\ (Spares => Untouchable')
      BY <1>3, <3>1 DEF Step, Harmless
    <3>3. \A s \in Rides : ride[s].quarantined => ledger'[s].charged = ledger[s].charged
      BY <3>1, <3>2, SparesCharge
    <3>4. Spares
      BY <3>1, <3>3 DEF Spares, Untouchable
    <3> QED
      BY <3>2, <3>4
  <2>3. CASE ClearFailed(p)
    <3> DEFINE new == [ride[r] EXCEPT !.failed = FALSE]
    <3>1. PICK to \in {"recovered", "idle"} : Resume(p, "clear", to)
      BY <2>3 DEF ClearFailed
    <3>2. r \in Rides /\ ~ride[r].quarantined /\ (Spares => Untouchable')
      BY <1>3, <3>1 DEF Step, Harmless
    <3>3. ride[r] \in RideRow /\ Write(r, new) /\ UNCHANGED ledger
      BY <1>0, <2>3, <3>2 DEF ClearFailed, TypeOK
    <3>4. /\ new \in RideRow /\ new.quarantined = ride[r].quarantined
          /\ new.completed = ride[r].completed
      BY <3>3 DEF RideRow
    <3> HIDE DEF new
    <3> QED
      BY <3>2, <3>3, <3>4, SparesWrite
  <2> QED
    BY <1>5, <2>1, <2>2, <2>3 DEF Retry
<1>6. CASE ReleasePost(p)
  <2>1. Resume(p, "release", "unhold") /\ Charge(r) /\ UNCHANGED ride
    BY <1>6 DEF ReleasePost
  <2>2. /\ r \in Rides /\ call[p].at \notin Harmless /\ (Spares => Untouchable')
    BY <1>3, <2>1 DEF Step, Harmless
  <2>3. \A s \in Rides : ride[s].quarantined => ledger'[s].charged = ledger[s].charged
    BY <2>1, <2>2, SparesCharge
  <2>4. Spares
    BY <2>1, <2>3 DEF Spares, Untouchable
  <2> QED
    BY <2>2, <2>4
<1>7. CASE Unhold(p) \/ MarkVoided(p)
  <2>1. PICK from \in {"unhold", "void"} : Resume(p, from, "idle")
    BY <1>7 DEF Unhold, MarkVoided
  <2>2. call[p].at = from /\ r \in Rides /\ ride[r] \in RideRow
    BY <1>0, <2>1, CallRide DEF Resume, TypeOK
  <2>3. PICK new \in RideRow : /\ Write(r, new) /\ new.quarantined = ride[r].quarantined
                               /\ new.completed = ride[r].completed /\ ~new.held
    <3>1. CASE Unhold(p)
      <4> DEFINE new == [ride[r] EXCEPT !.held = FALSE]
      <4>1. /\ Write(r, new) /\ new \in RideRow /\ new.quarantined = ride[r].quarantined
            /\ new.completed = ride[r].completed /\ ~new.held
        BY <2>2, <3>1 DEF Unhold, RideRow
      <4> HIDE DEF new
      <4> QED
        BY <4>1
    <3>2. CASE MarkVoided(p)
      <4> DEFINE new == [ride[r] EXCEPT !.held = FALSE, !.voided = TRUE]
      <4>1. /\ Write(r, new) /\ new \in RideRow /\ new.quarantined = ride[r].quarantined
            /\ new.completed = ride[r].completed /\ ~new.held
        BY <2>2, <3>2 DEF MarkVoided, RideRow
      <4> HIDE DEF new
      <4> QED
        BY <4>1
    <3> QED
      BY <1>7, <3>1, <3>2
  <2>4. UNCHANGED ledger
    BY <1>7 DEF Unhold, MarkVoided
  <2>5. Spares
    BY <2>2, <2>3, <2>4, SparesWrite
  <2>6. call'[p] = Idle /\ \A q \in Payers \ {p} : call'[q] = call[q]
    BY <1>0, <2>1, ResumeEffect DEF Step
  <2> QED
    BY <2>5, <2>6, UntouchableResume DEF Idle, Step
<1>8. CASE ReverseRead(p)
  <2> DEFINE entries == ledger[call[p].ride]
             due     == IF entries.refunded > 0 THEN 0 ELSE entries.charged
             to      == IF due = 0 THEN "void" ELSE "refund"
  <2>1. call' = [call EXCEPT ![p] = [@ EXCEPT !.at = to, !.amount = due]]
    BY <1>8 DEF ReverseRead
  <2>t. to \in {"void", "refund"}
    OBVIOUS
  <2> HIDE DEF due, to
  <2>2. call[p] \in Call /\ UNCHANGED <<ride, ledger>>
    BY <1>0, <1>8 DEF ReverseRead, TypeOK
  <2>3. /\ call'[p].ride = call[p].ride /\ call'[p].at = to
        /\ \A q \in Payers \ {p} : call'[q] = call[q]
    BY <1>0, <2>1, <2>2 DEF TypeOK, Call
  <2>4. Spares
    BY <2>2, SparesRest
  <2> QED
    BY <2>t, <2>3, <2>4, UntouchableResume DEF Step, Harmless
<1>9. CASE Refund(p)
  <2>1. Resume(p, "refund", "void") /\ UNCHANGED ride
    BY <1>9 DEF Refund
  <2>2. call[p].at = "refund" /\ r \in Rides
    BY <2>1, CallRide DEF Resume
  <2>3. \A s \in Rides : ledger'[s].charged = ledger[s].charged
    BY <1>0, <1>9, <2>2 DEF Refund, TypeOK, Ledger
  <2>4. Spares
    BY <2>1, <2>3 DEF Spares, Untouchable
  <2>5. /\ call'[p].at = "void"
        /\ \/ call'[p] = Idle
           \/ call'[p].ride = call[p].ride /\ call'[p].amount = call[p].amount
        /\ \A q \in Payers \ {p} : call'[q] = call[q]
    BY <1>0, <2>1, ResumeEffect DEF Step
  <2> QED
    BY <2>4, <2>5, UntouchableResume DEF Step, Harmless
<1> QED
  BY <1>2, <1>4, <1>5, <1>6, <1>7, <1>8, <1>9 DEF Settlement, Review

LEMMA UntouchableNext == IInv /\ Untouchable /\ [Next]_vars => Untouchable' /\ Spares
<1> SUFFICES ASSUME IInv, Untouchable, [Next]_vars PROVE Untouchable' /\ Spares
  OBVIOUS
<1>0. TypeOK /\ Worker \in Payers /\ Handlers \subseteq Payers
  BY DEF IInv, Payers
<1>1. ASSUME NEW p \in Handlers, Settlement(p) \/ Retry(p) \/ Review(p)
      PROVE  Untouchable' /\ Spares
  BY <1>0, <1>1, UntouchableHandler
<1>2. ASSUME NEW p \in Payers, call' = [call EXCEPT ![p] = Idle], UNCHANGED <<ride, ledger>>
      PROVE  Untouchable' /\ Spares
  <2>1. call'[p] = Idle /\ \A q \in Payers \ {p} : call'[q] = call[q]
    BY <1>0, <1>2 DEF TypeOK
  <2> QED
    BY <1>2, <2>1, SparesRest, UntouchableResume DEF Idle, Step
<1>3. ASSUME NEW r \in Rides, TimePasses(r)
      PROVE  Untouchable' /\ Spares
  <2> DEFINE new == [ride[r] EXCEPT !.nextRetry = "due"]
  <2>1. Write(r, new) /\ UNCHANGED <<ledger, call>> /\ ride[r] \in RideRow
    BY <1>0, <1>3 DEF TimePasses, TypeOK
  <2>2. /\ new \in RideRow /\ new.quarantined = ride[r].quarantined
        /\ new.completed = ride[r].completed /\ new.held = ride[r].held
    BY <2>1 DEF RideRow
  <2> HIDE DEF new
  <2>3. Spares
    BY <2>1, <2>2, SparesWrite DEF Untouchable
  <2> QED
    BY <2>1, <2>3 DEF Spares, Untouchable
<1>4. ASSUME NEW r \in Rides, NEW from, NEW attempts, NEW when,
             Records(r, from, attempts, when), ride' \in [Rides -> RideRow]
      PROVE  Untouchable' /\ Spares
  <2>1. PICK at \in from : Resume(Worker, at, "idle")
    BY <1>4 DEF Records
  <2>2. call'[Worker] = Idle /\ \A q \in Payers \ {Worker} : call'[q] = call[q]
    BY <1>0, <2>1, ResumeEffect DEF Step
  <2>3. /\ UNCHANGED ledger
        /\ Write(r, [ride[r] EXCEPT !.retries = attempts, !.nextRetry = when])
    BY <1>4 DEF Records
  <2>4. ride'[r] = [ride[r] EXCEPT !.retries = attempts, !.nextRetry = when]
    BY <1>0, <2>3 DEF Write, TypeOK
  <2>5. /\ \A s \in Rides \ {r} : ride'[s] = ride[s]
        /\ ride[r] \in RideRow
    BY <1>0, <2>3 DEF Write, TypeOK
  <2>6. /\ ride'[r].quarantined = ride[r].quarantined
        /\ ride'[r].completed = ride[r].completed /\ ride'[r].held = ride[r].held
    BY <2>4, <2>5 DEF RideRow
  <2>7. Spares
    BY <2>3, <2>5, <2>6 DEF Spares, Untouchable
  <2>8. Idle.at = "idle" /\ Idle.ride = NoRide /\ "idle" \in Step
    BY DEF Idle, Step
  <2> QED
    BY <1>0, <2>2, <2>7, <2>8, UntouchableResume
<1>5. CASE Tick
  <2>1. IInv'
    BY NextIInv
  <2>2. CASE TickStarts
    BY <2>2, SparesRest DEF TickStarts, Untouchable
  <2>3. ASSUME NEW r \in Rides, WorkerReads(r)
        PROVE  Untouchable' /\ Spares
    <3>1. PICK at \in {"count", "refused"} :
              Begin(Worker, at, r) /\ (ride[r].quarantined => at = "refused")
      BY <2>3 DEF WorkerReads, Retriable
    <3> QED
      BY <1>0, <2>3, <3>1, UntouchableBegin, SparesRest DEF WorkerReads, Step, Harmless
  <2>4. ASSUME NEW r \in Rides, Recording(r)
        PROVE  Untouchable' /\ Spares
    BY <1>4, <2>1, <2>4 DEF Recording, WorkerRecovered, WorkerRefused, WorkerThrows, IInv, TypeOK
  <2>5. CASE Retry(Worker)
    BY <1>0, <2>5, UntouchableHandler
  <2> QED
    BY <1>5, <2>2, <2>3, <2>4, <2>5 DEF Tick
<1>6. CASE Restart
  <2>1. \A q \in Payers : call'[q] = Idle
    BY <1>6 DEF Restart
  <2>2. UNCHANGED <<ride, ledger>>
    BY <1>6 DEF Restart
  <2> QED
    BY <2>1, <2>2, SparesRest, SettlementAssumption DEF Untouchable, Idle
<1>7. CASE UNCHANGED vars
  BY <1>7, SparesRest DEF vars, Untouchable
<1> QED
  BY <1>0, <1>1, <1>2, <1>3, <1>5, <1>6, <1>7 DEF Next, Throw, WorkerAborts

LEMMA InitUntouchable == Init => Untouchable
<1> SUFFICES ASSUME Init PROVE Untouchable
  OBVIOUS
<1>1. \A r \in Rides : ride[r] \in {InProgress, Historical}
  BY DEF Init
<1>2. \A p \in Payers : call[p].ride = NoRide
  BY DEF Init, Idle
<1> QED
  BY <1>1, <1>2, SettlementAssumption DEF Untouchable, InProgress, Historical

\* No path ever charges a ride that the migration quarantined (retryFailedPosting,
\* findDue, POST /rides/:rideId/release).
THEOREM NeverTouched == Spec => HistoricalUntouched
<1>1. Untouchable /\ IInv /\ [Next]_vars =>
          [\A r \in Rides : ride[r].quarantined
                             => ledger'[r].charged = ledger[r].charged]_vars
  BY UntouchableNext DEF Spares
<1> QED
  BY <1>1, InitUntouchable, UntouchableNext, Invariance, PTL DEF Spec, HistoricalUntouched

===============================================================================
