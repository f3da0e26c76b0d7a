------------------------------ MODULE WalletBooks ------------------------------
(***************************************************************************)
(* One driver's wallet: top-ups (paystack_service.ts), rides posted and    *)
(* voided, debt repaid (wallet_service.ts), payouts asked for by the       *)
(* driver and settled by admins (admin_service.ts).  Every operation is    *)
(* one transaction on a locked wallet row, except where it is not: a       *)
(* passenger's top-up is credited in a transaction of its own, and a       *)
(* payout's row and the entries that a void undoes are read without a      *)
(* lock.  Money is counted in whole units; RideSettlement has the protocol *)
(* that decides when a ride is posted.                                     *)
(***************************************************************************)
EXTENDS Integers, FiniteSets, Functions

CONSTANTS
    CashRides,      \* completed cash rides of the driver
    WalletRides,    \* completed wallet rides of the driver
    Topups,         \* Paystack references of the driver
    PaxTopups,      \* Paystack references of a passenger
    Payouts,        \* payout requests
    Admins,         \* admins settling payouts and voiding rides
    Commission,     \* commission of a ride
    Earning,        \* the driver's net of a wallet ride
    TopupAmount,    \* what a top-up brings
    MaxPayout,      \* bound: the largest payout asked for
    MaxCredits,     \* bound: credits of one passenger's reference
    Anyone          \* no payout or ride: an idle admin's

ASSUME BooksAssumption ==
    /\ {Commission, Earning, TopupAmount, MaxPayout, MaxCredits} \subseteq Nat \ {0}
    /\ Anyone \notin Payouts /\ Anyone \notin CashRides \cup WalletRides
    /\ Topups \cap PaxTopups = {}
    /\ IsFiniteSet(Topups) /\ IsFiniteSet(Payouts)
    /\ IsFiniteSet(CashRides \cup WalletRides)

VARIABLES
    wallet,         \* the driver's wallet row
    posted,         \* posted[r]: what r's entries come to, in available and debt
    topup,          \* topup[t]: the Transaction row of a reference
    credited,       \* credited[t]: how often t was credited (history)
    payout,         \* payout[p]: the PayoutRecord
    settling,       \* settling[a]: the payout and the status a has read
    sent,           \* money paid out to the driver's bank (history)
    raced,          \* two admins have written one payout at once (history)
    voiding,        \* voiding[a]: the ride a undoes, and what a read it comes to
    met             \* rides of which two voids ran at once (history)

bookVars == <<wallet, posted, topup, credited, payout, settling, sent, raced, voiding, met>>

-------------------------------------------------------------------------------

BookRides == CashRides \cup WalletRides
Effect == [available : Int, debt : Int]
NoEffect == [available |-> 0, debt |-> 0]
Final == {"success", "failed"}
NotVoiding == [ride |-> Anyone, net |-> NoEffect]

BooksTypeOK ==
    /\ wallet \in [available : Int, debt : Int, pending : Nat]
    /\ posted \in [BookRides -> [at : {"no", "yes", "voided"}, net : Effect]]
    /\ topup \in [Topups \cup PaxTopups -> {"PENDING", "crediting", "SUCCESS"}]
    /\ credited \in [Topups \cup PaxTopups -> Nat]
    /\ payout \in [Payouts -> [status : {"none", "pending", "processing"} \cup Final,
                               amount : Nat]]
    /\ settling \in [Admins -> [job : Payouts \cup {Anyone},
                                to : {"none", "processing"} \cup Final]]
    /\ sent \in Nat
    /\ raced \in BOOLEAN
    /\ voiding \in [Admins -> [ride : BookRides \cup {Anyone}, net : Effect]]
    /\ met \subseteq BookRides

BooksInit ==
    /\ wallet = [available |-> 0, debt |-> 0, pending |-> 0]
    /\ posted = [r \in BookRides |-> [at |-> "no", net |-> NoEffect]]
    /\ topup = [t \in Topups \cup PaxTopups |-> "PENDING"]
    /\ credited = [t \in Topups \cup PaxTopups |-> 0]
    /\ payout = [p \in Payouts |-> [status |-> "none", amount |-> 0]]
    /\ settling = [a \in Admins |-> [job |-> Anyone, to |-> "none"]]
    /\ sent = 0
    /\ raced = FALSE
    /\ voiding = [a \in Admins |-> NotVoiding]
    /\ met = {}

-------------------------------------------------------------------------------

Least(a, b) == IF a < b THEN a ELSE b

\* The wallet with `a` more available and `d` more debt.
Moved(a, d) == [wallet EXCEPT !.available = @ + a, !.debt = @ + d]

withdrawable == IF wallet.available > wallet.debt
                THEN wallet.available - wallet.debt ELSE 0

\* Debt first: what a credit settles of it.
SettledBy(amount) == Least(wallet.debt, amount)

-------------------------------------------------------------------------------
(* Rides *)

Post(r, a, d) ==
    /\ posted[r].at = "no"
    /\ posted' = [posted EXCEPT ![r] = [at |-> "yes", net |-> [available |-> a, debt |-> d]]]
    /\ wallet' = Moved(a, d)
    /\ UNCHANGED <<topup, credited, payout, settling, sent, raced, voiding, met>>

\* The commission comes out of what is available and the shortfall becomes
\* debt; what is available may be less than nothing.
CanPay == Least(wallet.available, Commission)

postCashRide(r) ==
    /\ r \in CashRides
    /\ Post(r, IF CanPay > 0 THEN -CanPay ELSE 0, Commission - CanPay)

postWalletRide(r) ==
    /\ r \in WalletRides
    /\ LET recovered == IF wallet.debt > 0 THEN SettledBy(Earning) ELSE 0
       IN  Post(r, Earning - recovered, -recovered)

\* A void reads the ride's entries, without a lock, and finds something to undo
\* and nothing undone ...
ReadEntries(a, r) ==
    /\ voiding[a].ride = Anyone
    /\ posted[r].at = "yes"
    /\ voiding' = [voiding EXCEPT ![a] = [ride |-> r, net |-> posted[r].net]]
    /\ UNCHANGED <<wallet, posted, topup, credited, payout, settling, sent, raced, met>>

Undoes(a, available, debt) ==
    LET r == voiding[a].ride
    IN  /\ r # Anyone
        /\ posted' = [posted EXCEPT ![r] =
              [at |-> "voided", net |-> [available |-> posted[r].net.available - available,
                                         debt |-> posted[r].net.debt - debt]]]
        /\ wallet' = Moved(-available, -debt)
        /\ met' = IF \E b \in Admins \ {a} : voiding[b].ride = r THEN met \cup {r} ELSE met
        /\ voiding' = [voiding EXCEPT ![a] = NotVoiding]
        /\ UNCHANGED <<topup, credited, payout, settling, sent, raced>>

\* Mutant: the debt is not undone.
UndoesAvailable(a) == Undoes(a, voiding[a].net.available, 0)

\* ... then locks the wallet and undoes what they came to, whatever became of
\* the money, and whoever undid it meanwhile.
reverseRideFinancials(a) == Undoes(a, voiding[a].net.available, voiding[a].net.debt)

\* The transaction is rolled back, or the server restarts.
VoidFails(a) ==
    /\ voiding[a].ride # Anyone
    /\ voiding' = [voiding EXCEPT ![a] = NotVoiding]
    /\ UNCHANGED <<wallet, posted, topup, credited, payout, settling, sent, raced, met>>

-------------------------------------------------------------------------------
(* Top-ups: the webhook, its retries and the manual verification *)

\* Mutant: the debt is settled and the whole amount credited as well.
CreditInFull(t) ==
    /\ t \in Topups /\ topup[t] = "PENDING"
    /\ topup' = [topup EXCEPT ![t] = "SUCCESS"]
    /\ credited' = [credited EXCEPT ![t] = @ + 1]
    /\ wallet' = Moved(TopupAmount, -SettledBy(TopupAmount))
    /\ UNCHANGED <<posted, payout, settling, sent, raced, voiding, met>>

creditDriverSettlingDebt(t) ==
    /\ t \in Topups /\ topup[t] = "PENDING"
    /\ topup' = [topup EXCEPT ![t] = "SUCCESS"]
    /\ credited' = [credited EXCEPT ![t] = @ + 1]
    /\ wallet' = Moved(TopupAmount - SettledBy(TopupAmount), -SettledBy(TopupAmount))
    /\ UNCHANGED <<posted, payout, settling, sent, raced, voiding, met>>

\* The transaction row is locked; mutateBalance credits and commits ...
creditPassenger(t) ==
    /\ t \in PaxTopups /\ topup[t] = "PENDING" /\ credited[t] < MaxCredits
    /\ topup' = [topup EXCEPT ![t] = "crediting"]
    /\ credited' = [credited EXCEPT ![t] = @ + 1]
    /\ UNCHANGED <<wallet, posted, payout, settling, sent, raced, voiding, met>>

\* ... before the transaction that records the success commits, or is lost.
RecordSuccess(t, commits) ==
    /\ topup[t] = "crediting"
    /\ topup' = [topup EXCEPT ![t] = IF commits THEN "SUCCESS" ELSE "PENDING"]
    /\ UNCHANGED <<wallet, posted, credited, payout, settling, sent, raced, voiding, met>>

repayDebtFromBalance ==
    /\ wallet.debt > 0 /\ wallet.available > 0
    /\ LET applied == Least(wallet.available, wallet.debt)
       IN  wallet' = Moved(-applied, -applied)
    /\ UNCHANGED <<posted, topup, credited, payout, settling, sent, raced, voiding, met>>

-------------------------------------------------------------------------------
(* Payouts *)

initiatePayout(p, amount) ==
    /\ payout[p].status = "none"
    /\ amount <= withdrawable
    /\ wallet' = [wallet EXCEPT !.available = @ - amount, !.pending = @ + amount]
    /\ payout' = [payout EXCEPT ![p] = [status |-> "pending", amount |-> amount]]
    /\ UNCHANGED <<posted, topup, credited, settling, sent, raced, voiding, met>>

allowedTransitions == [pending |-> {"processing", "failed"}, processing |-> Final]

\* The payout row is read, and the transition judged, without a lock ...
ReadPayout(a, p, to) ==
    /\ settling[a].job = Anyone
    /\ payout[p].status \in DOMAIN allowedTransitions
    /\ to \in allowedTransitions[payout[p].status]
    /\ settling' = [settling EXCEPT ![a] = [job |-> p, to |-> to]]
    /\ UNCHANGED <<wallet, posted, topup, credited, payout, sent, raced, voiding, met>>

\* Mutant: what is taken out of the pending money is not bounded by it.
DeductsTwice(a) ==
    /\ settling[a].job # Anyone
    /\ LET p == settling[a].job
           to == settling[a].to
           deducted == IF to \in Final THEN payout[p].amount ELSE 0
       IN  /\ payout' = [payout EXCEPT ![p].status = to]
           /\ wallet' = [wallet EXCEPT
                 !.pending = @ - deducted,
                 !.available = @ + IF to = "failed" THEN deducted ELSE 0]
           /\ sent' = IF to = "success" THEN sent + payout[p].amount ELSE sent
           /\ raced' = (raced \/ \E b \in Admins \ {a} : settling[b].job = p)
    /\ settling' = [settling EXCEPT ![a] = [job |-> Anyone, to |-> "none"]]
    /\ UNCHANGED <<posted, topup, credited, voiding, met>>

\* Mutant: a failed payout leaves its money pending.
FailedStaysPending(a) ==
    /\ settling[a].job # Anyone
    /\ LET p == settling[a].job
           to == settling[a].to
           deducted == IF to = "success" THEN Least(wallet.pending, payout[p].amount) ELSE 0
       IN  /\ payout' = [payout EXCEPT ![p].status = to]
           /\ wallet' = [wallet EXCEPT !.pending = @ - deducted]
           /\ sent' = IF to = "success" THEN sent + payout[p].amount ELSE sent
           /\ raced' = (raced \/ \E b \in Admins \ {a} : settling[b].job = p)
    /\ settling' = [settling EXCEPT ![a] = [job |-> Anyone, to |-> "none"]]
    /\ UNCHANGED <<posted, topup, credited, voiding, met>>

\* ... and written whatever the row says by now.  A final status moves the
\* pending money out, or back to what is available.
updatePayoutStatus(a) ==
    /\ settling[a].job # Anyone
    /\ LET p == settling[a].job
           to == settling[a].to
           deducted == IF to \in Final THEN Least(wallet.pending, payout[p].amount) ELSE 0
       IN  /\ payout' = [payout EXCEPT ![p].status = to]
           /\ wallet' = [wallet EXCEPT
                 !.pending = @ - deducted,
                 !.available = @ + IF to = "failed" THEN deducted ELSE 0]
           /\ sent' = IF to = "success" THEN sent + payout[p].amount ELSE sent
           /\ raced' = (raced \/ \E b \in Admins \ {a} : settling[b].job = p)
    /\ settling' = [settling EXCEPT ![a] = [job |-> Anyone, to |-> "none"]]
    /\ UNCHANGED <<posted, topup, credited, voiding, met>>

BooksNext ==
    \/ \E r \in BookRides : postCashRide(r) \/ postWalletRide(r)
    \/ \E a \in Admins : \/ \E r \in BookRides : ReadEntries(a, r)
                         \/ reverseRideFinancials(a) \/ VoidFails(a)
    \/ \E t \in Topups : creditDriverSettlingDebt(t)
    \/ \E t \in PaxTopups : \/ creditPassenger(t)
                                \/ \E ok \in BOOLEAN : RecordSuccess(t, ok)
    \/ repayDebtFromBalance
    \/ \E p \in Payouts :
          \/ \E amount \in 1..MaxPayout : initiatePayout(p, amount)
          \/ \E a \in Admins, to \in {"processing"} \cup Final : ReadPayout(a, p, to)
    \/ \E a \in Admins : updatePayoutStatus(a)

BooksSpec == BooksInit /\ [][BooksNext]_bookVars

-------------------------------------------------------------------------------
(* Properties *)

Open == {p \in Payouts : payout[p].status \in DOMAIN allowedTransitions}

\* What is pending is what the open payouts will take: every payout finds its
\* own money, unless two admins wrote one payout at once.
PendingCovers ==
    raced \/ wallet.pending = SumFunctionOnSet([p \in Payouts |-> payout[p].amount], Open)

\* What came in: by top-ups, and by the entries of the rides.
CameIn == SumFunctionOnSet([t \in Topups |-> TopupAmount * credited[t]], Topups)
Earned == SumFunctionOnSet([r \in BookRides |-> posted[r].net.available - posted[r].net.debt],
                           BookRides)

\* Nothing is lost or made: what the driver has and is owed is what came in by
\* top-ups and by the rides' entries, less what was sent.
BooksBalance ==
    raced \/ wallet.available + wallet.pending - wallet.debt + sent = CameIn + Earned

\* The driver's wallet adds up, column by column and as a whole
\* (wallet_service.ts:40-320).
BooksStand == PendingCovers /\ BooksBalance

\* A voided ride has cost the driver nothing and brought nothing, in either
\* column and whatever was posted, repaid, paid out and voided meanwhile, unless
\* two voids of it ran at once.
VoidUndoes == \A r \in BookRides \ met : posted[r].at = "voided" => posted[r].net = NoEffect

\* "Idempotent. A second call finds its own reversal entries and stops."
\* (wallet_service.ts:555): no ride is undone twice.
VoidedOnce == \A r \in BookRides : posted[r].at = "voided" => posted[r].net = NoEffect

\* A cash ride costs the driver its commission: what is available is deducted
\* and the shortfall becomes debt (wallet_service.ts:708).
CommissionExact ==
    [][\A r \in CashRides : posted[r].at = "no" /\ posted'[r].at = "yes" =>
          wallet'.available - wallet'.debt = wallet.available - wallet.debt - Commission]_bookVars
===============================================================================
