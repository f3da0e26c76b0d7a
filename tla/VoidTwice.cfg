SPECIFICATION BooksSpec
CONSTANTS
    CashRides = {c1}
    WalletRides = {w1}
    Topups = {t1}
    PaxTopups = {x1}
    Payouts = {o1}
    Admins = {a1, a2}
    Anyone = Anyone
    Commission = 1
    Earning = 2
    TopupAmount = 1
    MaxPayout = 2
    MaxCredits = 2
CHECK_DEADLOCK FALSE
INVARIANTS
    VoidedOnce
