SPECIFICATION BackSpec
CONSTANTS
    CashRides = {c1}
    WalletRides = {w1}
    Topups = {t1}
    PaxTopups = {x1}
    Payouts = {o1}
    Admins = {m1, m2}
    Commission = 1
    Earning = 2
    TopupAmount = 1
    MaxPayout = 1
    MaxCredits = 1
    Marketers = {ma, mb}
    Author = ma
    Senders = {se}
    Passengers = {u1}
    NoOne = NoOne
    MaxEdits = 1
    OutreachRides = {m1, m2}
    Automators = {m1, m2}
    MaxTries = 2
    Calls = {m1, m2, l3}
    MailHandlers = {m1, m2}
    Queuers = {m1, m2}
    Clerks = {m1, m2}
    MaxOps = 3
    Anyone = Anyone
    Dispatchers = {y1}
    Places = {z1}
    Phones = {f1}
    Hails = {h1}
    Desks = {m1, m2}
    NoPlace = NoPlace
    NoDispatcher = NoDispatcher
    NoHail = NoHail
    Sweeper = Sweeper
    MaxShifts = 1
    MaxUnmarked = 1
SYMMETRY Symmetry
CHECK_DEADLOCK FALSE
INVARIANTS
    BackTypeOK
    EmailOnce
    SentAsApproved
    PushedOnce
    RunsOnce
    Silent
    QueueInOrder
    AlertsOnDuty
    BooksStand
    
PROPERTIES
    DispatchersWordStands
