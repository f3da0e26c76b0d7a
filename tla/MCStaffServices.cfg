SPECIFICATION StaffSpec
CONSTANTS
    Asks = {m1, m2}
    MaxTokens = 3
    BoardJobs = {m1, m2}
    NoBoardJob = NoBoardJob
    MaxRings = 2
    Watched = {m1, m2}
    NoWatch = NoWatch
    MaxPolls = 2
    Managers = {m1, m2}
    MaxParkOps = 6
    Bearers = {b1, b2}
    Counters = {m1, m2}
    MaxSerial = 2
    MaxIssues = 2
    Papers = {n1, n2}
    Filings = {m1, m2}
    MaxFiles = 3
    MaxFilings = 5
    Monitored = {o1}
    MaxOffers = 1
    MaxSyncs = 1
    MaxFrames = 2
    FloorDrivers = {d1, d2}
    NoPick = NoPick
    MaxTurns = 1
    PickDrivers = {d1}
    NoRows = NoRows
    MaxShifts = 1
    Subjects = {m1, m2}
    NoSubject = NoSubject
    Officers = {m1, m2}
    MaxVersion = 3
    MaxPasses = 2
    MaxLetters = 2
    MaxOfficeOps = 4
SYMMETRY Symmetry
CHECK_DEADLOCK FALSE
INVARIANTS
    StaffTypeOK
    PagesStand
    
    ListsTellTheTruth
PROPERTIES
    RecordsStand
