SPECIFICATION RideSpec
CONSTANTS
    SearchRides = {m1, m2}
    SearchDrivers = {d1}
    NoOwner = NoOwner
    MaxRounds = 1
    MaxTiers = 1
    Requests = {m1, m2, q3}
    NoRequest = NoRequest
    MaxExtensions = 1
    Parks = {m1, m2}
    Staff = {s1}
    ParkDrivers = {m1, m2}
    Nobody = Nobody
    MaxParks = 2
    Riders = {i1}
    Beats = {j1}
    Knocks = {m1, m2}
    UnreachableAfter = 1
    MaxToggles = 2
    Trips = {m1, m2}
    NoTrip = NoTrip
    Fetches = {g1}
    MaxFixes = 1
    MaxWire = 2
    Jobs = {k1}
    NoJob = NoJob
    MaxSignals = 1
    Readings = {v1}
    MaxWaits = 1
    MaxMoments = 1
    MaxPost = 2
SYMMETRY Symmetry
CHECK_DEADLOCK FALSE
INVARIANTS
    RideTypeOK
    RungByOne
    GuardedRideAlone
    NoOrphanSlot
    CancelledForCause
    SearchHeld
    
    OnTheRide
    NoGhostQuestion
PROPERTIES
    OwnEndFreesDrivers
    NoDragging
