SPECIFICATION FairSpec
CONSTANTS
    Rides = {r1}
    Handlers = {h1, h2}
    Worker = Worker
    NoRide = NoRide
    MaxAttempts = 2
    MaxCharges = 2
INVARIANTS
    TypeOK
    Accounted
PROPERTIES
    HistoricalUntouched
    FailureResolved
