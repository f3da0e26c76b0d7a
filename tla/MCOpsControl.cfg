SPECIFICATION FairOpsSpec
CONSTANTS
    Rides = {r1}
    Drivers = {d1}
    Handlers = {h1}
    Staff = {s1, s2}
    NoRide = NoRide
    NoDriver = NoDriver
    NoStaff = NoStaff
    LeaseDuration = 1
    MaxTime = 1
INVARIANTS
    OpsTypeOK
PROPERTIES
    LiveLeaseNotStolen
    ImplementsLifecycle
    ExpiredReturns
