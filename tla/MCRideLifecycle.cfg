SPECIFICATION FairSpec
CONSTANTS
    Rides = {r1}
    Drivers = {d1, d2}
    Handlers = {h1, h2}
    NoRide = NoRide
    NoDriver = NoDriver
INVARIANTS
    TypeOK
    OwnershipInv
PROPERTIES
    EndedNeverRevived
    ImplementsAssignment
    RunEnds
