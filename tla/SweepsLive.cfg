SPECIFICATION OpsSpec
CONSTANTS
    Rides = {r1}
    Drivers = {d1}
    Handlers = {h1}
    Staff = {s1, s2}
    NoRide = NoRide
    NoDriver = NoDriver
    NoStaff = NoStaff
    LeaseDuration = 1
    MaxTime = 2
PROPERTIES
    SweepSparesLive
