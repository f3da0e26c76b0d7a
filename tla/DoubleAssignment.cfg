SPECIFICATION Spec
CONSTANTS
    Rides = {r1, r2}
    Drivers = {d1}
    Handlers = {h1, h2}
    NoRide = NoRide
    NoDriver = NoDriver
SYMMETRY Symmetry
INVARIANTS
    OneLiveRidePerDriver
