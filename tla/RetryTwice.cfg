SPECIFICATION Spec
CONSTANTS
    Rides = {r1}
    Handlers = {h1, h2}
    Worker = Worker
    NoRide = NoRide
    MaxAttempts = 1
    MaxCharges = 2
PROPERTIES
    RetryIsNoop
