\* A REST worker and the Web App compete for three events, with a fault.
SPECIFICATION Spec
CONSTANTS
    EventCount = 3
    UseCases = {"first", "second"}
    UseCaseOf <- TwoUseCases
    Dispatchers = {"rest", "web"}
    RouteOf <- Routes
    Mute = {}
    Loops = {"web"}
    Limit = 2
    MaxFaults = 1
INVARIANTS TypeOK HandlingSound RepeatsBounded
PROPERTY KeepsPromise
