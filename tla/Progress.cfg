\* What must happen in the end: deliveries, notifications, starts.
SPECIFICATION ProgressSpec
CONSTANTS
    EventCount = 2
    UseCases = {"first", "second"}
    UseCaseOf <- TwoUseCases
    Dispatchers = {"rest", "web"}
    RouteOf <- Routes
    Mute = {}
    Loops = {"web"}
    Limit = 1
    MaxFaults = 2
    c1 = c1
    c2 = c2
    Sockets = {c1, c2}
    MaxEvents = 2
    Frontends = {"rest", "web"}
    Environments <- FewEnvironments
    Files <- FewFiles
    Attempts = 2
    MaxStarts = 2
    MaxFlips = 1
INVARIANT ToldOnce
PROPERTIES EventuallyDelivered EverybodyHears StartsEnd
CHECK_DEADLOCK FALSE
