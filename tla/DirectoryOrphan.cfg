\* A first administrator that could not be set up leaves no account behind.
SPECIFICATION AccountsSpec
CONSTANTS
    Visitors = {t1, t2}
    Externals = {e1, e2}
    MaxIds = 3
    MaxVisits = 3
    Unborn = Unborn
    Dropped = Dropped
INVARIANT FailedSetupLeavesNothing
CHECK_DEADLOCK FALSE
