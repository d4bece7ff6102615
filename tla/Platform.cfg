\* Around the use cases: the way of a request, add-ons, quotas, starts.
SPECIFICATION PlatformSpec
CONSTANTS
    MaxChanges = 2
    PluginBundles <- SomePlugins
    ExtensionBundles <- SomeExtensions
    PluginIds = {"p1", "p2", "p3"}
    ExtensionIds = {"x1", "x2"}
    Versions = {1, 2}
    Points = {"BEFORE_CREATE", "AFTER_CREATE"}
    BeforePoints = {"BEFORE_CREATE"}
    MaxFound = 3
    t1 = t1
    t2 = t2
    Callers = {t1, t2}
    Limit = 2
    Window = 2
    MaxClock = 5
    MaxCalls = 5
    Frontends = {"rest", "web", "cli"}
    Environments <- SomeEnvironments
    Files <- SomeFiles
    Attempts = 2
    MaxStarts = 2
    MaxFlips = 1
SYMMETRY Alike
INVARIANTS PlatformTypeOK BoundaryHolds HooksObey RegistriesHold QuotaIsFair StartsAreSound
CHECK_DEADLOCK FALSE
