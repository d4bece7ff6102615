\* The entries with two workers, one mission and its assignment; the sessions
\* of one account with two threads.
SPECIFICATION AccessSpec
CONSTANTS
    Workers = {w1, w2}
    admin = admin
    user = user
    m1 = m1
    a1 = a1
    Persons = {admin, user}
    Concrete <- Tree
    Above <- TreeAbove
    NoResource = NoResource
    Entries = 9
    MaxRequests = 4
    Named <- NamedEntries
    NoLevel = NoLevel
    NoGroup = NoGroup
    AnonLevel = 2
    Anyone = Anyone
    NoProfile = NoProfile
    StoredProfiles <- People
    Defaults <- Thresholds
    Inputs <- Offers
    Bodies <- Patches
    NewProfiles <- Assigned
    Databases = {"MySQL", "PostgreSQL"}
    t1 = t1
    t2 = t2
    Threads = {t1, t2}
    Accounts = {"a"}
    SessionProfiles = {"low", "high"}
    FirstProfile = "low"
    SessionIds = 2
    RefreshIds = 3
    NoSession = NoSession
    NoRefresh = NoRefresh
    MaxCalls = 6
    MaxEra = 2
SYMMETRY Alike
INVARIANTS AccessTypeOK OnlyStaleWritesAdmitAnonymous AccountsDecide SessionsEnd OneLiveToken
PROPERTY RulesComeFromManagers
CHECK_DEADLOCK FALSE
