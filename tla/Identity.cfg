\* Two people and two workers with local credentials; two accounts of the
\* identity provider; the cache of two processes.
SPECIFICATION IdentitySpec
CONSTANTS
    w1 = w1
    w2 = w2
    h1 = h1
    h2 = h2
    p1 = p1
    p2 = p2
    Workers = {w1, w2}
    Persons = {p1, p2}
    Secrets = {1, 2}
    MaxAttempts = 2
    LockTime = 2
    Second = 2
    TokenTTL = 6
    NoLock = NoLock
    NoCredential = NoCredential
    NoToken = NoToken
    MaxTokens = 1
    MaxTime = 3
    MaxRequests = 4
    Databases = {"MySQL", "PostgreSQL"}
    Stores = {"redis", "memory"}
    Visitors = {w1, w2}
    Externals = {p1, p2}
    MaxIds = 3
    MaxVisits = 3
    Unborn = Unborn
    Dropped = Dropped
    Processes = {h1, h2}
    Threads = {w1, w2}
    Levels = {"admin", "user"}
    FirstLevel = "admin"
    Gone = "gone"
    TTL = 1
    Latency = 1
SYMMETRY Alike
INVARIANTS IdentityTypeOK CredentialsHold RevokedStayOut AccountsSound CacheIsFresh
PROPERTIES LockoutSavesAreLocal IdentityFixed
CHECK_DEADLOCK FALSE
