\* PostgreSQL: a password that was changed stays changed.
SPECIFICATION Spec
CONSTANTS
    Workers = {w1, w2}
    Persons = {p1, p2}
    Secrets = {1, 2}
    MaxAttempts = 2
    LockTime = 2
    Second = 2
    TokenTTL = 6
    NoLock = NoLock
    NoCredential = NoCredential
    NoToken = NoToken
    MaxTokens = 1
    MaxTime = 1
    MaxRequests = 4
    Databases = {"PostgreSQL"}
    Stores = {"redis", "memory"}
PROPERTY PasswordsLast
CHECK_DEADLOCK FALSE
