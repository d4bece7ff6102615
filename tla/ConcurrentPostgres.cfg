\* PostgreSQL, two workers: creation, assignment, staffing and deletion on a
\* mission with at most one operative assignment.
SPECIFICATION Spec
CONSTANTS
    p1 = p1
    p2 = p2
    nothing = nothing
    Workers = {w1, w2}
    Assignments = {a1, a2}
    Slots = {s1}
    ObjectiveOf <- OneObjective
    NoOne = NoOne
    PerimeterOf <- AnyPerson
    MaxTotal = 0
    MaxConcurrent = 1
    StoredRows <- Empty
    Commands <- Assigned
    SnapshotReads = FALSE
    MaxRequests = 5
INVARIANT ConcurrentRespected
CHECK_DEADLOCK FALSE
