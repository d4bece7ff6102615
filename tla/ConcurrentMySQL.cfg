\* MySQL, two workers and every command on a mission with max_total 2 and
\* three identifiers to create assignments with.
SPECIFICATION FairSpec
CONSTANTS
    p1 = p1
    p2 = p2
    nothing = nothing
    Workers = {w1, w2}
    Assignments = {a1, a2, a3}
    Slots = {s1}
    ObjectiveOf <- OneObjective
    NoOne = NoOne
    PerimeterOf <- AnyPerson
    MaxTotal = 2
    MaxConcurrent = 0
    StoredRows <- Empty
    Commands <- Everything
    SnapshotReads = TRUE
    MaxRequests = 4
INVARIANTS EveryQueueMoves TotalRespected
PROPERTIES DeletedStaysDeleted EveryRequestEnds
CHECK_DEADLOCK FALSE
