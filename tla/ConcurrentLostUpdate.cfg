\* MySQL, two workers steer a running assignment and its activity.
SPECIFICATION Spec
CONSTANTS
    p1 = p1
    p2 = p2
    nothing = nothing
    Workers = {w1, w2}
    Assignments = {a1}
    Slots = {s1}
    ObjectiveOf <- OneObjective
    NoOne = NoOne
    PerimeterOf <- AnyPerson
    MaxTotal = 0
    MaxConcurrent = 0
    StoredRows <- Running
    Commands <- Everything
    SnapshotReads = TRUE
    MaxRequests = 2
PROPERTY TerminalIsFinal
CHECK_DEADLOCK FALSE
