\* A stored mission limited to 2 assignments, 1 of them operative: creation,
\* deletion and the counters.
SPECIFICATION Spec
CONSTANTS
    m1 = m1
    Missions = {m1}
    Assignments = {a1, a2, a3}
    Slots = {s1}
    ObjectiveOf <- SeparateObjectives
    Persons = {p1}
    Groups = {}
    NoOne = NoOne
    NoMission = NoMission
    StoredMissions = {m1}
    StoredPolicy <- TwoButOneLive
    StoredPersons = {p1}
    StoredGroups = {}
SYMMETRY LimitSymmetry
INVARIANT TotalRespected
CHECK_DEADLOCK FALSE
