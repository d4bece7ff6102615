\* One mission of two objectives, one assignment: the activities, the
\* cascades, the badges, and people who come and go.
SPECIFICATION Spec
CONSTANTS
    m1 = m1
    Missions = {m1}
    Assignments = {a1}
    Slots = {s1, s2}
    ObjectiveOf <- SeparateObjectives
    Persons = {p1, p2}
    Groups = {g1}
    NoOne = NoOne
    NoMission = NoMission
    StoredMissions = {}
    StoredPolicy <- NoPolicy
    StoredPersons = {p1}
    StoredGroups = {}
INVARIANTS TypeOK StatusesAgree AwardsMatchTargets NoOrphanEntries OutboxTellsStatus
PROPERTIES NoStatusRegresses KeepsPromise
CHECK_DEADLOCK FALSE
