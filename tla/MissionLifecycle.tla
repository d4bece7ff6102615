-------------------------- MODULE MissionLifecycle --------------------------
(***************************************************************************)
(* The mission life cycle of MissionManager: missions with a fixed         *)
(* blueprint, the assignments instantiated from it, their activities, the  *)
(* badges awarded to them, and the persons and groups they are given to.   *)
(*                                                                         *)
(* Every use case of the application services is one database transaction  *)
(* (@transactional, _shared.py) that commits or rolls back as a whole, so  *)
(* each is one action here; a use case that raises, is denied by the ACL   *)
(* or is vetoed by a plugin leaves the state alone and is no step.  This   *)
(* module is the serial view; interleavings inside a transaction are a     *)
(* module of their own.                                                    *)
(***************************************************************************)
EXTENDS Naturals, FiniteSets, Statuses

CONSTANTS
    Missions,          \* mission identifiers
    Assignments,       \* assignment identifiers
    Slots,             \* the activities of the blueprint
    ObjectiveOf,       \* the objective every activity of the blueprint is in
    Persons,           \* person identifiers
    Groups,            \* group identifiers
    NoOne,             \* the assignee of a draft (assignee_type/id = None)
    NoMission,         \* the mission of an identifier not yet used
    StoredMissions,    \* missions found in the database, with a policy
    StoredPolicy,      \* [max_total, max_concurrent] of these; 0 is None
    StoredPersons,     \* persons found in the database
    StoredGroups       \* groups found in the database

(* value_objects.py: a limit, when there is one, is positive and           *)
(* max_total >= max_concurrent; mission.validate(): some activity exists.  *)
ASSUME LifecycleAssumption ==
    /\ IsFiniteSet(Assignments)
    /\ Slots # {}
    /\ DOMAIN ObjectiveOf = Slots
    /\ NoOne \notin Persons \union Groups
    /\ Persons \intersect Groups = {}
    /\ Assignments \intersect (Missions \union Persons \union Groups) = {}
    /\ NoMission \notin Missions
    /\ StoredMissions \subseteq Missions
    /\ StoredPersons \subseteq Persons
    /\ StoredGroups \subseteq Groups
    /\ StoredPolicy \in [StoredMissions -> [max_total: Nat, max_concurrent: Nat]]
    /\ \A m \in StoredMissions :
          StoredPolicy[m].max_total # 0 /\ StoredPolicy[m].max_concurrent # 0
             => StoredPolicy[m].max_total >= StoredPolicy[m].max_concurrent

VARIABLES
    missions,          \* rows of mm_missions
    assignments,       \* rows of mm_assignments
    missionOf,         \* their mission_id (kept when the row is deleted)
    status,            \* their status
    assignee,          \* their (assignee_type, assignee_id), or NoOne
    activityStatus,    \* the status of each activity of each assignment
    assignees,         \* the assignees of each activity
    badged,            \* targets whose row has a badge_award_id
    awards,            \* rows of mm_badge_awards
    persons,           \* rows of mm_persons
    groups,            \* rows of mm_groups
    members,           \* rows of mm_person_groups, by group
    acl,               \* seeded rows of mm_acl_entries: <<resource, person>>
    used,              \* every uuid4 drawn so far: identifiers never return
    told               \* the status of each target as the outbox tells it

assignmentVars == <<assignments, missionOf, status, assignee>>
activityVars   == <<activityStatus, assignees>>
badgeVars      == <<badged, awards>>
peopleVars     == <<persons, groups, members>>
vars == <<missions, assignmentVars, activityVars, badgeVars, peopleVars,
          acl, used, told>>

-----------------------------------------------------------------------------
(* Outcomes                                                                *)

ObjectiveOutcome(a, o) ==
    Aggregate({activityStatus[a][s] : s \in {x \in Slots : ObjectiveOf[x] = o}})

Outcome(a) ==
    Aggregate({ObjectiveOutcome(a, ObjectiveOf[s]) : s \in Slots})

-----------------------------------------------------------------------------
(* Identifiers and policies                                                *)

AssignmentTarget(a)  == <<"ASSIGNMENT", a>>
ActivityTarget(a, s) == <<"ACTIVITY", a, s>>
TargetsOf(a) == {AssignmentTarget(a)} \union {ActivityTarget(a, s) : s \in Slots}
Targets == UNION {TargetsOf(a) : a \in Assignments}

MissionResource(m)    == <<"MISSION", m>>
AssignmentResource(a) == <<"ASSIGNMENT", a>>

Assignees == Persons \union Groups

(* MissionService.create gives every mission AssignmentPolicy.unlimited(); *)
(* a limit can only come from a stored row.                                *)
Unlimited == [max_total |-> 0, max_concurrent |-> 0]
PolicyOf(m) == IF m \in StoredMissions THEN StoredPolicy[m] ELSE Unlimited

ByMission(m)       == {a \in assignments : missionOf[a] = m}
ActiveByMission(m) == {a \in ByMission(m) : status[a] \in Active}

TotalAllowsOneMore(m) ==    \* mutant: > for >=
    PolicyOf(m).max_total # 0 => Cardinality(ByMission(m)) <= PolicyOf(m).max_total

TotalAllows(m) ==
    PolicyOf(m).max_total # 0 => Cardinality(ByMission(m)) < PolicyOf(m).max_total
ConcurrentAllows(m) ==
    PolicyOf(m).max_concurrent # 0
       => Cardinality(ActiveByMission(m)) < PolicyOf(m).max_concurrent

AssigneeExists(who) == who \in persons \union groups

(* The operator of a mutating use case is an authenticated person.         *)
Operators == persons

(* ActivityAssignmentPolicy: members of the group, the named person, or    *)
(* anyone while the assignment is a draft.                                 *)
InPerimeter(a, p) ==
    /\ assignee[a] \in Groups  => assignee[a] \in groups /\ p \in members[assignee[a]]
    /\ assignee[a] \in Persons => p = assignee[a]

(* BadgeService.award_to_assignment: who receives the badge.               *)
RecipientsOf(a) ==
    IF assignee[a] \in Groups
    THEN IF assignee[a] \in groups THEN members[assignee[a]] ELSE {}
    ELSE IF assignee[a] \in Persons THEN {assignee[a]} ELSE {}

NoAwardFound(t) == {}       \* mutant: exists_for_target and the unique key dropped

AwardFor(t) == {w \in awards : w.target = t}

-----------------------------------------------------------------------------
Init ==
    /\ missions = StoredMissions
    /\ assignments = {}
    /\ missionOf = [a \in Assignments |-> NoMission]
    /\ status = [a \in Assignments |-> "UNASSIGNED"]
    /\ assignee = [a \in Assignments |-> NoOne]
    /\ activityStatus = [a \in Assignments |-> [s \in Slots |-> "UNASSIGNED"]]
    /\ assignees = [a \in Assignments |-> [s \in Slots |-> {}]]
    /\ badged = {}
    /\ awards = {}
    /\ persons = StoredPersons
    /\ groups = StoredGroups
    /\ members = [g \in Groups |-> {}]
    /\ acl = {}
    /\ used = StoredMissions \union StoredPersons \union StoredGroups
    /\ told = [t \in Targets |-> "SILENT"]

-----------------------------------------------------------------------------
(* Missions                                                                *)

CreateMission(m, op) ==
    /\ m \notin used
    /\ op \in Operators
    /\ missions' = missions \union {m}
    /\ used' = used \union {m}
    /\ acl' = acl \union {<<MissionResource(m), op>>}
    /\ UNCHANGED <<assignmentVars, activityVars, badgeVars, peopleVars, told>>

(* The rows of A disappear: their columns return to their blank values, so *)
(* that only missionOf remembers a deleted assignment.                     *)
EraseAssignments(A) ==
    /\ assignments' = assignments \ A
    /\ status' = [a \in Assignments |-> IF a \in A THEN "UNASSIGNED" ELSE status[a]]
    /\ assignee' = [a \in Assignments |-> IF a \in A THEN NoOne ELSE assignee[a]]
    /\ activityStatus' = [a \in Assignments |->
           IF a \in A THEN [s \in Slots |-> "UNASSIGNED"] ELSE activityStatus[a]]
    /\ assignees' = [a \in Assignments |->
           IF a \in A THEN [s \in Slots |-> {}] ELSE assignees[a]]
    /\ badged' = badged \ UNION {TargetsOf(a) : a \in A}

OwnResourceOf(m) ==         \* mutant: the assignments' entries are forgotten
    {MissionResource(m)}

ResourcesOf(m) ==
    {MissionResource(m)} \union {AssignmentResource(a) : a \in ByMission(m)}

DeleteMission(m) ==
    /\ m \in missions
    /\ missions' = missions \ {m}
    /\ EraseAssignments(ByMission(m))
    /\ acl' = {e \in acl : e[1] \notin ResourcesOf(m)}
    /\ UNCHANGED <<missionOf, awards, peopleVars, used, told>>

-----------------------------------------------------------------------------
(* Assignments                                                             *)

(* AssignmentService.create, with an assignee (ASSIGNED, announced by an   *)
(* AssignmentCreated event) or as a draft (UNASSIGNED, no event).          *)
CreateAssignment(m, a, who, op) ==
    /\ m \in missions
    /\ a \notin used
    /\ op \in Operators
    /\ TotalAllows(m)
    /\ who # NoOne => AssigneeExists(who) /\ ConcurrentAllows(m)
    /\ assignments' = assignments \union {a}
    /\ used' = used \union {a}
    /\ missionOf' = [missionOf EXCEPT ![a] = m]
    /\ assignee' = [assignee EXCEPT ![a] = who]
    /\ status' = [status EXCEPT ![a] = IF who = NoOne THEN "UNASSIGNED" ELSE "ASSIGNED"]
    /\ told' = IF who = NoOne THEN told
               ELSE [told EXCEPT ![AssignmentTarget(a)] = "ASSIGNED"]
    /\ acl' = acl \union {<<AssignmentResource(a), op>>}
    /\ UNCHANGED <<missions, activityVars, badgeVars, peopleVars>>

Assign(a, who) ==
    /\ a \in assignments
    /\ status[a] = "UNASSIGNED"
    /\ AssigneeExists(who)
    /\ ConcurrentAllows(missionOf[a])
    /\ assignee' = [assignee EXCEPT ![a] = who]
    /\ status' = [status EXCEPT ![a] = "ASSIGNED"]
    /\ told' = [told EXCEPT ![AssignmentTarget(a)] = "ASSIGNED"]
    /\ UNCHANGED <<missions, assignments, missionOf, activityVars, badgeVars,
                   peopleVars, acl, used>>

(* AssignmentService.update_status: any transition a command may request,  *)
(* saved without MissionAssignment.validate().                             *)
UpdateAssignmentStatus(a, new) ==
    /\ a \in assignments
    /\ MayRequest(status[a], new)
    /\ new = "COMPLETED" => Outcome(a) = "COMPLETED"
    /\ status' = [status EXCEPT ![a] = new]
    /\ told' = [told EXCEPT ![AssignmentTarget(a)] = new]
    /\ UNCHANGED <<missions, assignments, missionOf, assignee, activityVars,
                   badgeVars, peopleVars, acl, used>>

DeleteAssignment(a) ==
    /\ a \in assignments
    /\ EraseAssignments({a})
    /\ acl' = {e \in acl : e[1] # AssignmentResource(a)}
    /\ UNCHANGED <<missions, missionOf, awards, peopleVars, used, told>>

-----------------------------------------------------------------------------
(* Activities                                                              *)

(* ActivityService.assign_to: no check of the activity's status, so a      *)
(* started or finished activity still takes new assignees.                 *)
AssignActivity(a, s, p) ==
    /\ a \in assignments
    /\ p \in persons
    /\ InPerimeter(a, p)
    /\ p \notin assignees[a][s]
    /\ assignees' = [assignees EXCEPT ![a][s] = @ \union {p}]
    /\ activityStatus' = [activityStatus EXCEPT
           ![a][s] = IF @ = "UNASSIGNED" THEN "ASSIGNED" ELSE @]
    /\ told' = [told EXCEPT ![ActivityTarget(a, s)] =
                    IF @ = "SILENT" THEN "ASSIGNED" ELSE @]
    /\ UNCHANGED <<missions, assignmentVars, badgeVars, peopleVars, acl, used>>

(* validate_activity_unassign: only before the work has started.           *)
MayUnassign(a, s) == activityStatus[a][s] \in {"UNASSIGNED", "ASSIGNED"}

(* ActivityService.unassign: publishes no event.                           *)
UnassignActivity(a, s, p) ==
    /\ a \in assignments
    /\ MayUnassign(a, s)
    /\ p \in assignees[a][s]
    /\ assignees' = [assignees EXCEPT ![a][s] = @ \ {p}]
    /\ activityStatus' = [activityStatus EXCEPT ![a][s] =
           IF assignees[a][s] = {p} /\ @ = "ASSIGNED" THEN "UNASSIGNED" ELSE @]
    /\ UNCHANGED <<missions, assignmentVars, badgeVars, peopleVars, acl, used, told>>

CascadeStartOnly(a, new) == \* mutant: a failure stays with the activity
    IF new = "IN_PROGRESS" /\ status[a] = "ASSIGNED" THEN "IN_PROGRESS" ELSE status[a]

Cascade(a, new) == CascadeTo(status[a], new)

(* What the outbox says of the parent after the step.                      *)
AnnounceStart(a, new) ==    \* mutant: the failure branch publishes nothing
    IF new = "IN_PROGRESS" /\ Cascade(a, new) # status[a]
    THEN Cascade(a, new) ELSE told[AssignmentTarget(a)]

AnnounceCascade(a, new) ==
    IF Cascade(a, new) # status[a] THEN Cascade(a, new) ELSE told[AssignmentTarget(a)]

(* ActivityService.update_status.  A cascade the parent's transition map   *)
(* refuses raises and rolls the whole use case back.                       *)
UpdateActivityStatus(a, s, new) ==
    /\ a \in assignments
    /\ MayRequest(activityStatus[a][s], new)
    /\ new = "IN_PROGRESS" => assignees[a][s] # {}
    /\ \/ Cascade(a, new) = status[a]
       \/ Cascade(a, new) \in StatusTransitions(status[a])
    /\ activityStatus' = [activityStatus EXCEPT ![a][s] = new]
    /\ status' = [status EXCEPT ![a] = Cascade(a, new)]
    /\ told' = [told EXCEPT
           ![AssignmentTarget(a)] = AnnounceCascade(a, new),
           ![ActivityTarget(a, s)] = new]
    /\ UNCHANGED <<missions, assignments, missionOf, assignee, assignees,
                   badgeVars, peopleVars, acl, used>>

-----------------------------------------------------------------------------
(* Badges                                                                  *)

Award(t, recipients) ==
    /\ AwardFor(t) = {}
    /\ recipients # {}
    /\ awards' = awards \union {[target |-> t, recipients |-> recipients]}
    /\ badged' = badged \union {t}
    /\ UNCHANGED <<missions, assignmentVars, activityVars, peopleVars, acl, used, told>>

AwardAssignment(a) ==
    /\ a \in assignments
    /\ status[a] = "COMPLETED"
    /\ Award(AssignmentTarget(a), RecipientsOf(a))

AwardActivity(a, s) ==
    /\ a \in assignments
    /\ activityStatus[a][s] = "COMPLETED"
    /\ Award(ActivityTarget(a, s), assignees[a][s])

-----------------------------------------------------------------------------
(* Persons and groups                                                      *)

AddPerson(p) ==
    /\ p \notin used
    /\ persons' = persons \union {p}
    /\ used' = used \union {p}
    /\ UNCHANGED <<missions, assignmentVars, activityVars, badgeVars, groups,
                   members, acl, told>>

(* SqlAlchemyPersonRepository.delete clears person.groups first.           *)
KeepMemberships(p) == members        \* mutant: the link rows stay
MembershipsWithout(p) == [g \in Groups |-> members[g] \ {p}]

(* PersonService.remove: memberships and USER entries go with the person;  *)
(* assignments, activities and awards that name it are left alone.         *)
RemovePerson(p) ==
    /\ p \in persons
    /\ persons' = persons \ {p}
    /\ members' = MembershipsWithout(p)
    /\ acl' = {e \in acl : e[2] # p}
    /\ UNCHANGED <<missions, assignmentVars, activityVars, badgeVars, groups, used, told>>

AddGroup(g) ==
    /\ g \notin used
    /\ groups' = groups \union {g}
    /\ used' = used \union {g}
    /\ UNCHANGED <<missions, assignmentVars, activityVars, badgeVars, persons,
                   members, acl, told>>

RemoveGroup(g) ==
    /\ g \in groups
    /\ groups' = groups \ {g}
    /\ members' = [members EXCEPT ![g] = {}]
    /\ UNCHANGED <<missions, assignmentVars, activityVars, badgeVars, persons,
                   acl, used, told>>

AddGroupMember(g, p) ==
    /\ g \in groups
    /\ p \in persons \ members[g]
    /\ members' = [members EXCEPT ![g] = @ \union {p}]
    /\ UNCHANGED <<missions, assignmentVars, activityVars, badgeVars, persons,
                   groups, acl, used, told>>

RemoveGroupMember(g, p) ==
    /\ p \in members[g]
    /\ members' = [members EXCEPT ![g] = @ \ {p}]
    /\ UNCHANGED <<missions, assignmentVars, activityVars, badgeVars, persons,
                   groups, acl, used, told>>

-----------------------------------------------------------------------------
MissionNext ==
    \/ \E m \in Missions, op \in Persons : CreateMission(m, op)
    \/ \E m \in Missions : DeleteMission(m)

AssignmentNext ==
    \E a \in Assignments :
       \/ \E m \in Missions, who \in Assignees \union {NoOne}, op \in Persons :
             CreateAssignment(m, a, who, op)
       \/ \E who \in Assignees : Assign(a, who)
       \/ \E new \in Status : UpdateAssignmentStatus(a, new)
       \/ DeleteAssignment(a)

ActivityNext ==
    \E a \in Assignments, s \in Slots :
       \/ \E p \in Persons : AssignActivity(a, s, p)
       \/ \E p \in Persons : UnassignActivity(a, s, p)
       \/ \E new \in Status : UpdateActivityStatus(a, s, new)

BadgeNext ==
    \E a \in Assignments :
       \/ AwardAssignment(a)
       \/ \E s \in Slots : AwardActivity(a, s)

PeopleNext ==
    \/ \E p \in Persons : AddPerson(p) \/ RemovePerson(p)
    \/ \E g \in Groups : AddGroup(g) \/ RemoveGroup(g)
    \/ \E g \in Groups, p \in Persons : AddGroupMember(g, p) \/ RemoveGroupMember(g, p)

Next == MissionNext \/ AssignmentNext \/ ActivityNext \/ BadgeNext \/ PeopleNext

Spec == Init /\ [][Next]_vars

-----------------------------------------------------------------------------
(* What the life cycle guarantees                                          *)

(* Every variable has its type, and the foreign keys of the schema hold:   *)
(* an assignment row has a mission row, a membership row a person and a    *)
(* group row (models.py).                                                  *)
TypeOK ==
    /\ missions \subseteq Missions
    /\ assignments \subseteq Assignments
    /\ missionOf \in [Assignments -> Missions \union {NoMission}]
    /\ \A a \in assignments : missionOf[a] \in missions
    /\ status \in [Assignments -> Status]
    /\ assignee \in [Assignments -> Assignees \union {NoOne}]
    /\ activityStatus \in [Assignments -> [Slots -> Status]]
    /\ assignees \in [Assignments -> [Slots -> SUBSET Persons]]
    /\ badged \subseteq Targets
    /\ awards \subseteq [target: Targets, recipients: SUBSET Persons]
    /\ persons \subseteq Persons
    /\ groups \subseteq Groups
    /\ members \in [Groups -> SUBSET persons]
    /\ \A g \in Groups \ groups : members[g] = {}
    /\ used \subseteq Missions \union Assignments \union Persons \union Groups
    /\ missions \union assignments \union persons \union groups \subseteq used
    /\ told \in [Targets -> Status \union {"SILENT"}]

(* An assignment is COMPLETED only when all of its activities are, however *)
(* they are spread over objectives and whatever was updated meanwhile.     *)
CompletedMeansDone ==
    \A a \in Assignments, s \in Slots :
       status[a] = "COMPLETED" => activityStatus[a][s] = "COMPLETED"

(* A failed activity has failed its assignment, in the same step, and      *)
(* nothing done later hides the failure (activity_service.py:265).         *)
FailureReachesAssignment ==
    \A a \in Assignments, s \in Slots :
       activityStatus[a][s] = "FAILED" => status[a] = "FAILED"

(* Work that has started keeps somebody who does it: no sequence of        *)
(* assign, unassign and status updates leaves a running or finished        *)
(* activity without assignees, or an UNASSIGNED one with some.             *)
WorkHasAssignees ==
    \A a \in Assignments, s \in Slots :
       /\ activityStatus[a][s] \in {"IN_PROGRESS", "COMPLETED"} => assignees[a][s] # {}
       /\ activityStatus[a][s] = "UNASSIGNED" => assignees[a][s] = {}

(* The two levels of status and the assignees agree after any sequence of  *)
(* calls.                                                                  *)
StatusesAgree == CompletedMeansDone /\ FailureReachesAssignment /\ WorkHasAssignees

(* Award rows and the pointers of their targets tell the same story: a     *)
(* target has at most one award, a live one points at it exactly when it   *)
(* exists, is COMPLETED, and an activity's award goes to its assignees.    *)
AwardFits(a, w) ==
    /\ w.target \in TargetsOf(a) => w.target \in badged
    /\ w.target = AssignmentTarget(a) => status[a] = "COMPLETED"
    /\ \A s \in Slots : w.target = ActivityTarget(a, s) =>
          /\ activityStatus[a][s] = "COMPLETED"
          /\ w.recipients \subseteq assignees[a][s]

AwardsMatchTargets ==
    /\ \A w1, w2 \in awards : w1.target = w2.target => w1 = w2
    /\ \A w \in awards : w.recipients # {}
    /\ \A a \in assignments, w \in awards : AwardFits(a, w)
    /\ \A t \in badged : \E w \in awards : w.target = t

(* A limited mission never has more assignments than max_total at a time.  *)
TotalRespected ==
    \A m \in missions :
       PolicyOf(m).max_total # 0 => Cardinality(ByMission(m)) <= PolicyOf(m).max_total

(* The entries seeded for a creator never outlive the resource or the      *)
(* person ("non devono restare orfane", person_service.py:166).            *)
NoOrphanEntries ==
    \A e \in acl :
       /\ \/ \E m \in missions : e[1] = MissionResource(m)
          \/ \E a \in assignments : e[1] = AssignmentResource(a)
       /\ e[2] \in persons

(* A consumer that replays the outbox knows the state of every live        *)
(* assignment and activity: only drafts are silent, and only the return of *)
(* an activity to UNASSIGNED goes unannounced.                             *)
ToldAssignment(a) ==
    told[AssignmentTarget(a)] = IF status[a] = "UNASSIGNED" THEN "SILENT" ELSE status[a]

ToldActivity(a, s) ==
    IF activityStatus[a][s] = "UNASSIGNED"
    THEN told[ActivityTarget(a, s)] \in {"SILENT", "ASSIGNED"}
    ELSE told[ActivityTarget(a, s)] = activityStatus[a][s]

OutboxTellsStatus ==
    \A a \in assignments : ToldAssignment(a) /\ \A s \in Slots : ToldActivity(a, s)

(* While its row lives, an assignment never returns to being a draft, and  *)
(* a terminal status of an assignment or of an activity is final, through  *)
(* commands and cascades alike.                                            *)
NoStatusRegresses ==
    [][\A a \in assignments \intersect assignments' :
          /\ status[a] # "UNASSIGNED" => status'[a] # "UNASSIGNED"
          /\ status[a] \in Terminal => status'[a] = status[a]
          /\ \A s \in Slots : activityStatus[a][s] \in Terminal =>
                activityStatus'[a][s] = activityStatus[a][s]]_vars

(* What makes these invariants inductive: a row that does not exist has    *)
(* blank columns, and an identifier not drawn yet has left no trace.       *)
AbsentIsBlank ==
    \A a \in Assignments \ assignments :
       /\ status[a] = "UNASSIGNED" /\ assignee[a] = NoOne
       /\ \A s \in Slots : activityStatus[a][s] = "UNASSIGNED" /\ assignees[a][s] = {}
       /\ TargetsOf(a) \intersect badged = {}

UnusedLeftNoTrace ==
    \A a \in Assignments \ used : \A t \in TargetsOf(a) :
       told[t] = "SILENT" /\ \A w \in awards : w.target # t

LifecycleInv ==
    /\ TypeOK
    /\ AbsentIsBlank
    /\ UnusedLeftNoTrace
    /\ CompletedMeansDone
    /\ FailureReachesAssignment
    /\ WorkHasAssignees
    /\ AwardsMatchTargets
    /\ OutboxTellsStatus

(* The life cycle implements the promise of AssignmentPromise.             *)
Phase(a) ==
    IF a \notin used                   THEN "none"
    ELSE IF a \notin assignments       THEN "gone"
    ELSE IF status[a] = "UNASSIGNED"   THEN "draft"
    ELSE IF status[a] \in Active       THEN "open"
    ELSE IF status[a] = "COMPLETED"    THEN "succeeded"
    ELSE "failed"

Work(a, s) ==
    CASE activityStatus[a][s] = "COMPLETED" -> "done"
      [] activityStatus[a][s] = "FAILED"    -> "lost"
      [] OTHER                              -> "todo"

Promise == INSTANCE AssignmentPromise WITH
    phase <- [a \in Assignments |-> Phase(a)],
    work  <- [a \in Assignments |-> [s \in Slots |-> Work(a, s)]]

(* Every behaviour of the use cases is one AssignmentPromise allows.       *)
KeepsPromise == Promise!Spec

=============================================================================
