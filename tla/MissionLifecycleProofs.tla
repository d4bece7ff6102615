----------------------- MODULE MissionLifecycleProofs -----------------------
(***************************************************************************)
(* What MissionLifecycle guarantees for every set of missions, assignments,*)
(* slots and people, and every stored policy.                              *)
(***************************************************************************)
EXTENDS MissionLifecycle, FiniteSetTheorems, TLAPS

-----------------------------------------------------------------------------
(* Types                                                                   *)

LEMMA TargetFacts ==
    /\ \A a \in Assignments : AssignmentTarget(a) \in Targets
    /\ \A a \in Assignments, s \in Slots : ActivityTarget(a, s) \in Targets
    /\ \A a \in Assignments : TargetsOf(a) \subseteq Targets
BY DEF Targets, TargetsOf

LEMMA TypeInit == Init => TypeOK
BY LifecycleAssumption DEF Init, TypeOK, Status

LEMMA TypeMissions == TypeOK /\ MissionNext => TypeOK'
<1> SUFFICES ASSUME TypeOK, MissionNext PROVE TypeOK'
    OBVIOUS
<1>1. CASE \E m \in Missions, op \in Persons : CreateMission(m, op)
    BY <1>1 DEF CreateMission, TypeOK, assignmentVars, activityVars, badgeVars, peopleVars
<1>2. CASE \E m \in Missions : DeleteMission(m)
    BY <1>2 DEF DeleteMission, EraseAssignments, ByMission, TypeOK, Status, peopleVars
<1> QED BY <1>1, <1>2 DEF MissionNext

LEMMA TypeAssignments == TypeOK /\ AssignmentNext => TypeOK'
<1> SUFFICES ASSUME TypeOK, NEW a \in Assignments,
                    \/ \E m \in Missions, who \in Assignees \union {NoOne}, op \in Persons :
                          CreateAssignment(m, a, who, op)
                    \/ \E who \in Assignees : Assign(a, who)
                    \/ \E new \in Status : UpdateAssignmentStatus(a, new)
                    \/ DeleteAssignment(a)
             PROVE  TypeOK'
    BY DEF AssignmentNext
<1>1. ASSUME NEW m \in Missions, NEW who \in Assignees \union {NoOne}, NEW op \in Persons,
             CreateAssignment(m, a, who, op)
      PROVE  TypeOK'
    BY <1>1, TargetFacts DEF CreateAssignment, TypeOK, Status, activityVars, badgeVars, peopleVars
<1>2. ASSUME NEW who \in Assignees, Assign(a, who) PROVE TypeOK'
    BY <1>2, TargetFacts DEF Assign, TypeOK, Status, activityVars, badgeVars, peopleVars
<1>3. ASSUME NEW new \in Status, UpdateAssignmentStatus(a, new) PROVE TypeOK'
    BY <1>3, TargetFacts DEF UpdateAssignmentStatus, TypeOK, activityVars, badgeVars, peopleVars
<1>4. CASE DeleteAssignment(a)
    BY <1>4 DEF DeleteAssignment, EraseAssignments, TypeOK, Status, peopleVars
<1> QED BY <1>1, <1>2, <1>3, <1>4

LEMMA CascadeType ==
    ASSUME TypeOK, NEW a \in Assignments, NEW new \in Status
    PROVE  /\ Cascade(a, new) \in Status
           /\ AnnounceCascade(a, new) \in Status \union {"SILENT"}
BY TargetFacts DEF Cascade, CascadeTo, AnnounceCascade, TypeOK, Status, Terminal

LEMMA TypeActivities == TypeOK /\ ActivityNext => TypeOK'
<1> SUFFICES ASSUME TypeOK, NEW a \in Assignments, NEW s \in Slots,
                    \/ \E p \in Persons : AssignActivity(a, s, p)
                    \/ \E p \in Persons : UnassignActivity(a, s, p)
                    \/ \E new \in Status : UpdateActivityStatus(a, s, new)
             PROVE  TypeOK'
    BY DEF ActivityNext
<1>1. ASSUME NEW p \in Persons, AssignActivity(a, s, p) PROVE TypeOK'
    BY <1>1, TargetFacts
    DEF AssignActivity, TypeOK, Status, assignmentVars, badgeVars, peopleVars
<1>2. ASSUME NEW p \in Persons, UnassignActivity(a, s, p) PROVE TypeOK'
    BY <1>2 DEF UnassignActivity, TypeOK, Status, assignmentVars, badgeVars, peopleVars
<1>3. ASSUME NEW new \in Status, UpdateActivityStatus(a, s, new) PROVE TypeOK'
    BY <1>3, TargetFacts, CascadeType DEF UpdateActivityStatus, TypeOK, badgeVars, peopleVars
<1> QED BY <1>1, <1>2, <1>3

LEMMA TypeBadges == TypeOK /\ BadgeNext => TypeOK'
<1> SUFFICES ASSUME TypeOK, BadgeNext PROVE TypeOK'
    OBVIOUS
<1>1. ASSUME NEW t \in Targets, NEW R \in SUBSET Persons, Award(t, R) PROVE TypeOK'
    BY <1>1 DEF Award, TypeOK, assignmentVars, activityVars, peopleVars
<1>2. ASSUME NEW a \in Assignments, AwardAssignment(a) PROVE TypeOK'
    <2>1. RecipientsOf(a) \in SUBSET Persons
        BY DEF RecipientsOf, TypeOK
    <2> QED BY <1>1, <1>2, <2>1, TargetFacts DEF AwardAssignment
<1>3. ASSUME NEW a \in Assignments, NEW s \in Slots, AwardActivity(a, s) PROVE TypeOK'
    <2>1. assignees[a][s] \in SUBSET Persons
        BY DEF TypeOK
    <2> QED BY <1>1, <1>3, <2>1, TargetFacts DEF AwardActivity
<1> QED BY <1>2, <1>3 DEF BadgeNext

LEMMA TypePeople == TypeOK /\ PeopleNext => TypeOK'
<1> SUFFICES ASSUME TypeOK, PeopleNext PROVE TypeOK'
    OBVIOUS
<1> USE DEF TypeOK, assignmentVars, activityVars, badgeVars
<1>1. CASE \E p \in Persons : AddPerson(p)
    BY <1>1 DEF AddPerson
<1>2. CASE \E p \in Persons : RemovePerson(p)
    BY <1>2 DEF RemovePerson, MembershipsWithout
<1>3. CASE \E g \in Groups : AddGroup(g)
    BY <1>3 DEF AddGroup
<1>4. CASE \E g \in Groups : RemoveGroup(g)
    BY <1>4 DEF RemoveGroup
<1>5. CASE \E g \in Groups, p \in Persons : AddGroupMember(g, p)
    BY <1>5 DEF AddGroupMember
<1>6. CASE \E g \in Groups, p \in Persons : RemoveGroupMember(g, p)
    BY <1>6 DEF RemoveGroupMember
<1> QED BY <1>1, <1>2, <1>3, <1>4, <1>5, <1>6 DEF PeopleNext

LEMMA TypeStep == TypeOK /\ [Next]_vars => TypeOK'
<1>1. TypeOK /\ UNCHANGED vars => TypeOK'
    BY DEF TypeOK, vars, assignmentVars, activityVars, badgeVars, peopleVars
<1> QED BY <1>1, TypeMissions, TypeAssignments, TypeActivities, TypeBadges, TypePeople DEF Next

(* Every reachable state is well typed and respects the foreign keys.      *)
THEOREM TypeCorrect == Spec => []TypeOK
<1> QED BY TypeInit, TypeStep, PTL DEF Spec

-----------------------------------------------------------------------------
(* Statuses                                                                *)

LEMMA TargetsDistinct ==
    \A a, b \in Assignments :
       /\ AssignmentTarget(a) = AssignmentTarget(b) => a = b
       /\ \A s, r \in Slots : ActivityTarget(a, s) = ActivityTarget(b, r) => a = b /\ s = r
       /\ \A s \in Slots : AssignmentTarget(a) # ActivityTarget(b, s)
BY DEF AssignmentTarget, ActivityTarget

LEMMA TargetsOfDistinct ==
    \A a, b \in Assignments : a # b => TargetsOf(a) \intersect TargetsOf(b) = {}
BY TargetsDistinct DEF TargetsOf

(* compute_outcome() answers COMPLETED only when every activity is.        *)
LEMMA OutcomeCompleted ==
    ASSUME NEW a \in Assignments, Outcome(a) = "COMPLETED"
    PROVE  \A s \in Slots : activityStatus[a][s] = "COMPLETED"
<1>1. \A S : Aggregate(S) = "COMPLETED" => S = {"COMPLETED"}
    BY DEF Aggregate
<1> SUFFICES ASSUME NEW s \in Slots PROVE activityStatus[a][s] = "COMPLETED"
    OBVIOUS
<1>2. ObjectiveOutcome(a, ObjectiveOf[s]) = "COMPLETED"
    BY <1>1 DEF Outcome
<1> QED BY <1>1, <1>2 DEF ObjectiveOutcome

(* The steps that touch neither an assignment nor an activity.             *)
LEMMA Bystanders ==
    ASSUME BadgeNext \/ PeopleNext \/ UNCHANGED vars
           \/ (\E m \in Missions, op \in Persons : CreateMission(m, op))
    PROVE  UNCHANGED <<assignments, missionOf, status, assignee, activityStatus,
                       assignees, told>>
<1>1. CASE BadgeNext
    BY <1>1 DEF BadgeNext, AwardAssignment, AwardActivity, Award, assignmentVars, activityVars
<1>2. CASE PeopleNext
    BY <1>2 DEF PeopleNext, AddPerson, RemovePerson, AddGroup, RemoveGroup, AddGroupMember,
                RemoveGroupMember, assignmentVars, activityVars
<1>3. CASE UNCHANGED vars
    BY <1>3 DEF vars, assignmentVars, activityVars
<1>4. CASE \E m \in Missions, op \in Persons : CreateMission(m, op)
    BY <1>4 DEF CreateMission, assignmentVars, activityVars
<1> QED BY <1>1, <1>2, <1>3, <1>4

StatusInv ==
    /\ AbsentIsBlank
    /\ CompletedMeansDone
    /\ FailureReachesAssignment
    /\ WorkHasAssignees

LEMMA StatusErase ==
    ASSUME TypeOK, StatusInv, NEW A \in SUBSET Assignments, EraseAssignments(A)
    PROVE  StatusInv'
<1> USE DEF TypeOK
<1>1. AbsentIsBlank'
    BY DEF StatusInv, AbsentIsBlank, EraseAssignments
<1>2. CompletedMeansDone'
    BY DEF StatusInv, CompletedMeansDone, EraseAssignments
<1>3. FailureReachesAssignment'
    BY DEF StatusInv, FailureReachesAssignment, EraseAssignments
<1>4. WorkHasAssignees'
    BY DEF StatusInv, WorkHasAssignees, EraseAssignments
<1> QED BY <1>1, <1>2, <1>3, <1>4 DEF StatusInv

LEMMA StatusAssignments == TypeOK /\ StatusInv /\ AssignmentNext => StatusInv'
<1> SUFFICES ASSUME TypeOK, StatusInv, NEW a \in Assignments,
                    \/ \E m \in Missions, who \in Assignees \union {NoOne}, op \in Persons :
                          CreateAssignment(m, a, who, op)
                    \/ \E who \in Assignees : Assign(a, who)
                    \/ \E new \in Status : UpdateAssignmentStatus(a, new)
                    \/ DeleteAssignment(a)
             PROVE  StatusInv'
    BY DEF AssignmentNext
<1> USE DEF TypeOK, StatusInv
<1>1. ASSUME NEW m \in Missions, NEW who \in Assignees \union {NoOne}, NEW op \in Persons,
             CreateAssignment(m, a, who, op)
      PROVE  StatusInv'
    <2> USE <1>1 DEF CreateAssignment, activityVars, badgeVars
    <2>1. a \notin assignments
        OBVIOUS
    <2>2. AbsentIsBlank'
        BY DEF AbsentIsBlank
    <2>3. CompletedMeansDone'
        BY DEF CompletedMeansDone
    <2>4. FailureReachesAssignment'
        BY <2>1 DEF FailureReachesAssignment, AbsentIsBlank
    <2>5. WorkHasAssignees'
        BY DEF WorkHasAssignees
    <2> QED BY <2>2, <2>3, <2>4, <2>5
<1>2. ASSUME NEW who \in Assignees, Assign(a, who) PROVE StatusInv'
    <2> USE <1>2 DEF Assign, activityVars, badgeVars
    <2>2. AbsentIsBlank'
        BY DEF AbsentIsBlank
    <2>3. CompletedMeansDone'
        BY DEF CompletedMeansDone
    <2>4. FailureReachesAssignment'
        BY DEF FailureReachesAssignment
    <2>5. WorkHasAssignees'
        BY DEF WorkHasAssignees
    <2> QED BY <2>2, <2>3, <2>4, <2>5
<1>3. ASSUME NEW new \in Status, UpdateAssignmentStatus(a, new) PROVE StatusInv'
    <2> USE <1>3 DEF UpdateAssignmentStatus, activityVars, badgeVars
    <2>1. status[a] # "FAILED"
        BY DEF MayRequest, StatusTransitions
    <2>2. AbsentIsBlank'
        BY DEF AbsentIsBlank
    <2>3. CompletedMeansDone'
        BY OutcomeCompleted DEF CompletedMeansDone
    <2>4. FailureReachesAssignment'
        BY <2>1 DEF FailureReachesAssignment
    <2>5. WorkHasAssignees'
        BY DEF WorkHasAssignees
    <2> QED BY <2>2, <2>3, <2>4, <2>5
<1>4. CASE DeleteAssignment(a)
    BY <1>4, StatusErase DEF DeleteAssignment
<1> QED BY <1>1, <1>2, <1>3, <1>4

LEMMA StatusActivities == TypeOK /\ StatusInv /\ ActivityNext => StatusInv'
<1> SUFFICES ASSUME TypeOK, StatusInv, NEW a \in Assignments, NEW s \in Slots,
                    \/ \E p \in Persons : AssignActivity(a, s, p)
                    \/ \E p \in Persons : UnassignActivity(a, s, p)
                    \/ \E new \in Status : UpdateActivityStatus(a, s, new)
             PROVE  StatusInv'
    BY DEF ActivityNext
<1> USE DEF TypeOK, StatusInv
<1>1. ASSUME NEW p \in Persons, AssignActivity(a, s, p) PROVE StatusInv'
    <2> USE <1>1 DEF AssignActivity, assignmentVars, badgeVars
    <2>2. AbsentIsBlank'
        BY DEF AbsentIsBlank
    <2>3. CompletedMeansDone'
        BY DEF CompletedMeansDone
    <2>4. FailureReachesAssignment'
        BY DEF FailureReachesAssignment
    <2>5. WorkHasAssignees'
        BY DEF WorkHasAssignees
    <2> QED BY <2>2, <2>3, <2>4, <2>5
<1>2. ASSUME NEW p \in Persons, UnassignActivity(a, s, p) PROVE StatusInv'
    <2> USE <1>2 DEF UnassignActivity, MayUnassign, assignmentVars, badgeVars
    <2>2. AbsentIsBlank'
        BY DEF AbsentIsBlank
    <2>3. CompletedMeansDone'
        BY DEF CompletedMeansDone
    <2>4. FailureReachesAssignment'
        BY DEF FailureReachesAssignment
    <2>5. WorkHasAssignees'
        BY DEF WorkHasAssignees
    <2> QED BY <2>2, <2>3, <2>4, <2>5
<1>3. ASSUME NEW new \in Status, UpdateActivityStatus(a, s, new) PROVE StatusInv'
    <2> USE <1>3 DEF UpdateActivityStatus, badgeVars
    <2>1. /\ activityStatus[a][s] \notin Terminal
          /\ new # "UNASSIGNED"
          /\ new = "COMPLETED" => activityStatus[a][s] = "IN_PROGRESS"
        BY DEF MayRequest, StatusTransitions, Terminal
    <2>2. AbsentIsBlank'
        BY DEF AbsentIsBlank
    <2>3. status[a] # "COMPLETED"
        BY <2>1 DEF CompletedMeansDone, Terminal
    <2>4. /\ Cascade(a, new) # "COMPLETED"
          /\ new = "FAILED" => Cascade(a, new) = "FAILED"
          /\ status[a] = "FAILED" => Cascade(a, new) = "FAILED"
        BY <2>3 DEF Cascade, CascadeTo, Terminal
    <2>5. CompletedMeansDone'
        BY <2>4 DEF CompletedMeansDone
    <2>6. FailureReachesAssignment'
        BY <2>4 DEF FailureReachesAssignment
    <2>7. WorkHasAssignees'
        BY <2>1 DEF WorkHasAssignees
    <2> QED BY <2>2, <2>5, <2>6, <2>7
<1> QED BY <1>1, <1>2, <1>3

(* An award goes to a target of an existing assignment.                    *)
Awarded(a, t, R) ==
    /\ t \in TargetsOf(a) /\ Award(t, R)
    /\ t = AssignmentTarget(a) => status[a] = "COMPLETED"
    /\ \A s \in Slots : t = ActivityTarget(a, s) =>
          activityStatus[a][s] = "COMPLETED" /\ R = assignees[a][s]

LEMMA AwardStep ==
    ASSUME BadgeNext
    PROVE  \E a \in assignments \intersect Assignments, t \in Targets :
              \E R : Awarded(a, t, R)
<1>1. ASSUME NEW a \in Assignments, AwardAssignment(a)
      PROVE  /\ a \in assignments
             /\ AssignmentTarget(a) \in TargetsOf(a) \intersect Targets
             /\ Awarded(a, AssignmentTarget(a), RecipientsOf(a))
    BY <1>1, TargetFacts, TargetsDistinct DEF AwardAssignment, TargetsOf, Awarded
<1>2. ASSUME NEW a \in Assignments, NEW s \in Slots, AwardActivity(a, s)
      PROVE  /\ a \in assignments
             /\ ActivityTarget(a, s) \in TargetsOf(a) \intersect Targets
             /\ Awarded(a, ActivityTarget(a, s), assignees[a][s])
    BY <1>2, TargetFacts, TargetsDistinct DEF AwardActivity, TargetsOf, Awarded
<1> QED BY <1>1, <1>2 DEF BadgeNext

LEMMA StatusStep == TypeOK /\ StatusInv /\ [Next]_vars => StatusInv'
<1> SUFFICES ASSUME TypeOK, StatusInv, [Next]_vars PROVE StatusInv'
    OBVIOUS
<1>1. ASSUME NEW m \in Missions, DeleteMission(m) PROVE StatusInv'
    BY <1>1, StatusErase DEF DeleteMission, ByMission, TypeOK
<1>2. ASSUME UNCHANGED <<assignments, status, assignee, activityStatus, assignees>>,
             \A a \in Assignments \ assignments : TargetsOf(a) \intersect badged' = {}
      PROVE  StatusInv'
    BY <1>2 DEF StatusInv, AbsentIsBlank, CompletedMeansDone, FailureReachesAssignment,
                WorkHasAssignees
<1>3. CASE BadgeNext
    <2>1. PICK a \in assignments \intersect Assignments, t \in Targets :
             \E R : t \in TargetsOf(a) /\ Award(t, R)
        BY <1>3, AwardStep DEF Awarded
    <2>2. \A b \in Assignments \ assignments : TargetsOf(b) \intersect badged' = {}
        BY <2>1, TargetsOfDistinct DEF Award, StatusInv, AbsentIsBlank
    <2> QED BY <1>2, <1>3, <2>2, Bystanders
<1>4. CASE PeopleNext \/ UNCHANGED vars
           \/ (\E m \in Missions, op \in Persons : CreateMission(m, op))
    <2>1. badged' = badged
        BY <1>4 DEF PeopleNext, AddPerson, RemovePerson, AddGroup, RemoveGroup, AddGroupMember,
                    RemoveGroupMember, CreateMission, badgeVars, vars
    <2> QED BY <1>2, <1>4, <2>1, Bystanders DEF StatusInv, AbsentIsBlank
<1> QED BY <1>1, <1>3, <1>4, StatusAssignments, StatusActivities DEF Next, MissionNext

-----------------------------------------------------------------------------
(* Terminal statuses                                                       *)

(* What no step changes of a row that stays, whatever it does elsewhere.   *)
RowKept(a) ==
    /\ status[a] # "UNASSIGNED" => status'[a] # "UNASSIGNED"
    /\ status[a] \in Terminal => status'[a] = status[a]
    /\ \A s \in Slots : activityStatus[a][s] \in Terminal =>
          /\ activityStatus'[a][s] = activityStatus[a][s]
          /\ assignees[a][s] \subseteq assignees'[a][s]

LEMMA RowsKept ==
    ASSUME TypeOK, StatusInv, [Next]_vars
    PROVE  \A a \in assignments \intersect assignments' : RowKept(a)
<1> SUFFICES ASSUME NEW b \in Assignments, b \in assignments, b \in assignments'
             PROVE  RowKept(b)
    BY DEF TypeOK
<1> USE DEF RowKept, TypeOK
<1>1. ASSUME NEW A, EraseAssignments(A) PROVE RowKept(b)
    BY <1>1 DEF EraseAssignments
<1>2. ASSUME NEW a \in Assignments,
             NEW m \in Missions, NEW who \in Assignees \union {NoOne}, NEW op \in Persons,
             CreateAssignment(m, a, who, op)
      PROVE  RowKept(b)
    BY <1>2 DEF CreateAssignment, activityVars
<1>3. ASSUME NEW a \in Assignments, NEW who \in Assignees, Assign(a, who)
      PROVE  RowKept(b)
    BY <1>3 DEF Assign, activityVars, Terminal
<1>4. ASSUME NEW a \in Assignments, NEW new \in Status, UpdateAssignmentStatus(a, new)
      PROVE  RowKept(b)
    <2>1. new # "UNASSIGNED" /\ status[a] \notin Terminal
        BY <1>4 DEF UpdateAssignmentStatus, MayRequest, StatusTransitions, Terminal
    <2> QED BY <1>4, <2>1 DEF UpdateAssignmentStatus, activityVars
<1>5. ASSUME NEW a \in Assignments, NEW s \in Slots, NEW p \in Persons,
             AssignActivity(a, s, p)
      PROVE  RowKept(b)
    BY <1>5 DEF AssignActivity, assignmentVars, Terminal
<1>6. ASSUME NEW a \in Assignments, NEW s \in Slots, NEW p \in Persons,
             UnassignActivity(a, s, p)
      PROVE  RowKept(b)
    BY <1>6 DEF UnassignActivity, MayUnassign, assignmentVars, Terminal
<1>7. ASSUME NEW a \in Assignments, NEW s \in Slots, NEW new \in Status,
             UpdateActivityStatus(a, s, new)
      PROVE  RowKept(b)
    <2>1. activityStatus[a][s] \notin Terminal
        BY <1>7 DEF UpdateActivityStatus, MayRequest, StatusTransitions, Terminal
    <2>2. /\ status[a] # "UNASSIGNED" => Cascade(a, new) # "UNASSIGNED"
          /\ status[a] \in Terminal => Cascade(a, new) = status[a]
        BY DEF Cascade, CascadeTo, Terminal
    <2> QED BY <1>7, <2>1, <2>2 DEF UpdateActivityStatus
<1>8. CASE BadgeNext \/ PeopleNext \/ UNCHANGED vars
           \/ (\E m \in Missions, op \in Persons : CreateMission(m, op))
    BY <1>8, Bystanders
<1> QED BY <1>1, <1>2, <1>3, <1>4, <1>5, <1>6, <1>7, <1>8
        DEF Next, MissionNext, AssignmentNext, ActivityNext, DeleteMission, DeleteAssignment

-----------------------------------------------------------------------------
(* Awards                                                                  *)

AwardInv ==
    /\ AwardsMatchTargets
    /\ \A a \in Assignments \ used : \A t \in TargetsOf(a), w \in awards : w.target # t

LEMMA OwnTargets ==
    \A a \in Assignments : /\ AssignmentTarget(a) \in TargetsOf(a)
                           /\ \A s \in Slots : ActivityTarget(a, s) \in TargetsOf(a)
BY DEF TargetsOf

LEMMA AwardsKept ==
    ASSUME TypeOK, AwardInv,
           UNCHANGED badgeVars,
           used \subseteq used',
           assignments' \intersect used \subseteq assignments,
           assignments' \subseteq Assignments,
           \A a \in assignments \intersect assignments' : RowKept(a)
    PROVE  AwardInv'
<1> USE DEF AwardInv, AwardsMatchTargets, badgeVars
<1>1. ASSUME NEW a \in assignments', NEW w \in awards
      PROVE  AwardFits(a, w)'
    <2>1. CASE w.target \in TargetsOf(a)
        <3>1. AwardFits(a, w) /\ RowKept(a)
            BY <2>1
        <3> QED BY <3>1 DEF AwardFits, RowKept, Terminal
    <2>2. CASE w.target \notin TargetsOf(a)
        BY <2>2, OwnTargets DEF AwardFits
    <2> QED BY <2>1, <2>2
<1> QED BY <1>1

LEMMA AwardsErase ==
    ASSUME TypeOK, AwardInv, NEW A \in SUBSET Assignments, EraseAssignments(A),
           awards' = awards, used' = used
    PROVE  AwardInv'
<1> USE DEF AwardInv, AwardsMatchTargets
<1>1. assignments' \subseteq assignments \ A /\ badged' = badged \ UNION {TargetsOf(b) : b \in A}
    BY DEF EraseAssignments
<1>2. ASSUME NEW a \in assignments', NEW w \in awards
      PROVE  AwardFits(a, w)'
    <2>1. a \in Assignments /\ a \in assignments /\ a \notin A
        BY <1>1 DEF TypeOK
    <2>2. AwardFits(a, w)
        BY <2>1
    <2>3. w.target \in TargetsOf(a) => \A b \in A : w.target \notin TargetsOf(b)
        BY <2>1, TargetsOfDistinct
    <2>4. /\ status'[a] = status[a]
          /\ activityStatus'[a] = activityStatus[a]
          /\ assignees'[a] = assignees[a]
        BY <2>1 DEF EraseAssignments
    <2> QED BY <1>1, <2>2, <2>3, <2>4 DEF AwardFits
<1> QED BY <1>1, <1>2

LEMMA AwardsAwarded ==
    ASSUME TypeOK, AwardInv, BadgeNext
    PROVE  AwardInv'
<1> USE DEF AwardInv, AwardsMatchTargets
<1>0. PICK a \in assignments \intersect Assignments, t \in Targets : \E R : Awarded(a, t, R)
    BY AwardStep
<1>1. PICK R : Awarded(a, t, R)
    BY <1>0
<1> USE DEF Awarded
<1>2. UNCHANGED <<assignments, status, activityStatus, assignees, used>>
    BY <1>1 DEF Award, assignmentVars, activityVars
<1> DEFINE new == [target |-> t, recipients |-> R]
<1>3. /\ awards' = awards \union {new}
      /\ badged' = badged \union {t}
      /\ R # {}
      /\ \A w \in awards : w.target # t
    BY <1>1 DEF Award, AwardFor
<1>4. new.target = t /\ new.recipients = R
    OBVIOUS
<1> HIDE DEF new
<1>5. ASSUME NEW b \in assignments, NEW w \in awards'
      PROVE  AwardFits(b, w)'
    <2>1. CASE w \in awards
        BY <1>2, <1>3, <2>1 DEF AwardFits
    <2>2. CASE w = new /\ b = a
        BY <1>1, <1>2, <1>3, <1>4, <2>2 DEF AwardFits
    <2>3. CASE w = new /\ b # a
        <3>1. b \in Assignments
            BY DEF TypeOK
        <3>2. w.target \notin TargetsOf(b)
            BY <1>1, <1>4, <2>3, <3>1, TargetsOfDistinct
        <3> QED BY <1>2, <3>1, <3>2, OwnTargets DEF AwardFits
    <2> QED BY <1>3, <2>1, <2>2, <2>3
<1>6. \A w \in awards' : w.recipients # {}
    BY <1>3, <1>4
<1>7. \A w1, w2 \in awards' : w1.target = w2.target => w1 = w2
    BY <1>3, <1>4
<1>8. \A u \in badged' : \E w \in awards' : w.target = u
    BY <1>3, <1>4
<1>9. \A b \in Assignments \ used : t \notin TargetsOf(b)
    BY <1>1, TargetsOfDistinct DEF TypeOK
<1> QED BY <1>2, <1>3, <1>4, <1>5, <1>6, <1>7, <1>8, <1>9

LEMMA AwardsStep == TypeOK /\ StatusInv /\ AwardInv /\ [Next]_vars => AwardInv'
<1> SUFFICES ASSUME TypeOK, StatusInv, AwardInv, [Next]_vars PROVE AwardInv'
    OBVIOUS
<1>1. CASE BadgeNext
    BY <1>1, AwardsAwarded
<1>2. ASSUME NEW m \in Missions, DeleteMission(m) PROVE AwardInv'
    BY <1>2, AwardsErase DEF DeleteMission, ByMission, TypeOK
<1>3. ASSUME NEW a \in Assignments, DeleteAssignment(a) PROVE AwardInv'
    BY <1>3, AwardsErase DEF DeleteAssignment
<1>4. CASE /\ UNCHANGED badgeVars /\ used \subseteq used'
           /\ assignments' \intersect used \subseteq assignments
    <2>1. TypeOK'
        BY TypeStep
    <2> QED BY <1>4, <2>1, AwardsKept, RowsKept DEF TypeOK
<1>5. CASE PeopleNext \/ UNCHANGED vars
           \/ (\E m \in Missions, op \in Persons : CreateMission(m, op))
    BY <1>4, <1>5 DEF PeopleNext, AddPerson, RemovePerson, AddGroup, RemoveGroup, AddGroupMember,
        RemoveGroupMember, CreateMission, badgeVars, assignmentVars, vars
<1>6. CASE ActivityNext
    BY <1>4, <1>6 DEF ActivityNext, AssignActivity, UnassignActivity, UpdateActivityStatus,
        assignmentVars
<1>7. ASSUME NEW a \in Assignments, NEW m \in Missions, NEW who \in Assignees \union {NoOne},
             NEW op \in Persons, CreateAssignment(m, a, who, op)
      PROVE  AwardInv'
    BY <1>4, <1>7 DEF CreateAssignment
<1>8. ASSUME NEW a \in Assignments,
             (\E who \in Assignees : Assign(a, who)) \/ \E new \in Status : UpdateAssignmentStatus(a, new)
      PROVE  AwardInv'
    BY <1>4, <1>8 DEF Assign, UpdateAssignmentStatus
<1> QED BY <1>1, <1>2, <1>3, <1>5, <1>6, <1>7, <1>8 DEF Next, MissionNext, AssignmentNext

-----------------------------------------------------------------------------
(* The outbox                                                              *)

OutboxInv ==
    /\ OutboxTellsStatus
    /\ \A a \in Assignments \ used : \A t \in TargetsOf(a) : told[t] = "SILENT"

LEMMA OutboxErase ==
    ASSUME TypeOK, OutboxInv, NEW A \in SUBSET Assignments, EraseAssignments(A),
           told' = told, used' = used
    PROVE  OutboxInv'
BY DEF EraseAssignments, OutboxInv, OutboxTellsStatus, ToldAssignment, ToldActivity, TypeOK

(* A step that touches one assignment at most, and draws no other.         *)
LEMMA OutboxRow ==
    ASSUME TypeOK, OutboxInv, NEW a \in Assignments,
           assignments' \subseteq assignments \union {a}, used \subseteq used', a \in used',
           \A b \in Assignments \ {a} :
              /\ status'[b] = status[b]
              /\ activityStatus'[b] = activityStatus[b]
              /\ \A t \in TargetsOf(b) : told'[t] = told[t],
           ToldAssignment(a)',
           \A s \in Slots : ToldActivity(a, s)'
    PROVE  OutboxInv'
<1> USE DEF OutboxInv
<1>1. ASSUME NEW b \in assignments', b # a
      PROVE  ToldAssignment(b)' /\ \A s \in Slots : ToldActivity(b, s)'
    <2>1. b \in assignments /\ b \in Assignments
        BY <1>1 DEF TypeOK
    <2>2. ToldAssignment(b) /\ \A s \in Slots : ToldActivity(b, s)
        BY <2>1 DEF OutboxTellsStatus
    <2>3. /\ status'[b] = status[b]
          /\ activityStatus'[b] = activityStatus[b]
          /\ told'[AssignmentTarget(b)] = told[AssignmentTarget(b)]
          /\ \A s \in Slots : told'[ActivityTarget(b, s)] = told[ActivityTarget(b, s)]
        BY <1>1, <2>1, OwnTargets
    <2> QED BY <2>2, <2>3 DEF ToldAssignment, ToldActivity
<1> QED BY <1>1 DEF OutboxTellsStatus

LEMMA OutboxAssignments == TypeOK /\ StatusInv /\ OutboxInv /\ AssignmentNext => OutboxInv'
<1> SUFFICES ASSUME TypeOK, StatusInv, OutboxInv, NEW a \in Assignments,
                    \/ \E m \in Missions, who \in Assignees \union {NoOne}, op \in Persons :
                          CreateAssignment(m, a, who, op)
                    \/ \E who \in Assignees : Assign(a, who)
                    \/ \E new \in Status : UpdateAssignmentStatus(a, new)
                    \/ DeleteAssignment(a)
             PROVE  OutboxInv'
    BY DEF AssignmentNext
<1>1. AssignmentTarget(a) \in TargetsOf(a) /\ AssignmentTarget(a) \in Targets
    BY OwnTargets, TargetFacts
<1>2. ASSUME NEW v, told' = [told EXCEPT ![AssignmentTarget(a)] = v]
      PROVE  /\ \A b \in Assignments \ {a} : \A t \in TargetsOf(b) : told'[t] = told[t]
             /\ told'[AssignmentTarget(a)] = v
             /\ \A s \in Slots : told'[ActivityTarget(a, s)] = told[ActivityTarget(a, s)]
    BY <1>1, <1>2, TargetsOfDistinct, TargetsDistinct, TargetFacts DEF TypeOK
<1>3. a \in assignments => ToldAssignment(a) /\ \A s \in Slots : ToldActivity(a, s)
    BY DEF OutboxInv, OutboxTellsStatus
<1>4. ASSUME NEW m \in Missions, NEW who \in Assignees \union {NoOne}, NEW op \in Persons,
             CreateAssignment(m, a, who, op)
      PROVE  OutboxInv'
    <2>1. a \notin used /\ a \notin assignments
        BY <1>4 DEF CreateAssignment, TypeOK
    <2>2. /\ told[AssignmentTarget(a)] = "SILENT"
          /\ \A s \in Slots : told[ActivityTarget(a, s)] = "SILENT"
          /\ \A s \in Slots : activityStatus[a][s] = "UNASSIGNED"
        BY <2>1, OwnTargets DEF OutboxInv, StatusInv, AbsentIsBlank
    <2>3. ToldAssignment(a)' /\ \A s \in Slots : ToldActivity(a, s)'
        BY <1>2, <1>4, <2>2
        DEF CreateAssignment, ToldAssignment, ToldActivity, activityVars, TypeOK
    <2>4. \A b \in Assignments \ {a} : \A t \in TargetsOf(b) : told'[t] = told[t]
        BY <1>2, <1>4 DEF CreateAssignment
    <2> QED BY <1>4, <2>3, <2>4, OutboxRow DEF CreateAssignment, activityVars, TypeOK
<1>5. ASSUME NEW who \in Assignees, Assign(a, who) PROVE OutboxInv'
    <2>1. ToldAssignment(a)' /\ \A s \in Slots : ToldActivity(a, s)'
        BY <1>2, <1>3, <1>5 DEF Assign, ToldAssignment, ToldActivity, activityVars, TypeOK
    <2> QED BY <1>2, <1>5, <2>1, OutboxRow DEF Assign, activityVars, TypeOK
<1>6. ASSUME NEW new \in Status, UpdateAssignmentStatus(a, new) PROVE OutboxInv'
    <2>1. ToldAssignment(a)' /\ \A s \in Slots : ToldActivity(a, s)'
        BY <1>2, <1>3, <1>6
        DEF UpdateAssignmentStatus, MayRequest, ToldAssignment, ToldActivity, activityVars, TypeOK
    <2> QED BY <1>2, <1>6, <2>1, OutboxRow DEF UpdateAssignmentStatus, activityVars, TypeOK
<1>7. CASE DeleteAssignment(a)
    BY <1>7, OutboxErase DEF DeleteAssignment
<1> QED BY <1>4, <1>5, <1>6, <1>7

LEMMA OutboxActivities == TypeOK /\ StatusInv /\ OutboxInv /\ ActivityNext => OutboxInv'
<1> SUFFICES ASSUME TypeOK, StatusInv, OutboxInv, NEW a \in Assignments, NEW s \in Slots,
                    \/ \E p \in Persons : AssignActivity(a, s, p)
                    \/ \E p \in Persons : UnassignActivity(a, s, p)
                    \/ \E new \in Status : UpdateActivityStatus(a, s, new)
             PROVE  OutboxInv'
    BY DEF ActivityNext
<1>1. /\ AssignmentTarget(a) \in TargetsOf(a) \intersect Targets
      /\ \A r \in Slots : ActivityTarget(a, r) \in TargetsOf(a) \intersect Targets
    BY OwnTargets, TargetFacts
<1>2. a \in assignments /\ a \in used
    BY DEF AssignActivity, UnassignActivity, UpdateActivityStatus, TypeOK
<1>3. ToldAssignment(a) /\ \A r \in Slots : ToldActivity(a, r)
    BY <1>2 DEF OutboxInv, OutboxTellsStatus
<1>4. \A b \in Assignments \ {a} : \A t \in TargetsOf(b) :
         t # AssignmentTarget(a) /\ t # ActivityTarget(a, s)
    BY <1>1, TargetsOfDistinct
<1>5. ASSUME NEW p \in Persons, AssignActivity(a, s, p) PROVE OutboxInv'
    <2>1. /\ told'[AssignmentTarget(a)] = told[AssignmentTarget(a)]
          /\ told'[ActivityTarget(a, s)] =
                IF told[ActivityTarget(a, s)] = "SILENT" THEN "ASSIGNED"
                ELSE told[ActivityTarget(a, s)]
          /\ \A r \in Slots \ {s} : told'[ActivityTarget(a, r)] = told[ActivityTarget(a, r)]
        BY <1>1, <1>5, TargetsDistinct DEF AssignActivity, TypeOK
    <2>2. /\ activityStatus'[a][s] =
                IF activityStatus[a][s] = "UNASSIGNED" THEN "ASSIGNED" ELSE activityStatus[a][s]
          /\ \A r \in Slots \ {s} : activityStatus'[a][r] = activityStatus[a][r]
          /\ status' = status
          /\ activityStatus[a][s] \in Status
        BY <1>5 DEF AssignActivity, assignmentVars, TypeOK
    <2>3. ASSUME NEW r \in Slots PROVE ToldActivity(a, r)'
        <3>1. ToldActivity(a, r)
            BY <1>3
        <3>2. CASE r = s
            BY <2>1, <2>2, <3>1, <3>2 DEF ToldActivity, Status
        <3>3. CASE r # s
            BY <2>1, <2>2, <3>1, <3>3 DEF ToldActivity
        <3> QED BY <3>2, <3>3
    <2>4. ToldAssignment(a)'
        BY <1>3, <2>1, <2>2 DEF ToldAssignment
    <2>5. \A b \in Assignments \ {a} : \A t \in TargetsOf(b) : told'[t] = told[t]
        BY <1>4, <1>5, TargetFacts DEF AssignActivity, TypeOK
    <2>6. \A b \in Assignments \ {a} : activityStatus'[b] = activityStatus[b]
        BY <1>5 DEF AssignActivity, TypeOK
    <2> QED BY <1>2, <1>5, <2>2, <2>3, <2>4, <2>5, <2>6, OutboxRow
            DEF AssignActivity, assignmentVars
<1>6. ASSUME NEW p \in Persons, UnassignActivity(a, s, p) PROVE OutboxInv'
    <2>1. /\ told' = told /\ status' = status
          /\ \A r \in Slots : \/ activityStatus'[a][r] = activityStatus[a][r]
                              \/ /\ activityStatus[a][r] \in {"UNASSIGNED", "ASSIGNED"}
                                 /\ activityStatus'[a][r] = "UNASSIGNED"
        BY <1>6 DEF UnassignActivity, MayUnassign, assignmentVars, TypeOK
    <2>2. ToldAssignment(a)' /\ \A r \in Slots : ToldActivity(a, r)'
        BY <1>3, <2>1 DEF ToldAssignment, ToldActivity
    <2> QED BY <1>2, <1>6, <2>2, OutboxRow DEF UnassignActivity, assignmentVars, TypeOK
<1>7. ASSUME NEW new \in Status, UpdateActivityStatus(a, s, new) PROVE OutboxInv'
    <2>1. ASSUME NEW r \in Slots PROVE ToldActivity(a, r)'
        <3>1. /\ ToldActivity(a, r)
              /\ new # "UNASSIGNED"
            BY <1>3, <1>7 DEF UpdateActivityStatus, MayRequest
        <3>2. CASE r = s
            <4>1. told'[ActivityTarget(a, r)] = new /\ activityStatus'[a][r] = new
                BY <1>1, <1>7, <3>2, TargetsDistinct DEF UpdateActivityStatus, TypeOK
            <4> QED BY <3>1, <4>1 DEF ToldActivity
        <3>3. CASE r # s
            <4>1. /\ told'[ActivityTarget(a, r)] = told[ActivityTarget(a, r)]
                  /\ activityStatus'[a][r] = activityStatus[a][r]
                BY <1>1, <1>7, <3>3, TargetsDistinct DEF UpdateActivityStatus, TypeOK
            <4> QED BY <3>1, <4>1 DEF ToldActivity
        <3> QED BY <3>2, <3>3
    <2>2. told'[AssignmentTarget(a)] = AnnounceCascade(a, new)
        BY <1>1, <1>7, TargetsDistinct DEF UpdateActivityStatus, TypeOK
    <2>3. Cascade(a, new) # status[a] => Cascade(a, new) # "UNASSIGNED"
        BY DEF Cascade, CascadeTo
    <2>4. ToldAssignment(a)'
        BY <1>3, <1>7, <2>2, <2>3
        DEF UpdateActivityStatus, AnnounceCascade, ToldAssignment, TypeOK
    <2>5. \A b \in Assignments \ {a} : \A t \in TargetsOf(b) : told'[t] = told[t]
        BY <1>4, <1>7, TargetFacts DEF UpdateActivityStatus, TypeOK
    <2>6. \A b \in Assignments \ {a} : /\ status'[b] = status[b]
                                       /\ activityStatus'[b] = activityStatus[b]
        BY <1>7 DEF UpdateActivityStatus, TypeOK
    <2>7. assignments' = assignments /\ used' = used
        BY <1>7 DEF UpdateActivityStatus
    <2> QED BY <1>2, <2>1, <2>4, <2>5, <2>6, <2>7, OutboxRow
<1> QED BY <1>5, <1>6, <1>7

LEMMA OutboxStep == TypeOK /\ StatusInv /\ OutboxInv /\ [Next]_vars => OutboxInv'
<1> SUFFICES ASSUME TypeOK, StatusInv, OutboxInv, [Next]_vars PROVE OutboxInv'
    OBVIOUS
<1>1. ASSUME NEW m \in Missions, DeleteMission(m) PROVE OutboxInv'
    BY <1>1, OutboxErase DEF DeleteMission, ByMission, TypeOK
<1>2. CASE BadgeNext \/ PeopleNext \/ UNCHANGED vars
           \/ (\E m \in Missions, op \in Persons : CreateMission(m, op))
    <2>1. used \subseteq used'
        BY <1>2
        DEF BadgeNext, AwardAssignment, AwardActivity, Award, PeopleNext, AddPerson, RemovePerson,
            AddGroup, RemoveGroup, AddGroupMember, RemoveGroupMember, CreateMission, vars
    <2> QED BY <1>2, <2>1, Bystanders
            DEF OutboxInv, OutboxTellsStatus, ToldAssignment, ToldActivity
<1> QED BY <1>1, <1>2, OutboxAssignments, OutboxActivities DEF Next, MissionNext

-----------------------------------------------------------------------------
(* The invariant                                                           *)

LEMMA InvParts == LifecycleInv <=> TypeOK /\ StatusInv /\ AwardInv /\ OutboxInv
BY DEF LifecycleInv, StatusInv, AwardInv, OutboxInv, UnusedLeftNoTrace

LEMMA InvInit == Init => LifecycleInv
<1> SUFFICES ASSUME Init PROVE LifecycleInv
    OBVIOUS
<1>1. TypeOK
    BY TypeInit
<1>2. StatusInv
    BY DEF Init, StatusInv, AbsentIsBlank, CompletedMeansDone, FailureReachesAssignment,
           WorkHasAssignees
<1>3. AwardInv
    BY DEF Init, AwardInv, AwardsMatchTargets
<1>4. OutboxInv
    BY TargetFacts DEF Init, OutboxInv, OutboxTellsStatus
<1> QED BY <1>1, <1>2, <1>3, <1>4, InvParts

LEMMA InvStep == LifecycleInv /\ [Next]_vars => LifecycleInv'
<1> SUFFICES ASSUME LifecycleInv, [Next]_vars PROVE LifecycleInv'
    OBVIOUS
<1>1. TypeOK' /\ StatusInv' /\ AwardInv' /\ OutboxInv'
    BY InvParts, TypeStep, StatusStep, AwardsStep, OutboxStep
<1> QED BY <1>1 DEF LifecycleInv, StatusInv, AwardInv, OutboxInv, UnusedLeftNoTrace

(* The conjunction of the safety invariants and of what makes it inductive *)
(* holds in every reachable state.                                         *)
THEOREM LifecycleCorrect == Spec => []LifecycleInv
<1> QED BY InvInit, InvStep, PTL DEF Spec

(* No assignment is COMPLETED with work left, no failure stays hidden in   *)
(* an activity, no running work is nobody's.                               *)
THEOREM StatusesSound == Spec => []StatusesAgree
<1>1. LifecycleInv => StatusesAgree
    BY DEF LifecycleInv, StatusesAgree
<1> QED BY <1>1, LifecycleCorrect, PTL

(* Award rows and target rows never disagree.                              *)
THEOREM AwardsSound == Spec => []AwardsMatchTargets
<1>1. LifecycleInv => AwardsMatchTargets
    BY DEF LifecycleInv
<1> QED BY <1>1, LifecycleCorrect, PTL

(* The outbox tells the status of every live assignment and activity.      *)
THEOREM OutboxSound == Spec => []OutboxTellsStatus
<1>1. LifecycleInv => OutboxTellsStatus
    BY DEF LifecycleInv
<1> QED BY <1>1, LifecycleCorrect, PTL

(* Terminal statuses are final and drafts are never returned to.           *)
THEOREM StatusesNeverRegress == Spec => NoStatusRegresses
<1>1. LifecycleInv /\ [Next]_vars =>
         [\A a \in assignments \intersect assignments' :
             /\ status[a] # "UNASSIGNED" => status'[a] # "UNASSIGNED"
             /\ status[a] \in Terminal => status'[a] = status[a]
             /\ \A s \in Slots : activityStatus[a][s] \in Terminal =>
                   activityStatus'[a][s] = activityStatus[a][s]]_vars
    BY InvParts, RowsKept DEF RowKept
<1> QED BY <1>1, LifecycleCorrect, PTL DEF Spec, NoStatusRegresses

-----------------------------------------------------------------------------
(* Access entries                                                          *)

LEMMA ResourcesDistinct ==
    /\ \A m, n \in Missions : MissionResource(m) = MissionResource(n) => m = n
    /\ \A a, b \in Assignments : AssignmentResource(a) = AssignmentResource(b) => a = b
    /\ \A m \in Missions, a \in Assignments : MissionResource(m) # AssignmentResource(a)
BY DEF MissionResource, AssignmentResource

LEMMA EntriesStep == TypeOK /\ NoOrphanEntries /\ [Next]_vars => NoOrphanEntries'
<1> SUFFICES ASSUME TypeOK, NoOrphanEntries, [Next]_vars PROVE NoOrphanEntries'
    OBVIOUS
<1> USE ResourcesDistinct DEF NoOrphanEntries, TypeOK
<1>1. ASSUME NEW m \in Missions, NEW op \in Persons, CreateMission(m, op) PROVE NoOrphanEntries'
    BY <1>1 DEF CreateMission, Operators, assignmentVars, peopleVars
<1>2. ASSUME NEW m \in Missions, DeleteMission(m) PROVE NoOrphanEntries'
    BY <1>2 DEF DeleteMission, EraseAssignments, ResourcesOf, peopleVars
<1>3. ASSUME NEW a \in Assignments, NEW m \in Missions, NEW who \in Assignees \union {NoOne},
             NEW op \in Persons, CreateAssignment(m, a, who, op)
      PROVE  NoOrphanEntries'
    BY <1>3 DEF CreateAssignment, Operators, peopleVars
<1>4. ASSUME NEW a \in Assignments, DeleteAssignment(a) PROVE NoOrphanEntries'
    BY <1>4 DEF DeleteAssignment, EraseAssignments, peopleVars
<1>5. ASSUME NEW p \in Persons, RemovePerson(p) PROVE NoOrphanEntries'
    BY <1>5 DEF RemovePerson, assignmentVars
<1>6. ASSUME UNCHANGED <<missions, assignments, acl>>, persons \subseteq persons'
      PROVE  NoOrphanEntries'
    BY <1>6
<1>7. CASE (\E a \in Assignments : (\E who \in Assignees : Assign(a, who))
                                 \/ \E new \in Status : UpdateAssignmentStatus(a, new))
           \/ ActivityNext \/ BadgeNext \/ UNCHANGED vars
    BY <1>6, <1>7 DEF Assign, UpdateAssignmentStatus, ActivityNext, AssignActivity,
        UnassignActivity, UpdateActivityStatus, BadgeNext, AwardAssignment, AwardActivity, Award,
        vars, assignmentVars, peopleVars
<1>8. CASE (\E p \in Persons : AddPerson(p))
           \/ (\E g \in Groups : AddGroup(g) \/ RemoveGroup(g))
           \/ (\E g \in Groups, p \in Persons : AddGroupMember(g, p) \/ RemoveGroupMember(g, p))
    BY <1>6, <1>8 DEF AddPerson, AddGroup, RemoveGroup, AddGroupMember, RemoveGroupMember,
        assignmentVars
<1> QED BY <1>1, <1>2, <1>3, <1>4, <1>5, <1>7, <1>8
        DEF Next, MissionNext, AssignmentNext, PeopleNext

(* No seeded ACL entry survives its resource or its person.                *)
THEOREM EntriesSound == Spec => []NoOrphanEntries
<1>1. Init => NoOrphanEntries
    BY DEF Init, NoOrphanEntries
<1> QED BY <1>1, TypeCorrect, EntriesStep, PTL DEF Spec

-----------------------------------------------------------------------------
(* The limit on the total                                                  *)

LEMMA TotalStep == TypeOK /\ TotalRespected /\ [Next]_vars => TotalRespected'
<1> SUFFICES ASSUME TypeOK, TotalRespected, [Next]_vars,
                    NEW n \in missions', PolicyOf(n).max_total # 0
             PROVE  Cardinality(ByMission(n)') <= PolicyOf(n).max_total
    BY DEF TotalRespected, PolicyOf
<1>0. \A m \in Missions : /\ PolicyOf(m).max_total \in Nat
                         /\ IsFiniteSet(ByMission(m))
                         /\ Cardinality(ByMission(m)) \in Nat
    <2>1. \A m \in Missions : IsFiniteSet(ByMission(m))
        BY LifecycleAssumption, FS_Subset DEF ByMission, TypeOK
    <2> QED BY <2>1, FS_CardinalityType, LifecycleAssumption DEF PolicyOf, Unlimited
<1>1. n \in Missions
    BY TypeStep DEF TypeOK
<1>2. n \notin missions => ByMission(n) = {}
    BY DEF ByMission, TypeOK
<1>3. Cardinality(ByMission(n)) <= PolicyOf(n).max_total
    <2>1. CASE n \in missions
        BY <2>1 DEF TotalRespected
    <2>2. CASE n \notin missions
        BY <1>0, <1>1, <1>2, <2>2, FS_EmptySet
    <2> QED BY <2>1, <2>2
<1>4. ASSUME ByMission(n)' \subseteq ByMission(n)
      PROVE  Cardinality(ByMission(n)') <= PolicyOf(n).max_total
    BY <1>0, <1>1, <1>3, <1>4, FS_Subset, FS_CardinalityType
<1>5. ASSUME NEW a \in Assignments, NEW m \in Missions, NEW who \in Assignees \union {NoOne},
             NEW op \in Persons, CreateAssignment(m, a, who, op)
      PROVE  Cardinality(ByMission(n)') <= PolicyOf(n).max_total
    <2>1. CASE n = m
        <3>1. ByMission(n)' = ByMission(n) \union {a}
            BY <1>5, <2>1 DEF CreateAssignment, ByMission, TypeOK
        <3>2. Cardinality(ByMission(n)) < PolicyOf(n).max_total
            BY <1>5, <2>1 DEF CreateAssignment, TotalAllows
        <3>3. \/ Cardinality(ByMission(n) \union {a}) = Cardinality(ByMission(n))
              \/ Cardinality(ByMission(n) \union {a}) = Cardinality(ByMission(n)) + 1
            BY <1>0, <1>1, FS_AddElement
        <3> QED BY <1>0, <1>1, <3>1, <3>2, <3>3
    <2>2. CASE n # m
        BY <1>4, <1>5, <2>2 DEF CreateAssignment, ByMission, TypeOK
    <2> QED BY <2>1, <2>2
<1>6. ASSUME NEW A, EraseAssignments(A), missionOf' = missionOf
      PROVE  Cardinality(ByMission(n)') <= PolicyOf(n).max_total
    BY <1>4, <1>6 DEF EraseAssignments, ByMission
<1>7. ASSUME UNCHANGED <<assignments, missionOf>>
      PROVE  Cardinality(ByMission(n)') <= PolicyOf(n).max_total
    BY <1>4, <1>7 DEF ByMission
<1>8. CASE (\E a \in Assignments : (\E who \in Assignees : Assign(a, who))
                                 \/ \E new \in Status : UpdateAssignmentStatus(a, new))
           \/ ActivityNext
    BY <1>7, <1>8 DEF Assign, UpdateAssignmentStatus, ActivityNext, AssignActivity,
        UnassignActivity, UpdateActivityStatus, assignmentVars
<1>9. CASE BadgeNext \/ PeopleNext \/ UNCHANGED vars
           \/ (\E m \in Missions, op \in Persons : CreateMission(m, op))
    BY <1>7, <1>9, Bystanders
<1> QED BY <1>5, <1>6, <1>8, <1>9
        DEF Next, MissionNext, AssignmentNext, DeleteMission, DeleteAssignment

(* A mission never has more assignments than its max_total.                *)
THEOREM TotalSound == Spec => []TotalRespected
<1>1. Init => TotalRespected
    <2> SUFFICES ASSUME Init, NEW m \in missions
                 PROVE  Cardinality(ByMission(m)) <= PolicyOf(m).max_total
        BY DEF TotalRespected
    <2>1. ByMission(m) = {} /\ m \in StoredMissions
        BY DEF Init, ByMission
    <2> QED BY <2>1, FS_EmptySet, LifecycleAssumption DEF PolicyOf
<1> QED BY <1>1, TypeCorrect, TotalStep, PTL DEF Spec

-----------------------------------------------------------------------------
(* The promise                                                             *)

PhaseMap == [a \in Assignments |-> Phase(a)]
WorkMap  == [a \in Assignments |-> [s \in Slots |-> Work(a, s)]]

LEMMA PromiseInit == Init => Promise!Init
<1> SUFFICES ASSUME Init PROVE Promise!Init
    OBVIOUS
<1>1. \A a \in Assignments : Phase(a) = "none"
    BY LifecycleAssumption DEF Init, Phase
<1>2. \A a \in Assignments, s \in Slots : Work(a, s) = "todo"
    BY DEF Init, Work
<1> QED BY <1>1, <1>2 DEF Promise!Init

(* A step that touches one assignment at most moves the maps there only.   *)
LEMMA OneRow ==
    ASSUME TypeOK, NEW a \in Assignments,
           \A b \in Assignments \ {a} :
              /\ b \in assignments' <=> b \in assignments
              /\ b \in used' <=> b \in used
              /\ status'[b] = status[b]
              /\ activityStatus'[b] = activityStatus[b]
    PROVE  /\ PhaseMap' = [PhaseMap EXCEPT ![a] = Phase(a)']
           /\ WorkMap' = [WorkMap EXCEPT ![a] = [s \in Slots |-> Work(a, s)']]
<1>1. \A b \in Assignments \ {a} : Phase(b)' = Phase(b)
    BY DEF Phase
<1>2. \A b \in Assignments \ {a}, s \in Slots : Work(b, s)' = Work(b, s)
    BY DEF Work
<1>3. PhaseMap' = [b \in Assignments |-> Phase(b)'] /\ PhaseMap = [b \in Assignments |-> Phase(b)]
    BY DEF PhaseMap
<1>4. /\ WorkMap' = [b \in Assignments |-> [s \in Slots |-> Work(b, s)']]
      /\ WorkMap = [b \in Assignments |-> [s \in Slots |-> Work(b, s)]]
    BY DEF WorkMap
<1>5. PhaseMap' = [PhaseMap EXCEPT ![a] = Phase(a)']
    BY <1>1, <1>3
<1>6. WorkMap' = [WorkMap EXCEPT ![a] = [s \in Slots |-> Work(a, s)']]
    BY <1>2, <1>4
<1> QED BY <1>5, <1>6

LEMMA PromiseStutter ==
    ASSUME UNCHANGED <<assignments, status, activityStatus>>,
           used' \intersect Assignments = used \intersect Assignments
    PROVE  PhaseMap' = PhaseMap /\ WorkMap' = WorkMap
BY DEF PhaseMap, WorkMap, Phase, Work

(* Rows outside A stay, rows of A are discarded.                           *)
LEMMA PromiseErase ==
    ASSUME TypeOK, NEW A \in SUBSET assignments, EraseAssignments(A), used' = used
    PROVE  Promise!Discard(A)
<1>1. A \subseteq Assignments /\ A \subseteq used
    BY DEF TypeOK
<1>2. ASSUME NEW a \in A
      PROVE  /\ Phase(a) \in {"draft", "open", "succeeded", "failed"}
             /\ Phase(a)' = "gone"
             /\ \A s \in Slots : Work(a, s)' = "todo"
    BY <1>1, <1>2 DEF Phase, Work, EraseAssignments
<1>3. ASSUME NEW a \in Assignments, a \notin A
      PROVE  /\ Phase(a)' = Phase(a)
             /\ \A s \in Slots : Work(a, s)' = Work(a, s)
    BY <1>3 DEF Phase, Work, EraseAssignments
<1> QED BY <1>1, <1>2, <1>3 DEF Promise!Discard

PromiseStep == Promise!Next \/ (PhaseMap' = PhaseMap /\ WorkMap' = WorkMap)

LEMMA PromiseAssignments == LifecycleInv /\ AssignmentNext => PromiseStep
<1> SUFFICES ASSUME LifecycleInv, NEW a \in Assignments,
                    \/ \E m \in Missions, who \in Assignees \union {NoOne}, op \in Persons :
                          CreateAssignment(m, a, who, op)
                    \/ \E who \in Assignees : Assign(a, who)
                    \/ \E new \in Status : UpdateAssignmentStatus(a, new)
                    \/ DeleteAssignment(a)
             PROVE  PromiseStep
    BY DEF AssignmentNext
<1> USE DEF LifecycleInv
<1>1. PhaseMap[a] = Phase(a) /\ WorkMap[a] = [s \in Slots |-> Work(a, s)]
    BY DEF PhaseMap, WorkMap
<1>2. ASSUME UNCHANGED activityStatus, assignments' \in {assignments, assignments \union {a}},
             used' \in {used, used \union {a}},
             \A b \in Assignments \ {a} : status'[b] = status[b]
      PROVE  /\ PhaseMap' = [PhaseMap EXCEPT ![a] = Phase(a)']
             /\ WorkMap' = WorkMap
    <2>1. WorkMap' = WorkMap
        BY <1>2 DEF WorkMap, Work
    <2> QED BY <1>2, <2>1, OneRow
<1>3. ASSUME NEW m \in Missions, NEW who \in Assignees \union {NoOne}, NEW op \in Persons,
             CreateAssignment(m, a, who, op)
      PROVE  PromiseStep
    <2>1. Phase(a) = "none" /\ Phase(a)' \in {"draft", "open"}
        BY <1>3 DEF CreateAssignment, Phase, Active, TypeOK
    <2>2. PhaseMap' = [PhaseMap EXCEPT ![a] = Phase(a)'] /\ WorkMap' = WorkMap
        BY <1>2, <1>3 DEF CreateAssignment, activityVars, TypeOK
    <2>3. Promise!Appear(a)
        BY <1>1, <2>1, <2>2 DEF Promise!Appear, PhaseMap, WorkMap
    <2> QED BY <2>3 DEF PromiseStep, Promise!Next
<1>4. ASSUME NEW who \in Assignees, Assign(a, who) PROVE PromiseStep
    <2>1. Phase(a) = "draft" /\ Phase(a)' = "open"
        BY <1>4 DEF Assign, Phase, Active, TypeOK
    <2>2. PhaseMap' = [PhaseMap EXCEPT ![a] = Phase(a)'] /\ WorkMap' = WorkMap
        BY <1>2, <1>4 DEF Assign, activityVars, TypeOK
    <2>3. Promise!Open(a)
        BY <1>1, <2>1, <2>2 DEF Promise!Open, PhaseMap, WorkMap
    <2> QED BY <2>3 DEF PromiseStep, Promise!Next
<1>5. ASSUME NEW new \in Status, UpdateAssignmentStatus(a, new) PROVE PromiseStep
    <2> USE <1>5 DEF UpdateAssignmentStatus
    <2>1. PhaseMap' = [PhaseMap EXCEPT ![a] = Phase(a)'] /\ WorkMap' = WorkMap
        BY <1>2 DEF activityVars, TypeOK
    <2>2. a \in used /\ a \in assignments /\ assignments' = assignments /\ used' = used
          /\ status'[a] = new
        BY DEF TypeOK
    <2>3. CASE status[a] = "UNASSIGNED"
        <3>1. new = "ASSIGNED"
            BY <2>3 DEF MayRequest, StatusTransitions
        <3>2. Promise!Open(a)
            BY <1>1, <2>1, <2>2, <2>3, <3>1 DEF Promise!Open, PhaseMap, WorkMap, Phase, Active
        <3> QED BY <3>2 DEF PromiseStep, Promise!Next
    <2>4. CASE new = "IN_PROGRESS"
        <3>1. status[a] = "ASSIGNED"
            BY <2>4 DEF MayRequest, StatusTransitions
        <3>2. Phase(a)' = Phase(a)
            BY <2>2, <2>4, <3>1 DEF Phase, Active
        <3> QED BY <1>1, <2>1, <3>2 DEF PromiseStep, PhaseMap
    <2>5. CASE new = "COMPLETED"
        <3>1. status[a] = "IN_PROGRESS"
            BY <2>5 DEF MayRequest, StatusTransitions
        <3>2. Phase(a) = "open" /\ Phase(a)' = "succeeded"
            BY <2>2, <2>5, <3>1 DEF Phase, Active
        <3>3. \A s \in Slots : Work(a, s) = "done"
            BY <2>5, OutcomeCompleted DEF Work
        <3>4. Promise!Succeed(a)
            BY <1>1, <2>1, <3>2, <3>3 DEF Promise!Succeed, PhaseMap, WorkMap
        <3> QED BY <3>4 DEF PromiseStep, Promise!Next
    <2>6. CASE new = "FAILED"
        <3>1. status[a] \in Active
            BY <2>6 DEF MayRequest, StatusTransitions, Active
        <3>2. Phase(a) = "open" /\ Phase(a)' = "failed"
            BY <2>2, <2>6, <3>1 DEF Phase, Active
        <3>3. Promise!Fail(a)
            BY <1>1, <2>1, <3>2 DEF Promise!Fail, PhaseMap, WorkMap
        <3> QED BY <3>3 DEF PromiseStep, Promise!Next
    <2>7. \/ status[a] = "UNASSIGNED" \/ new \in {"IN_PROGRESS", "COMPLETED", "FAILED"}
        BY DEF MayRequest, StatusTransitions
    <2> QED BY <2>3, <2>4, <2>5, <2>6, <2>7
<1>6. CASE DeleteAssignment(a)
    <2>1. Promise!Discard({a})
        BY <1>6, PromiseErase DEF DeleteAssignment
    <2> QED BY <2>1 DEF PromiseStep, Promise!Next
<1> QED BY <1>3, <1>4, <1>5, <1>6

LEMMA PromiseActivities == LifecycleInv /\ ActivityNext => PromiseStep
<1> SUFFICES ASSUME LifecycleInv, NEW a \in Assignments, NEW s \in Slots,
                    \/ \E p \in Persons : AssignActivity(a, s, p)
                    \/ \E p \in Persons : UnassignActivity(a, s, p)
                    \/ \E new \in Status : UpdateActivityStatus(a, s, new)
             PROVE  PromiseStep
    BY DEF ActivityNext
<1> USE DEF LifecycleInv
<1>1. /\ PhaseMap[a] = Phase(a)
      /\ \A r \in Slots : WorkMap[a][r] = Work(a, r)
      /\ WorkMap[a] = [r \in Slots |-> Work(a, r)]
    BY DEF PhaseMap, WorkMap
<1>2. ASSUME assignments' = assignments, used' = used, status' = status,
             \A b \in Assignments, r \in Slots :
                \/ activityStatus'[b][r] = activityStatus[b][r]
                \/ /\ activityStatus[b][r] \notin Terminal
                   /\ activityStatus'[b][r] \notin Terminal
      PROVE  PromiseStep
    <2>1. \A b \in Assignments : Phase(b)' = Phase(b)
        BY <1>2 DEF Phase
    <2>2. \A b \in Assignments, r \in Slots : Work(b, r)' = Work(b, r)
        BY <1>2 DEF Work, Terminal
    <2> QED BY <2>1, <2>2 DEF PromiseStep, PhaseMap, WorkMap
<1>3. ASSUME NEW p \in Persons, AssignActivity(a, s, p) PROVE PromiseStep
    BY <1>2, <1>3 DEF AssignActivity, assignmentVars, Terminal, TypeOK
<1>4. ASSUME NEW p \in Persons, UnassignActivity(a, s, p) PROVE PromiseStep
    BY <1>2, <1>4 DEF UnassignActivity, MayUnassign, assignmentVars, Terminal, TypeOK
<1>5. ASSUME NEW new \in Status, UpdateActivityStatus(a, s, new) PROVE PromiseStep
    <2>1. /\ assignments' = assignments /\ used' = used
          /\ a \in assignments /\ a \in used
          /\ status' = [status EXCEPT ![a] = Cascade(a, new)]
          /\ activityStatus' = [activityStatus EXCEPT ![a][s] = new]
          /\ status'[a] = Cascade(a, new) /\ activityStatus'[a][s] = new
          /\ activityStatus[a][s] \notin Terminal
        BY <1>5 DEF UpdateActivityStatus, MayRequest, StatusTransitions, Terminal, TypeOK
    <2>2. /\ PhaseMap' = [PhaseMap EXCEPT ![a] = Phase(a)']
          /\ WorkMap' = [WorkMap EXCEPT ![a] = [r \in Slots |-> Work(a, r)']]
        BY <2>1, OneRow DEF TypeOK
    <2>3. \A r \in Slots \ {s} : Work(a, r)' = Work(a, r)
        BY <2>1 DEF Work, TypeOK
    <2>4. Work(a, s) = "todo"
        BY <2>1 DEF Work, Terminal
    <2>5. [r \in Slots |-> Work(a, r)'] = [WorkMap[a] EXCEPT ![s] = Work(a, s)']
        BY <1>1, <2>3
    <2>6. status[a] # "COMPLETED"
        BY <2>1 DEF CompletedMeansDone, Terminal
    <2>7. CASE new = "COMPLETED"
        <3>1. Work(a, s)' = "done" /\ Phase(a)' = Phase(a)
            BY <2>1, <2>7 DEF Work, Phase, Cascade, CascadeTo
        <3>2. Phase(a) \in {"draft", "open", "failed"}
            BY <2>1, <2>6 DEF Phase
        <3>3. PhaseMap' = PhaseMap
            BY <1>1, <2>2, <3>1 DEF PhaseMap
        <3>4. WorkMap' = [WorkMap EXCEPT ![a][s] = "done"]
            BY <2>2, <2>5, <3>1 DEF WorkMap
        <3>5. Promise!Do(a, s)
            BY <1>1, <2>4, <3>2, <3>3, <3>4 DEF Promise!Do, PhaseMap, WorkMap
        <3> QED BY <3>5 DEF PromiseStep, Promise!Next
    <2>8. CASE new = "FAILED"
        <3>1. Cascade(a, new) = "FAILED"
            BY <2>6, <2>8 DEF Cascade, CascadeTo, Terminal
        <3>2. status[a] # "UNASSIGNED"
            BY <1>5, <3>1 DEF UpdateActivityStatus, StatusTransitions
        <3>3. Work(a, s)' = "lost" /\ Phase(a)' = "failed"
            BY <2>1, <2>8, <3>1 DEF Work, Phase, Active
        <3>4. Phase(a) \in {"open", "failed"}
            BY <2>1, <2>6, <3>2 DEF Phase
        <3>5. WorkMap' = [WorkMap EXCEPT ![a][s] = "lost"]
            BY <2>2, <2>5, <3>3 DEF WorkMap
        <3>6. Promise!Lose(a, s)
            BY <1>1, <2>2, <2>4, <3>3, <3>4, <3>5 DEF Promise!Lose, PhaseMap, WorkMap
        <3> QED BY <3>6 DEF PromiseStep, Promise!Next
    <2>9. CASE new \notin Terminal
        <3>1. \A r \in Slots : Work(a, r)' = Work(a, r)
            BY <2>1, <2>3, <2>4, <2>9 DEF Work, Terminal
        <3>2. Phase(a)' = Phase(a)
            BY <2>1, <2>9 DEF Phase, Cascade, CascadeTo, Active, Terminal
        <3>3. PhaseMap' = PhaseMap
            BY <1>1, <2>2, <3>2 DEF PhaseMap
        <3>4. [r \in Slots |-> Work(a, r)'] = WorkMap[a]
            BY <1>1, <3>1
        <3>5. WorkMap' = WorkMap
            BY <2>2, <3>4 DEF WorkMap
        <3> QED BY <3>3, <3>5 DEF PromiseStep
    <2> QED BY <2>7, <2>8, <2>9 DEF Terminal
<1> QED BY <1>3, <1>4, <1>5

LEMMA PromiseNext == LifecycleInv /\ [Next]_vars => PromiseStep
<1> SUFFICES ASSUME LifecycleInv, [Next]_vars PROVE PromiseStep
    OBVIOUS
<1>1. ASSUME NEW m \in Missions, DeleteMission(m) PROVE PromiseStep
    <2>1. Promise!Discard(ByMission(m)) /\ ByMission(m) \in SUBSET Assignments
        BY <1>1, PromiseErase DEF DeleteMission, ByMission, LifecycleInv, TypeOK
    <2> QED BY <2>1 DEF PromiseStep, Promise!Next
<1>2. CASE BadgeNext \/ PeopleNext \/ UNCHANGED vars
           \/ (\E m \in Missions, op \in Persons : CreateMission(m, op))
    <2>1. used' \intersect Assignments = used \intersect Assignments
        BY <1>2, LifecycleAssumption
        DEF BadgeNext, AwardAssignment, AwardActivity, Award, PeopleNext, AddPerson, RemovePerson,
            AddGroup, RemoveGroup, AddGroupMember, RemoveGroupMember, CreateMission, vars
    <2> QED BY <1>2, <2>1, Bystanders, PromiseStutter DEF PromiseStep
<1> QED BY <1>1, <1>2, PromiseAssignments, PromiseActivities DEF Next, MissionNext

(* The use cases implement what AssignmentPromise says of an assignment.   *)
THEOREM PromiseKept == Spec => KeepsPromise
<1>1. LifecycleInv /\ [Next]_vars => [Promise!Next]_<<PhaseMap, WorkMap>>
    BY PromiseNext DEF PromiseStep
<1>2. LifecycleInv /\ [Next]_vars =>
         [Promise!Next]_<<[a \in Assignments |-> Phase(a)],
                          [a \in Assignments |-> [s \in Slots |-> Work(a, s)]]>>
    BY <1>1 DEF PhaseMap, WorkMap
<1> QED BY <1>2, PromiseInit, LifecycleCorrect, PTL DEF Spec, KeepsPromise, Promise!Spec
=============================================================================
