------------------------------- MODULE Statuses -------------------------------
(***************************************************************************)
(* The statuses of assignments and activities and the rules on them        *)
(* (domain/enums.py, policies.py, entities.py), shared by the serial and   *)
(* the concurrent view of the use cases.                                   *)
(***************************************************************************)

Status == {"UNASSIGNED", "ASSIGNED", "IN_PROGRESS", "COMPLETED", "FAILED"}

RetryTransitions(s) ==      \* mutant: a failed item may be retried
    CASE s = "UNASSIGNED"  -> {"ASSIGNED"}
      [] s = "ASSIGNED"    -> {"UNASSIGNED", "IN_PROGRESS", "FAILED"}
      [] s = "IN_PROGRESS" -> {"COMPLETED", "FAILED"}
      [] s = "FAILED"      -> {"IN_PROGRESS"}
      [] OTHER             -> {}

StatusTransitions(s) ==
    CASE s = "UNASSIGNED"  -> {"ASSIGNED"}
      [] s = "ASSIGNED"    -> {"UNASSIGNED", "IN_PROGRESS", "FAILED"}
      [] s = "IN_PROGRESS" -> {"COMPLETED", "FAILED"}
      [] OTHER             -> {}

Terminal == {"COMPLETED", "FAILED"}
Active   == {"ASSIGNED", "IN_PROGRESS"}

(* AssignmentStatusPolicy.validate_transition: a command may not ask for   *)
(* UNASSIGNED, which only the removal of the last assignee restores.       *)
MayRequest(current, requested) ==
    requested # "UNASSIGNED" /\ requested \in StatusTransitions(current)

(* compute_outcome() of an objective over its activities and of an         *)
(* assignment over its objectives: the same rule at both levels.           *)
AggregateAny(outcomes) ==   \* mutant: any() written for all()
    IF "COMPLETED" \in outcomes THEN "COMPLETED" ELSE "NONE"

Aggregate(outcomes) ==
    IF outcomes = {"COMPLETED"}           THEN "COMPLETED"
    ELSE IF "FAILED" \in outcomes         THEN "FAILED"
    ELSE IF "IN_PROGRESS" \in outcomes    THEN "IN_PROGRESS"
    ELSE "NONE"

(* ActivityService.update_status: the status a parent in status current    *)
(* takes when one of its activities becomes new.                           *)
CascadeTo(current, new) ==
    CASE new = "IN_PROGRESS" /\ current = "ASSIGNED" -> "IN_PROGRESS"
      [] new = "FAILED" /\ current \notin Terminal   -> "FAILED"
      [] OTHER                                       -> current
=============================================================================
