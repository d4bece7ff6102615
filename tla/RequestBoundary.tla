---------------------------- MODULE RequestBoundary ----------------------------
(***************************************************************************)
(* What a request goes through: the frontends (REST, Web, CLI), the check  *)
(* each makes at its boundary, the rate limit, and the check the services  *)
(* make again.                                                             *)
(*                                                                         *)
(* The boundary looks up the route in a table of its own and asks the      *)
(* AuthorizationPolicy; the handler then calls services, and each asks the *)
(* policy for the operation it knows it is about.  The two looks happen in *)
(* different transactions, and the tables are written by hand, one in      *)
(* every frontend.  A right is a check <<operation, type, scope>> that the *)
(* entries in force would answer with ALLOWED (AccessControl models how);  *)
(* rights change while a request is under way.                             *)
(***************************************************************************)
EXTENDS Naturals, Sequences, FiniteSets, SequencesExt

CONSTANTS MaxChanges     \* bound: how often rights change during one request

ASSUME BoundaryAssumption == MaxChanges \in Nat

One(operation, type)  == <<operation, type, "one">>     \* a resource, by its id
Root(operation, type) == <<operation, type, "root">>    \* a resource type as a whole
System(operation)     == <<operation, "SYSTEM", "one">>
ReadOnly(operation)   == operation \in {"VIEW", "LIST"}

(* No right but a fact, the same for everybody: there is no administrator. *)
NoAdministrator == System("NO_ADMINISTRATOR")

-----------------------------------------------------------------------------
(* What the services ask: a use case and its check                         *)

MissionUses == {
    <<"create-mission", System("CREATE_MISSION")>>,
    <<"get-mission",    One("VIEW", "MISSION")>>,
    <<"list-missions",  Root("LIST", "MISSION")>>,
    <<"delete-mission", One("DELETE", "MISSION")>>}

AssignmentUses == {
    <<"create-assignment", One("CREATE_ASSIGNMENT", "MISSION")>>,
    <<"assign-assignment", One("ASSIGN", "ASSIGNMENT")>>,
    <<"get-assignment",    One("VIEW", "ASSIGNMENT")>>,
    <<"list-assignments",  One("LIST", "MISSION")>>,
    <<"list-candidates",   One("VIEW", "ASSIGNMENT")>>,
    <<"set-assignment-status", One("UPDATE_STATUS", "ASSIGNMENT")>>}

ActivityUses == {
    <<"get-activity",      One("VIEW", "ACTIVITY")>>,
    <<"assign-activity",   One("ASSIGN", "ACTIVITY")>>,
    <<"unassign-activity", One("ASSIGN", "ACTIVITY")>>,
    <<"set-activity-status", One("UPDATE_STATUS", "ACTIVITY")>>,
    <<"list-activities",   One("LIST", "OBJECTIVE")>>}

BadgeUses == {
    <<"create-badge", System("CREATE_BADGE")>>,
    <<"get-badge",    One("VIEW", "BADGE")>>,
    <<"list-badges",  Root("LIST", "BADGE")>>,
    <<"award-to-assignment", One("AWARD_BADGE", "ASSIGNMENT")>>,
    <<"award-to-activity",   One("AWARD_BADGE", "ACTIVITY")>>,
    <<"badges-of-person",    One("VIEW", "PERSON")>>}

PersonUses == {
    <<"add-person",    System("CREATE_PERSON")>>,
    <<"update-person", One("EDIT", "PERSON")>>,
    <<"set-profile",   System("MANAGE_PROFILES")>>,
    <<"leave-group",   System("MANAGE_PROFILES")>>,
    <<"remove-person", One("DELETE", "PERSON")>>,
    <<"get-person",    One("VIEW", "PERSON")>>,
    <<"list-persons",  Root("LIST", "PERSON")>>}

GroupUses == {
    <<"members-of-group", One("VIEW", "GROUP")>>,
    <<"add-group",     System("CREATE_GROUP")>>,
    <<"update-group",  One("EDIT", "GROUP")>>,
    <<"remove-group",  One("DELETE", "GROUP")>>,
    <<"get-group",     One("VIEW", "GROUP")>>,
    <<"list-groups",   Root("LIST", "GROUP")>>}

MembershipUsesUnasked == {}          \* mutant: left to the boundary
MembershipUses == {
    <<"add-member",    One("MANAGE_MEMBERS", "GROUP")>>,
    <<"remove-member", One("MANAGE_MEMBERS", "GROUP")>>}

(* AclService asks MANAGE_ACL, globally or on the resource of the entry.   *)
AclUses == {<<use, System("MANAGE_ACL")>> :
               use \in {"list-entries", "create-entry", "update-entry", "delete-entry"}}

(* The password of another operator: asked by the handler itself.          *)
PasswordUses == {<<"set-password", One("EDIT", "PERSON")>>}

(* admin_exists, after which the first administrator is created, in a      *)
(* transaction of its own and with no check (acl_bypass).                  *)
SetupUses == {<<"admin-exists", NoAdministrator>>}

(* Who signs in or out proves himself to the service that is called.       *)
SigningIn == {"login", "login-oidc", "logout"}

(* The registry of extensions asks nothing, nor does who signs in, creates *)
(* the first administrator or changes the operator's own password.         *)
Uses == MissionUses \cup AssignmentUses \cup ActivityUses \cup BadgeUses \cup PersonUses
            \cup GroupUses \cup MembershipUses \cup AclUses \cup PasswordUses
            \cup SetupUses

Asks(use) == {u[2] : u \in {v \in Uses : v[1] = use}}

ReadingUses ==
    {"get-mission", "list-missions", "get-assignment", "list-assignments", "list-candidates",
     "get-activity", "list-activities", "get-badge", "list-badges", "badges-of-person",
     "get-person", "list-persons", "members-of-group", "get-group", "list-groups", "list-entries",
     "admin-exists", "read-extension"}

-----------------------------------------------------------------------------
(* REST: the routers, as <<rule, method, use cases>>                       *)

MissionRouter == {
    <<"/missions", "GET", <<"list-missions">>>>,
    <<"/missions", "POST", <<"create-mission">>>>,
    <<"/missions/id", "GET", <<"get-mission">>>>,
    <<"/missions/id", "DELETE", <<"delete-mission">>>>,
    <<"/missions/id/objectives", "GET", <<"get-mission">>>>}

AssignmentRouter == {
    <<"/missions/id/assignments", "GET", <<"list-assignments">>>>,
    <<"/missions/id/assignments", "POST", <<"create-assignment">>>>,
    <<"/assignments/id", "GET", <<"get-assignment">>>>,
    <<"/assignments/id/assign", "POST", <<"assign-assignment">>>>,
    <<"/assignments/id/status", "PUT", <<"set-assignment-status">>>>,
    <<"/assignments/id/badge", "POST", <<"award-to-assignment">>>>,
    <<"/assignments/id/objectives", "GET", <<"get-assignment">>>>}

ActivityRouter == {
    <<"/activities/id", "GET", <<"get-activity">>>>,
    <<"/activities/id/assign", "POST", <<"assign-activity">>>>,
    <<"/activities/id/assign", "DELETE", <<"unassign-activity">>>>,
    <<"/activities/id/badge", "POST", <<"award-to-activity">>>>,
    <<"/activities/id/status", "PUT", <<"set-activity-status">>>>,
    <<"/objectives/id/activities", "GET", <<"list-activities">>>>}

BadgeRouter == {
    <<"/badges", "GET", <<"list-badges">>>>,
    <<"/badges", "POST", <<"create-badge">>>>,
    <<"/badges/id", "GET", <<"get-badge">>>>,
    <<"/persons/id/badges", "GET", <<"badges-of-person">>>>}

PersonRouter == {
    <<"/persons", "GET", <<"list-persons">>>>,
    <<"/persons", "POST", <<"add-person">>>>,
    <<"/persons/id", "GET", <<"get-person">>>>,
    <<"/persons/id", "PUT", <<"update-person">>>>,
    <<"/persons/id", "DELETE", <<"remove-person">>>>,
    <<"/groups", "GET", <<"list-groups">>>>,
    <<"/groups", "POST", <<"add-group">>>>,
    <<"/groups/id", "GET", <<"get-group">>>>,
    <<"/groups/id", "PUT", <<"update-group">>>>,
    <<"/groups/id", "DELETE", <<"remove-group">>>>,
    <<"/groups/id/members", "GET", <<"members-of-group">>>>,
    <<"/groups/id/members", "POST", <<"add-member">>>>,
    <<"/groups/id/members", "DELETE", <<"remove-member">>>>}

AclRouter == {
    <<"/acl/entries", "GET", <<"list-entries">>>>,
    <<"/acl/entries", "POST", <<"create-entry">>>>,
    <<"/acl/entries/id", "PATCH", <<"update-entry">>>>,
    <<"/acl/entries/id", "DELETE", <<"delete-entry">>>>,
    <<"/persons/id/acl", "PUT", <<"set-profile">>>>}

(* The password of somebody else, or the operator's own.                   *)
AuthRouter == {
    <<"/auth/password", "PUT", <<"set-password">>>>,
    <<"/auth/password", "PUT", <<"own-password">>>>}

ExtensionView == {
    <<"/extension", "GET", <<"read-extension">>>>,
    <<"/extension", "POST", <<"run-extension">>>>}

RestRouters == MissionRouter \cup AssignmentRouter \cup ActivityRouter \cup BadgeRouter
                  \cup PersonRouter \cup AclRouter \cup AuthRouter \cup ExtensionView

-----------------------------------------------------------------------------
(* REST: the table of the middleware, as <<rule, method, check>>           *)

RouteOperationsOfWork == {
    <<"/missions", "GET", Root("LIST", "MISSION")>>,
    <<"/missions", "POST", System("CREATE_MISSION")>>,
    <<"/missions/id", "GET", One("VIEW", "MISSION")>>,
    <<"/missions/id", "DELETE", One("DELETE", "MISSION")>>,
    <<"/missions/id/objectives", "GET", One("VIEW", "MISSION")>>,
    <<"/missions/id/assignments", "GET", One("LIST", "MISSION")>>,
    <<"/missions/id/assignments", "POST", One("CREATE_ASSIGNMENT", "MISSION")>>,
    <<"/assignments/id", "GET", One("VIEW", "ASSIGNMENT")>>,
    <<"/assignments/id/assign", "POST", One("ASSIGN", "ASSIGNMENT")>>,
    <<"/assignments/id/status", "PUT", One("UPDATE_STATUS", "ASSIGNMENT")>>,
    <<"/assignments/id/badge", "POST", One("AWARD_BADGE", "ASSIGNMENT")>>,
    <<"/assignments/id/objectives", "GET", One("VIEW", "ASSIGNMENT")>>,
    <<"/activities/id", "GET", One("VIEW", "ACTIVITY")>>,
    <<"/activities/id/status", "PUT", One("UPDATE_STATUS", "ACTIVITY")>>,
    <<"/activities/id/assign", "POST", One("ASSIGN", "ACTIVITY")>>,
    <<"/activities/id/assign", "DELETE", One("ASSIGN", "ACTIVITY")>>,
    <<"/activities/id/badge", "POST", One("AWARD_BADGE", "ACTIVITY")>>,
    <<"/objectives/id/activities", "GET", One("LIST", "OBJECTIVE")>>,
    <<"/badges", "GET", Root("LIST", "BADGE")>>,
    <<"/badges", "POST", System("CREATE_BADGE")>>,
    <<"/badges/id", "GET", One("VIEW", "BADGE")>>}

RouteOperationsOfPeople == {
    <<"/persons/id/badges", "GET", One("VIEW", "PERSON")>>,
    <<"/persons", "GET", Root("LIST", "PERSON")>>,
    <<"/persons", "POST", System("CREATE_PERSON")>>,
    <<"/persons/id", "GET", One("VIEW", "PERSON")>>,
    <<"/persons/id", "PUT", One("EDIT", "PERSON")>>,
    <<"/persons/id", "DELETE", One("DELETE", "PERSON")>>,
    <<"/persons/id/acl", "PUT", System("MANAGE_PROFILES")>>,
    <<"/groups", "GET", Root("LIST", "GROUP")>>,
    <<"/groups", "POST", System("CREATE_GROUP")>>,
    <<"/groups/id", "GET", One("VIEW", "GROUP")>>,
    <<"/groups/id", "PUT", One("EDIT", "GROUP")>>,
    <<"/groups/id", "DELETE", One("DELETE", "GROUP")>>}

RouteOperationsOfMembers == {
    <<"/groups/id/members", "GET", One("VIEW", "GROUP")>>,
    <<"/groups/id/members", "POST", One("MANAGE_MEMBERS", "GROUP")>>,
    <<"/groups/id/members", "DELETE", One("MANAGE_MEMBERS", "GROUP")>>}

RouteOperations ==
    RouteOperationsOfWork \cup RouteOperationsOfPeople \cup RouteOperationsOfMembers

(* Rules the middleware leaves to the service but for the identity.        *)
ServiceEnforced(rule) == rule \in {"/acl/entries", "/acl/entries/id", "/auth/password"}

(* _resolve_check: a rule outside the table is an extension's.             *)
OfExtension(method) == IF method = "GET" THEN System("VIEW") ELSE System("EXECUTE")

Boundary(table, rule, method) ==
    LET rows == {row \in table : row[1] = rule /\ row[2] = method}
    IN  IF rows # {} THEN {row[3] : row \in rows} ELSE {OfExtension(method)}

RestAsks(rule, method) ==
    IF ServiceEnforced(rule) THEN {} ELSE Boundary(RouteOperations, rule, method)

RemovalsFromGroups == {
    <<"/groups/id/members", "DELETE", "REMOVE_GROUP_MEMBER">>,
    <<"/groups/id", "DELETE", "REMOVE_GROUP">>}

(* _rate_limited_operation, by the tests on path and method in their order:*)
(* DELETE of members comes before DELETE of a group, and PUT of a profile  *)
(* counts as an update of the person.                                      *)
RateLimited == {
    <<"/missions", "POST", "CREATE_MISSION">>,
    <<"/missions/id", "DELETE", "DELETE_MISSION">>,
    <<"/missions/id/assignments", "POST", "CREATE_ASSIGNMENT">>,
    <<"/assignments/id/assign", "POST", "ASSIGN_ASSIGNMENT">>,
    <<"/assignments/id/status", "PUT", "UPDATE_ASSIGNMENT_STATUS">>,
    <<"/activities/id/status", "PUT", "UPDATE_ACTIVITY_STATUS">>,
    <<"/activities/id/assign", "POST", "ASSIGN_ACTIVITY">>,
    <<"/activities/id/assign", "DELETE", "UNASSIGN_ACTIVITY">>,
    <<"/badges", "POST", "CREATE_BADGE">>,
    <<"/assignments/id/badge", "POST", "AWARD_BADGE">>,
    <<"/activities/id/badge", "POST", "AWARD_BADGE">>,
    <<"/persons", "POST", "ADD_PERSON">>,
    <<"/persons/id", "PUT", "UPDATE_PERSON">>,
    <<"/persons/id/acl", "PUT", "UPDATE_PERSON">>,
    <<"/persons/id", "DELETE", "REMOVE_PERSON">>,
    <<"/groups", "POST", "CREATE_GROUP">>,
    <<"/groups/id", "PUT", "UPDATE_GROUP">>,
    <<"/groups/id/members", "POST", "ADD_GROUP_MEMBER">>,
    <<"/auth/password", "PUT", "CHANGE_PASSWORD">>} \cup RemovalsFromGroups

Buckets(rule, method) ==
    LET named == {row[3] : row \in {r \in RateLimited : r[1] = rule /\ r[2] = method}}
    IN  IF method = "GET" THEN {} ELSE IF named = {} THEN {"OTHER_MUTATION"} ELSE named

-----------------------------------------------------------------------------
(* Web: the handlers, as <<endpoint, method, use cases in their order>>    *)

MissionPages == {
    <<"list_missions", "GET", <<"list-missions">>>>,
    <<"new_mission_form", "GET", <<>>>>,
    <<"create_mission", "POST", <<"create-mission">>>>,
    <<"get_mission", "GET", <<"get-mission">>>>,
    <<"delete_mission", "DELETE", <<"delete-mission">>>>}

AssignmentPages == {
    <<"list_assignments", "GET", <<"list-missions", "list-persons", "list-assignments">>>>,
    <<"new_assignment_form", "GET", <<"list-missions", "list-persons", "list-groups">>>>,
    <<"create_assignment", "POST", <<"create-assignment">>>>,
    <<"get_assignment", "GET", <<"get-assignment", "list-badges", "list-persons",
                                 "list-groups", "list-candidates">>>>,
    <<"assign_assignment", "POST", <<"assign-assignment">>>>,
    <<"update_assignment_status", "PUT", <<"set-assignment-status">>>>,
    <<"award_assignment_badge", "POST", <<"award-to-assignment">>>>}

ObjectivePages == {<<"list_objectives", "GET", <<"get-assignment">>>>}

ActivityPages == {
    <<"get_activity", "GET", <<"get-activity", "list-persons", "list-badges">>>>,
    <<"update_activity_status", "PUT", <<"set-activity-status">>>>,
    <<"assign_to_activity", "POST", <<"assign-activity">>>>,
    <<"unassign_from_activity", "DELETE", <<"unassign-activity">>>>,
    <<"award_activity_badge", "POST", <<"award-to-activity">>>>}

PersonPages == {
    <<"list_persons", "GET", <<"list-persons", "list-groups">>>>,
    <<"new_person_form", "GET", <<"list-groups">>>>,
    <<"get_person", "GET", <<"get-person", "list-groups", "badges-of-person">>>>,
    <<"create_person", "POST", <<"add-person">>>>,
    <<"update_person", "PUT", <<"update-person">>>>,
    <<"delete_person", "DELETE", <<"remove-person">>>>}

GroupPages == {
    <<"list_groups", "GET", <<"list-groups">>>>,
    <<"new_group_form", "GET", <<>>>>,
    <<"get_group", "GET", <<"get-group", "members-of-group", "list-persons">>>>,
    <<"create_group", "POST", <<"add-group">>>>,
    <<"update_group", "PUT", <<"update-group">>>>,
    <<"delete_group", "DELETE", <<"remove-group">>>>,
    <<"add_group_member", "POST", <<"add-member">>>>,
    <<"remove_group_member", "DELETE", <<"remove-member">>>>}

BadgePages == {
    <<"list_badges", "GET", <<"list-badges">>>>,
    <<"new_badge_form", "GET", <<>>>>,
    <<"get_badge", "GET", <<"get-badge">>>>,
    <<"create_badge", "POST", <<"create-badge">>>>}

AclPages == {
    <<"acl_management", "GET", <<"list-persons", "list-entries">>>>,
    <<"set_acl_profile", "POST", <<"set-profile">>>>,
    <<"remove_acl_profile_group", "DELETE", <<"leave-group">>>>,
    <<"create_acl_entry", "POST", <<"create-entry">>>>,
    <<"delete_acl_entry", "DELETE", <<"delete-entry">>>>}

WebExtensionView == {
    <<"extension", "GET", <<"read-extension">>>>,
    <<"extension", "POST", <<"run-extension">>>>}

WebHandlers == MissionPages \cup AssignmentPages \cup ObjectivePages \cup ActivityPages
                  \cup PersonPages \cup GroupPages \cup BadgePages \cup AclPages
                  \cup WebExtensionView

(* _WEB_ENDPOINT_ACL, as <<endpoint, check>>.                              *)
EndpointAcl == {
    <<"list_missions", Root("LIST", "MISSION")>>,
    <<"new_mission_form", System("CREATE_MISSION")>>,
    <<"create_mission", System("CREATE_MISSION")>>,
    <<"get_mission", One("VIEW", "MISSION")>>,
    <<"delete_mission", One("DELETE", "MISSION")>>,
    <<"list_assignments", Root("LIST", "ASSIGNMENT")>>,
    <<"new_assignment_form", Root("CREATE_ASSIGNMENT", "MISSION")>>,
    <<"create_assignment", Root("CREATE_ASSIGNMENT", "MISSION")>>,
    <<"get_assignment", One("VIEW", "ASSIGNMENT")>>,
    <<"assign_assignment", One("ASSIGN", "ASSIGNMENT")>>,
    <<"update_assignment_status", One("UPDATE_STATUS", "ASSIGNMENT")>>,
    <<"award_assignment_badge", One("AWARD_BADGE", "ASSIGNMENT")>>,
    <<"list_objectives", One("VIEW", "ASSIGNMENT")>>,
    <<"get_activity", One("VIEW", "ACTIVITY")>>,
    <<"update_activity_status", One("UPDATE_STATUS", "ACTIVITY")>>,
    <<"assign_to_activity", One("ASSIGN", "ACTIVITY")>>,
    <<"unassign_from_activity", One("ASSIGN", "ACTIVITY")>>,
    <<"award_activity_badge", One("AWARD_BADGE", "ACTIVITY")>>,
    <<"list_persons", Root("LIST", "PERSON")>>,
    <<"new_person_form", System("CREATE_PERSON")>>,
    <<"create_person", System("CREATE_PERSON")>>,
    <<"get_person", One("VIEW", "PERSON")>>,
    <<"update_person", One("EDIT", "PERSON")>>,
    <<"delete_person", One("DELETE", "PERSON")>>,
    <<"list_groups", Root("LIST", "GROUP")>>,
    <<"new_group_form", System("CREATE_GROUP")>>,
    <<"create_group", System("CREATE_GROUP")>>,
    <<"get_group", One("VIEW", "GROUP")>>,
    <<"update_group", One("EDIT", "GROUP")>>,
    <<"delete_group", One("DELETE", "GROUP")>>,
    <<"add_group_member", One("MANAGE_MEMBERS", "GROUP")>>,
    <<"remove_group_member", One("MANAGE_MEMBERS", "GROUP")>>,
    <<"list_badges", Root("LIST", "BADGE")>>,
    <<"new_badge_form", System("CREATE_BADGE")>>,
    <<"create_badge", System("CREATE_BADGE")>>,
    <<"get_badge", One("VIEW", "BADGE")>>,
    <<"acl_management", System("MANAGE_ACL")>>,
    <<"set_acl_profile", System("MANAGE_PROFILES")>>,
    <<"remove_acl_profile_group", System("MANAGE_PROFILES")>>}

LeftToService(endpoint) == endpoint \in {"create_acl_entry", "delete_acl_entry"}

WebAsks(endpoint, method) ==
    LET rows == {row \in EndpointAcl : row[1] = endpoint}
    IN  IF LeftToService(endpoint) THEN {}
        ELSE IF rows # {} THEN {row[2] : row \in rows} ELSE {OfExtension(method)}

-----------------------------------------------------------------------------
(* CLI: the commands, as <<command, what require_acl asks, use case>>      *)

MissionCommands == {
    <<"mission-list", {Root("LIST", "MISSION")}, "list-missions">>,
    <<"mission-get", {One("VIEW", "MISSION")}, "get-mission">>,
    <<"mission-create", {System("CREATE_MISSION")}, "create-mission">>,
    <<"mission-delete", {One("DELETE", "MISSION")}, "delete-mission">>}

AssignmentCommands == {
    <<"assignment-create", {One("CREATE_ASSIGNMENT", "MISSION")}, "create-assignment">>,
    <<"assignment-assign", {One("ASSIGN", "ASSIGNMENT")}, "assign-assignment">>,
    <<"assignment-get", {One("VIEW", "ASSIGNMENT")}, "get-assignment">>,
    <<"assignment-status", {One("UPDATE_STATUS", "ASSIGNMENT")}, "set-assignment-status">>}

ActivityCommands == {
    <<"activity-get", {One("VIEW", "ACTIVITY")}, "get-activity">>,
    <<"activity-assign", {One("ASSIGN", "ACTIVITY")}, "assign-activity">>,
    <<"activity-unassign", {One("ASSIGN", "ACTIVITY")}, "unassign-activity">>,
    <<"activity-status", {One("UPDATE_STATUS", "ACTIVITY")}, "set-activity-status">>}

BadgeCommands == {
    <<"badge-list", {Root("LIST", "BADGE")}, "list-badges">>,
    <<"badge-create", {System("CREATE_BADGE")}, "create-badge">>,
    <<"badge-award-assignment", {One("AWARD_BADGE", "ASSIGNMENT")}, "award-to-assignment">>,
    <<"badge-award-activity", {One("AWARD_BADGE", "ACTIVITY")}, "award-to-activity">>}

PersonCommands == {
    <<"person-list", {Root("LIST", "PERSON")}, "list-persons">>,
    <<"person-get", {One("VIEW", "PERSON")}, "get-person">>,
    <<"person-add", {System("CREATE_PERSON")}, "add-person">>,
    <<"person-update", {One("EDIT", "PERSON")}, "update-person">>,
    <<"person-set-acl", {System("MANAGE_PROFILES")}, "set-profile">>,
    <<"person-remove", {One("DELETE", "PERSON")}, "remove-person">>}

GroupCommands == {
    <<"person-group-list", {Root("LIST", "GROUP")}, "list-groups">>,
    <<"person-group-add", {System("CREATE_GROUP")}, "add-group">>,
    <<"person-group-update", {One("EDIT", "GROUP")}, "update-group">>,
    <<"person-group-remove", {One("DELETE", "GROUP")}, "remove-group">>,
    <<"person-group-members", {One("VIEW", "GROUP")}, "members-of-group">>,
    <<"person-group-member-add", {One("MANAGE_MEMBERS", "GROUP")}, "add-member">>,
    <<"person-group-member-remove", {One("MANAGE_MEMBERS", "GROUP")}, "remove-member">>}

(* No require_acl: the service asks, and refuses who names no operator.    *)
AclCommands == {
    <<"acl-list", {}, "list-entries">>,
    <<"acl-add", {}, "create-entry">>,
    <<"acl-remove", {}, "delete-entry">>}

ExtensionCommand == {<<"extension", {System("EXECUTE")}, "run-extension">>}

Commands == MissionCommands \cup AssignmentCommands \cup ActivityCommands \cup BadgeCommands
               \cup PersonCommands \cup GroupCommands \cup AclCommands \cup ExtensionCommand

-----------------------------------------------------------------------------
(* Open to everybody, as <<front, name, method, use cases>>: the middleware*)
(* skips the prefixes of these paths, and create-superuser has no          *)
(* require_acl.  /ws is in Realtime; /static changes nothing.              *)

PublicRestHandlers == {
    <<"REST", "/auth/login", "POST", <<"login">>>>,
    <<"REST", "/auth/logout", "POST", <<"logout">>>>,
    <<"REST", "/auth/oidc/url", "GET", <<>>>>,
    <<"REST", "/auth/oidc/callback", "POST", <<"login-oidc">>>>}

(* The form to log in is not stopped by an administrator, but leads to the *)
(* setup when there is none.                                               *)
PublicWebHandlers == {
    <<"Web", "login_get", "GET", <<>>>>,
    <<"Web", "login_post", "POST", <<"login">>>>,
    <<"Web", "change_password_get", "GET", <<>>>>,
    <<"Web", "change_password_post", "POST", <<"own-password">>>>,
    <<"Web", "setup_get", "GET", <<"admin-exists">>>>,
    <<"Web", "setup_post", "POST", <<"admin-exists", "create-initial-admin">>>>,
    <<"Web", "oidc_callback", "GET", <<"login-oidc">>>>,
    <<"Web", "logout", "GET", <<"logout">>>>,
    <<"Web", "logout", "POST", <<"logout">>>>}

CreateSuperuser == {
    <<"CLI", "person-create-superuser", "command", <<"admin-exists", "create-initial-admin">>>>}

PublicHandlers == PublicRestHandlers \cup PublicWebHandlers \cup CreateSuperuser

-----------------------------------------------------------------------------
(* Every route: where it enters, what the boundary asks, what it calls     *)

RestRoutes == {[front |-> "REST", name |-> row[1], method |-> row[2], uses |-> row[3],
                asks |-> RestAsks(row[1], row[2]), enforced |-> ServiceEnforced(row[1]),
                public |-> FALSE] :
                   row \in RestRouters}
WebRoutes  == {[front |-> "Web", name |-> row[1], method |-> row[2], uses |-> row[3],
                asks |-> WebAsks(row[1], row[2]), enforced |-> LeftToService(row[1]),
                public |-> FALSE] :
                   row \in WebHandlers}
CliRoutes  == {[front |-> "CLI", name |-> row[1], method |-> "command", uses |-> <<row[3]>>,
                asks |-> row[2], enforced |-> row \in AclCommands,
                public |-> FALSE] : row \in Commands}
PublicRoutes == {[front |-> row[1], name |-> row[2], method |-> row[3], uses |-> row[4],
                  asks |-> {}, enforced |-> FALSE, public |-> TRUE] : row \in PublicHandlers}
Routes == RestRoutes \cup WebRoutes \cup CliRoutes \cup PublicRoutes

Relevant(r) == r.asks \cup UNION {Asks(r.uses[i]) : i \in DOMAIN r.uses}
Changes(r)  == \E i \in DOMAIN r.uses : r.uses[i] \notin ReadingUses

VARIABLES
    stage,      \* of the request: "none" between two
    route,      \* the route it takes
    who,        \* "operator", "anonymous" or "gone" (credentials of somebody removed)
    rights,     \* the checks that would be allowed to the requester now
    left,       \* the use cases still to be called
    answer,     \* what the requester is told
    counted,    \* the quotas the request counts against
    changes,    \* how often rights have changed during the request
    done        \* history: use cases called, with the rights the service saw

vars == <<stage, route, who, rights, left, answer, counted, changes, done>>

(* INV-2: the public is never granted more than to read.                   *)
OpenToPublic(c) == ReadOnly(c[1]) \/ c = NoAdministrator
Possible(w, r) ==
    {c \in Relevant(r) : w = "anonymous" => OpenToPublic(c)}

NoRoute == [front |-> "none", name |-> "none", method |-> "none", uses |-> <<>>,
            asks |-> {}, enforced |-> FALSE, public |-> FALSE]

Init ==
    /\ stage = "none" /\ route = NoRoute /\ who = "anonymous" /\ rights = {} /\ left = <<>>
    /\ answer = "none" /\ counted = {} /\ changes = 0 /\ done = {}

(* The middleware lets a public path pass before it looks at anything; the *)
(* CLI looks for the operator before any command.                          *)
PastCsrf(r) == IF r.public /\ r.front # "CLI" THEN "serve" ELSE "identify"

Arrive(r, w) ==
    /\ stage = "none"
    /\ stage' = (IF r.front = "Web" /\ r.method # "GET" THEN "csrf" ELSE PastCsrf(r))
    /\ route' = r /\ who' = w /\ left' = r.uses
    /\ rights' \in SUBSET Possible(w, r)
    /\ answer' = "none" /\ counted' = {} /\ changes' = 0 /\ done' = {}

Tell(a) == stage' = "answered" /\ answer' = a

(* validate_csrf_request: before the identity, for every unsafe method.    *)
CheckCsrf ==
    /\ stage = "csrf"
    /\ \/ stage' = PastCsrf(route) /\ UNCHANGED answer
       \/ Tell("400")
    /\ UNCHANGED <<route, who, rights, left, counted, changes, done>>

(* get_current_operator: no or bad credentials make the anonymous profile; *)
(* the CLI stops at an operator it does not find.                          *)
Identify ==
    /\ stage = "identify"
    /\ IF who = "gone" THEN Tell("404") ELSE stage' = "boundary" /\ UNCHANGED answer
    /\ UNCHANGED <<route, who, rights, left, counted, changes, done>>

Admits ==
    IF route.enforced THEN who = "operator" \/ route.front = "CLI" ELSE route.asks \subseteq rights

CheckBoundary ==
    /\ stage = "boundary"
    /\ IF Admits THEN stage' = "limit" /\ UNCHANGED answer
       ELSE Tell(IF who = "anonymous" THEN "401" ELSE "403")
    /\ UNCHANGED <<route, who, rights, left, counted, changes, done>>

(* The quota: REST only, of identified operators.                          *)
CheckLimit ==
    LET buckets == IF route.front = "REST" /\ who = "operator"
                   THEN Buckets(route.name, route.method) ELSE {}
    IN  /\ stage = "limit"
        /\ \/ stage' = "serve" /\ counted' = buckets /\ UNCHANGED answer
           \/ buckets # {} /\ Tell("429") /\ UNCHANGED counted
        /\ UNCHANGED <<route, who, rights, left, changes, done>>

(* require_acl in a service: the operator it was given, or the one of the  *)
(* context; without either it refuses (the acl commands set no context).   *)
(* One's own password is that of the operator of the session or the token, *)
(* who must still exist to have one.                                       *)
NoContext == route.front = "CLI" /\ route.enforced /\ who = "anonymous"
NotOneself(use) == use = "own-password" /\ who # "operator"

Serve ==
    /\ stage = "serve" /\ left # <<>>
    /\ IF Asks(Head(left)) \subseteq rights /\ ~ NoContext /\ ~ NotOneself(Head(left))
       THEN /\ left' = Tail(left)
            /\ done' = done \cup {<<Head(left), rights>>}
            /\ UNCHANGED <<stage, answer>>
       ELSE Tell("refused") /\ UNCHANGED <<left, done>>
    /\ UNCHANGED <<route, who, rights, counted, changes>>

Finish ==
    /\ stage = "serve" /\ left = <<>>
    /\ Tell("served")
    /\ UNCHANGED <<route, who, rights, left, counted, changes, done>>

(* Somebody edits the entries or the profile of the requester.             *)
ChangeRights ==
    /\ stage \notin {"none", "answered"} /\ changes < MaxChanges
    /\ rights' \in SUBSET Possible(who, route) /\ rights' # rights
    /\ changes' = changes + 1
    /\ UNCHANGED <<stage, route, who, left, answer, counted, done>>

Leave ==
    /\ stage = "answered"
    /\ stage' = "none" /\ route' = NoRoute /\ who' = "anonymous" /\ rights' = {} /\ left' = <<>>
    /\ answer' = "none" /\ counted' = {} /\ changes' = 0 /\ done' = {}

Next ==
    \/ \E r \in Routes, w \in {"operator", "anonymous", "gone"} : Arrive(r, w)
    \/ CheckCsrf \/ Identify \/ CheckBoundary \/ CheckLimit \/ Serve \/ Finish
    \/ ChangeRights \/ Leave

Spec == Init /\ [][Next]_vars

-----------------------------------------------------------------------------
(* Properties                                                              *)

(* The types; nothing is called before the boundary has admitted it.       *)
TypeOK ==
    /\ stage \in {"none", "csrf", "identify", "boundary", "limit", "serve", "answered"}
    /\ route \in Routes \cup {NoRoute}
    /\ who \in {"operator", "anonymous", "gone"}
    /\ rights \subseteq Relevant(route)
    /\ IsSuffix(left, route.uses)
    /\ answer \in {"none", "400", "401", "403", "404", "429", "refused", "served"}
    /\ counted = {} \/ \E b \in {row[3] : row \in RateLimited} \cup {"OTHER_MUTATION"} : counted = {b}
    /\ changes \in 0 .. MaxChanges
    /\ \A d \in done : d[1] \in ToSet(route.uses) /\ d[2] \subseteq Relevant(route)
    /\ done # {} => stage \in {"serve", "answered"}

(* The setup found no administrator when it looked.                        *)
NoneFound == \E d \in done : d[1] = "admin-exists" /\ NoAdministrator \in d[2]

(* Nobody changes anything without a name: whatever the entries grant the  *)
(* public, and they grant it reading alone, no route lets an anonymous     *)
(* request through to a use case that changes something.  The exceptions   *)
(* are to sign in or out (and a first OIDC login may add its Person), and  *)
(* "the only anonymous flow admitted": the first administrator, and only   *)
(* after the same request has found none.  That there is still none, this  *)
(* does not say: rights change between the two calls.                      *)
AnonymousChangesNothing ==
    \A d \in done : d[1] \notin ReadingUses =>
        \/ who = "operator"
        \/ d[1] \in SigningIn
        \/ d[1] = "create-initial-admin" /\ NoneFound

(* The assignment is created for a mission named in the body, which the    *)
(* boundary of the Web has not seen: it asks for the type as a whole.      *)
MissionInBody(r) == r.name = "create_assignment"

(* A right taken away after the boundary admitted the request, and before  *)
(* the service looked, is a refusal: the second look is not less than the  *)
(* first, in any frontend.  What an extension does itself is looked at     *)
(* once.                                                                   *)
RevokedInTimeIsRefused ==
    \A d \in done :
        d[1] \notin ReadingUses \cup {"run-extension"} /\ ~ MissionInBody(route)
            => route.asks \subseteq d[2]

(* The tables agree: who was admitted is refused by a service only if he   *)
(* lost a right meanwhile.  Pages that show more than what they are about  *)
(* call services the boundary did not ask for, and are not among these;    *)
(* nor are public routes, where nobody was asked.                          *)
AdmittedIsServed ==
    answer = "refused" /\ changes = 0
        => \/ route.enforced \/ route.public
           \/ MissionInBody(route)
           \/ route.front = "Web" /\ ~ Changes(route)

(* Every change asked through REST counts against the quota of the         *)
(* operator, but to sign in and out.                                       *)
ChangesAreCounted ==
    \A d \in done :
        d[1] \notin ReadingUses \cup SigningIn /\ route.front = "REST" => counted # {}

(* The boundary and the services agree on who may do what: through every   *)
(* route, page and command, the public ones included, with the rights      *)
(* changing on the way.                                                    *)
BoundaryHolds ==
    /\ AnonymousChangesNothing
    /\ RevokedInTimeIsRefused
    /\ AdmittedIsServed
    /\ ChangesAreCounted
=============================================================================
