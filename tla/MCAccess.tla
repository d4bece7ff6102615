------------------------------- MODULE MCAccess -------------------------------
(***************************************************************************)
(* Instances of AccessControl and of AuthSessions for TLC, which share     *)
(* nothing: in each behaviour one of them moves.  The entries are about    *)
(* one mission with an assignment, an administrator of level 0 and a       *)
(* person of level 1, who creates missions; the sessions are those of one  *)
(* account.                                                                *)
(***************************************************************************)
EXTENDS AccessControl, AuthSessions, TLC

CONSTANTS admin, user, m1, a1, t1, t2

VARIABLE part

Mission    == <<"MISSION", m1>>
Assignment == <<"ASSIGNMENT", a1>>
Tree       == {Mission, Assignment}
TreeAbove  == (Mission :> NoResource) @@ (Assignment :> Mission)

People == (admin :> [level |-> 0, groups |-> {"public"}]) @@ (user :> [level |-> 1, groups |-> {"public"}])

Threshold(r, op, l) ==
    [subject |-> Anyone, resource |-> r, operation |-> op, permission |-> "ALLOW",
     level |-> l, group |-> NoGroup, profile_join |-> "OR", subject_join |-> "AND"]

Thresholds ==
    << Threshold(System, "MANAGE_ACL", 0),
       Threshold(System, "MANAGE_PROFILES", 0),
       Threshold(System, "CREATE_PERSON", 0),
       Threshold(TypeRoot("PERSON"), "DELETE", 0),
       Threshold(System, "CREATE_MISSION", 1),
       Threshold(TypeRoot("MISSION"), "CREATE_ASSIGNMENT", 1),
       Threshold(TypeRoot("MISSION"), "DELETE", 0) >>

Grant(s, r, op, permission) ==
    [subject |-> s, resource |-> r, operation |-> op, permission |-> permission,
     level |-> NoLevel, group |-> NoGroup, profile_join |-> "OR", subject_join |-> "AND"]

Offers ==
    {[Threshold(Mission, "EDIT", 1) EXCEPT !.permission = "DENY"],
     Grant(user, System, "MANAGE_ACL", "ALLOW"),
     [Grant(user, System, "MANAGE_ACL", "DENY") EXCEPT !.level = 0, !.subject_join = "OR"]}

NamedEntries == {8}

Patches == {[permission |-> "ALLOW"], [level |-> AnonLevel]}

Assigned == {[level |-> 0, groups |-> {"public"}]}

-----------------------------------------------------------------------------

AccessInit ==
    /\ Init /\ SessionsInit
    /\ \/ part = "entries"
       \/ part = "sessions" /\ database = "MySQL"

AccessNext ==
    \/ part = "entries" /\ Next /\ UNCHANGED <<part, sessionVars>>
    \/ part = "sessions" /\ SessionsNext /\ UNCHANGED <<part, vars>>

AccessSpec == AccessInit /\ [][AccessNext]_<<part, vars, sessionVars>>

(* The types of both.                                                      *)
AccessTypeOK == TypeOK /\ SessionsTypeOK

Alike == Permutations({t1, t2})
=============================================================================
