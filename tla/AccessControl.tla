---------------------------- MODULE AccessControl ----------------------------
(***************************************************************************)
(* Who may do what: the ACL entries, the profiles they are matched with,   *)
(* the hierarchy they are inherited along, and the use cases that change   *)
(* them.  The decision is the acl package's; AclService and PersonService  *)
(* are the application's.                                                  *)
(*                                                                         *)
(* A use case on an entry takes three steps of its transaction: it decides *)
(* (loads the entry, checks the operator's rights, validates the result),  *)
(* save() or delete() selects the row again, and the statement is executed.*)
(* As in ConcurrentUseCases the second SELECT sees the first one's snapshot*)
(* on MySQL, where it is no step of its own, and the row of the moment on  *)
(* PostgreSQL; an UPDATE carries the columns that differ from the row      *)
(* selected.                                                               *)
(***************************************************************************)
EXTENDS Naturals, Sequences, FiniteSets

CONSTANTS
    Workers,       \* threads of the servers, each with a session
    Persons,       \* identifiers of people
    Concrete,      \* missions, assignments, ...: <<type, identifier>>
    Above,         \* the row a concrete resource points to, or NoResource
    NoResource,
    Entries,       \* identifiers of ACL entries, in the order they are drawn
    NoLevel, NoGroup,  \* the criteria an entry leaves out
    AnonLevel,     \* ANON_SENTINEL
    Anyone,        \* the PUBLIC subject, and the operator nobody identified
    NoProfile,     \* there is no such person
    StoredProfiles,\* the people a behaviour starts with
    Defaults,      \* the entries of the bootstrap, in order
    Inputs,        \* the entries operators try to create
    Bodies,        \* the bodies of PATCH requests: some of permission, level, group
    NewProfiles,   \* the profiles operators assign
    Named,         \* bound: the entries requests name, of 1 .. Entries
    MaxRequests,   \* bound: the requests on entries in a behaviour
    Databases      \* of MySQL and PostgreSQL, those a behaviour may run on

(* VIEW stands for the operations that read, EDIT for those that change a   *)
(* resource; the others are those the use cases below ask for.             *)
ReadOnly       == {"VIEW"}
NonInheritable == {"CREATE_MISSION", "CREATE_PERSON", "MANAGE_PROFILES", "MANAGE_ACL"}
Operations     == ReadOnly \cup NonInheritable \cup {"EDIT", "DELETE", "CREATE_ASSIGNMENT"}
Protected      == {"MANAGE_PROFILES", "MANAGE_ACL"}

Types       == {"MISSION", "ASSIGNMENT", "OBJECTIVE", "ACTIVITY", "BADGE", "PERSON", "GROUP"}
Operational == {"MISSION", "ASSIGNMENT", "OBJECTIVE", "ACTIVITY"}
TypeRoot(t) == <<t, "*">>
System      == <<"SYSTEM", "global">>
Roots       == {TypeRoot(t) : t \in Types}
PersonRef(p) == <<"PERSON", p>>
Resources   == Concrete \cup Roots \cup {PersonRef(p) : p \in Persons} \cup {System}

Levels   == 0 .. AnonLevel
Profiles == [level : Levels, groups : {g \cup {"public"} : g \in SUBSET {"ops"}}]
Subjects == Persons \cup {Anyone}
Rows ==
    [subject : Subjects, resource : Resources, operation : Operations,
     permission : {"ALLOW", "DENY"}, level : Levels \cup {NoLevel},
     group : {"ops", "public", NoGroup}, profile_join : {"AND", "OR"},
     subject_join : {"AND", "OR"}]

ASSUME AccessAssumption ==
    /\ AnonLevel \in Nat
    /\ NoLevel \notin Levels /\ NoGroup \notin {"ops", "public"}
    /\ Anyone \notin Persons /\ NoProfile \notin Profiles
    /\ Entries \in Nat /\ Named \subseteq 1 .. Entries
    /\ \A t \in Types : Concrete \cap {TypeRoot(t), System} = {}
    /\ Above \in [Concrete -> Concrete \cup {NoResource}]
    /\ NoResource \notin Resources
    /\ StoredProfiles \in [Persons -> Profiles \cup {NoProfile}]
    /\ MaxRequests \in Nat /\ Databases \subseteq {"MySQL", "PostgreSQL"}
    /\ Inputs \subseteq Rows /\ NewProfiles \subseteq Profiles
    /\ \A body \in Bodies :
          /\ "permission" \in DOMAIN body => body["permission"] \in {"ALLOW", "DENY"}
          /\ "level" \in DOMAIN body => body["level"] \in Levels \cup {NoLevel}
          /\ "group" \in DOMAIN body => body["group"] \in {"ops", "public", NoGroup}
          /\ DOMAIN body \subseteq {"permission", "level", "group"}

VARIABLES
    database,  \* the one this deployment uses
    rows,      \* mm_acl_entries: the row of every identifier drawn, or NoRow
    drawn,     \* identifiers drawn so far
    profiles,  \* mm_persons: the profile of every person, or NoProfile
    alive,     \* the concrete resources that exist
    request,   \* of each worker: what its transaction is about to write
    requests,  \* requests on entries so far
    stale,     \* history: entries written over a row that was not the one read
    assigner   \* history: the operator whose step has just changed a profile, or Anyone

vars == <<database, rows, drawn, profiles, alive, request, requests, stale, assigner>>

NoRow == [resource |-> NoResource]

-----------------------------------------------------------------------------
(* The decision                                                            *)

Anonymous == [level |-> AnonLevel, groups |-> {"public"}]

ProfileOf(s) ==
    IF s = Anyone \/ profiles[s] = NoProfile THEN Anonymous ELSE profiles[s]

SubjectMatches(e, s) == e.subject = Anyone \/ e.subject = s

ProfilePartMatches(e, profile) ==
    LET level == e.level # NoLevel /\ profile.level <= e.level
        group == e.group # NoGroup /\ e.group \in profile.groups
    IN  IF e.profile_join = "AND" /\ e.level # NoLevel /\ e.group # NoGroup
        THEN level /\ group
        ELSE level \/ group

EntryMatches(e, s, profile) ==
    IF e.subject_join = "AND"
    THEN SubjectMatches(e, s) /\ ProfilePartMatches(e, profile)
    ELSE SubjectMatches(e, s) \/ ProfilePartMatches(e, profile)

(* Deny overrides: one matching DENY denies, else one matching ALLOW       *)
(* allows, else the default is to deny.                                    *)
Resolves(own, s) ==
    LET matching == {e \in own : EntryMatches(e, s, ProfileOf(s))}
    IN  /\ \A e \in matching : e.permission # "DENY"
        /\ \E e \in matching : e.permission = "ALLOW"

EntriesFor(r, op) ==
    {e \in {rows[i] : i \in 1 .. Entries} \ {NoRow} : e.resource = r /\ e.operation = op}

(* A concrete resource is below the one its row points to; one that has no *)
(* such column, or is gone, falls back on the root of its type.            *)
ParentOf(r) ==
    IF r \in Concrete
    THEN IF r \in alive /\ Above[r] # NoResource THEN Above[r] ELSE TypeRoot(r[1])
    ELSE IF r \in {PersonRef(p) : p \in Persons} THEN TypeRoot("PERSON")
    ELSE IF r \in Roots /\ r[1] \in Operational THEN TypeRoot("MISSION")
    ELSE r

(* The resources evaluate() visits in the order it does: every resource    *)
(* has one parent at most, and the longest way up is ACTIVITY, OBJECTIVE,  *)
(* ASSIGNMENT, MISSION, MISSION:* (or a root in the place of a resource    *)
(* that is gone).                                                          *)
Up(r, n) ==
    LET two == ParentOf(ParentOf(r))
    IN  CASE n = 0 -> r [] n = 1 -> ParentOf(r) [] n = 2 -> two
          [] n = 3 -> ParentOf(two) [] n = 4 -> ParentOf(ParentOf(two))
Visited(r, op) == IF op \in NonInheritable THEN {0} ELSE 0 .. 4

(* The nearest resource that has entries for the operation decides; they   *)
(* hide whatever is above.                                                 *)
Allowed(s, op, r) ==
    \E n \in Visited(r, op) :
        /\ \A m \in Visited(r, op) : m < n => EntriesFor(Up(r, m), op) = {}
        /\ Resolves(EntriesFor(Up(r, n), op), s)

(* The application asks through auth's AuthorizationService, which denies  *)
(* every mutation to nobody before it asks the model.                      *)
IsAllowed(s, op, r) == (s # Anyone \/ op \in ReadOnly) /\ Allowed(s, op, r)

-----------------------------------------------------------------------------
(* What may be written                                                     *)

(* INV-1 to INV-5: some criterion, PUBLIC only with AND, and no mutation   *)
(* for somebody who has the anonymous profile.                             *)
AdmitsAnonymous(e) ==
    e.permission = "ALLOW" /\ e.operation \notin ReadOnly /\ EntryMatches(e, Anyone, Anonymous)
ValidatesShape(e) ==     \* mutant: INV-2 is not checked
    /\ e.level # NoLevel \/ e.group # NoGroup
    /\ ~ (e.subject = Anyone /\ e.subject_join = "OR")
Validates(e) ==
    /\ e.level # NoLevel \/ e.group # NoGroup
    /\ ~ (e.subject = Anyone /\ e.subject_join = "OR")
    /\ ~ AdmitsAnonymous(e)

(* The entries of the bootstrap grant the public nothing but to read.      *)
ASSUME DefaultsAssumption ==
    /\ Defaults \in Seq(Rows)
    /\ \A k \in DOMAIN Defaults : ~ AdmitsAnonymous(Defaults[k])

HasGlobalManage(s) == Allowed(s, "MANAGE_ACL", System)

(* A local manager manages a resource of its own, never a root.            *)
EnsureCanManage(s, r) ==
    \/ HasGlobalManage(s)
    \/ r \notin Roots \cup {System} /\ Allowed(s, "MANAGE_ACL", r)

ValidateAndCheckGrant(s, e) ==
    /\ Validates(e)
    /\ e.permission = "ALLOW" /\ ~ HasGlobalManage(s) =>
          /\ e.operation \notin Protected
          /\ e.level = NoLevel \/ e.level >= ProfileOf(s).level

(* An entry without criteria is for its subject alone, whatever the level, *)
(* or for the public group.                                                *)
EntryFromInput(input) ==
    CASE input.level # NoLevel \/ input.group # NoGroup -> input
      [] input.subject = Anyone -> [input EXCEPT !.group = "public"]
      [] OTHER -> [input EXCEPT !.level = AnonLevel]

(* A PATCH sets the fields its body holds; null leaves the criterion out.  *)
PatchedEntry(e, body) == [c \in DOMAIN e |-> IF c \in DOMAIN body THEN body[c] ELSE e[c]]

-----------------------------------------------------------------------------
(* Use cases on entries: decide, select the row again, write               *)

Idle == [kind |-> "idle"]

Operators == {p \in Persons : profiles[p] # NoProfile} \cup {Anyone}

Holds(i) == rows[i] # NoRow

AssignsNothing == assigner' = Anyone

(* Every request remembers whether its operator managed the whole system   *)
(* when it was decided.                                                    *)
Decides(w, kind, s, i, old, new) ==
    /\ request[w] = Idle
    /\ request' = [request EXCEPT ![w] =
           [kind |-> kind, found |-> database = "MySQL", admin |-> kind = "seed" \/ HasGlobalManage(s),
            id |-> i, old |-> old, new |-> new]]
    /\ requests < MaxRequests
    /\ requests' = requests + 1
    /\ AssignsNothing
    /\ UNCHANGED <<database, rows, drawn, profiles, alive, stale>>

CreateEntry(w, s, input) ==
    LET e == EntryFromInput(input)
    IN  /\ EnsureCanManage(s, e.resource)
        /\ ValidateAndCheckGrant(s, e)
        /\ Decides(w, "insert", s, 0, NoRow, e)

UpdateEntry(w, s, i, body) ==
    LET e == PatchedEntry(rows[i], body)
    IN  /\ Holds(i)
        /\ EnsureCanManage(s, rows[i].resource)
        /\ ValidateAndCheckGrant(s, e)
        /\ Decides(w, "update", s, i, rows[i], e)

DeleteEntry(w, s, i) ==
    /\ Holds(i)
    /\ EnsureCanManage(s, rows[i].resource)
    /\ Decides(w, "delete", s, i, rows[i], NoRow)

(* Every process seeds the table when it starts and finds it empty.        *)
EnsureBootstrapEntries(w) ==
    /\ \A i \in 1 .. Entries : ~ Holds(i)
    /\ Decides(w, "seed", Anyone, 0, NoRow, NoRow)

(* save() and delete() look the row up once more.  A row that is gone is   *)
(* added again by save() and left alone by delete().                       *)
SelectAgain(w) ==
    LET q     == request[w]
        found == rows[q.id]
    IN  /\ q.kind \in {"update", "delete"}
        /\ ~ q.found
        /\ request' = [request EXCEPT ![w] =
               IF found # NoRow THEN [q EXCEPT !.found = TRUE, !.old = found]
               ELSE IF q.kind = "update" THEN [q EXCEPT !.kind = "restore"]
               ELSE Idle]
        /\ AssignsNothing
        /\ UNCHANGED <<database, rows, drawn, profiles, alive, requests, stale>>

(* The columns an UPDATE carries are those that differ from the row found. *)
Merged(stored, found, new) ==
    [c \in DOMAIN stored |-> IF new[c] = found[c] THEN stored[c] ELSE new[c]]

Ends(w) == request' = [request EXCEPT ![w] = Idle]

Insert(w) ==
    /\ request[w].kind = "insert"
    /\ drawn < Entries
    /\ drawn' = drawn + 1
    /\ rows' = [rows EXCEPT ![drawn + 1] = request[w].new]
    /\ Ends(w)
    /\ AssignsNothing
    /\ UNCHANGED <<database, profiles, alive, requests, stale>>

InsertDefaults(w) ==
    /\ request[w].kind = "seed"
    /\ drawn + Len(Defaults) <= Entries
    /\ drawn' = drawn + Len(Defaults)
    /\ rows' = [i \in 1 .. Entries |->
           IF i \in drawn + 1 .. drawn + Len(Defaults) THEN Defaults[i - drawn] ELSE rows[i]]
    /\ Ends(w)
    /\ AssignsNothing
    /\ UNCHANGED <<database, profiles, alive, requests, stale>>

(* An UPDATE of a row that is gone fails and rolls the request back.       *)
Updated(q) ==
    IF Holds(q.id) THEN Merged(rows[q.id], q.old, q.new) ELSE NoRow

Update(w) ==
    LET q == request[w]
    IN  /\ q.kind = "update" /\ q.found
        /\ rows'  = [rows EXCEPT ![q.id] = Updated(q)]
        /\ stale' = IF rows[q.id] \in {q.old, NoRow} THEN stale ELSE stale \cup {q.id}
        /\ Ends(w)
        /\ AssignsNothing
        /\ UNCHANGED <<database, drawn, profiles, alive, requests>>

Resurrect(w) ==
    LET q == request[w]
    IN  /\ q.kind = "restore"
        /\ rows' = [rows EXCEPT ![q.id] = q.new]
        /\ Ends(w)
        /\ AssignsNothing
        /\ UNCHANGED <<database, drawn, profiles, alive, requests, stale>>

Delete(w) ==
    /\ request[w].kind = "delete" /\ request[w].found
    /\ rows' = [rows EXCEPT ![request[w].id] = NoRow]
    /\ Ends(w)
    /\ AssignsNothing
    /\ UNCHANGED <<database, drawn, profiles, alive, requests, stale>>

-----------------------------------------------------------------------------
(* Use cases that add and remove subjects and resources, in one step       *)

WithoutRows(doomed(_)) ==
    [i \in 1 .. Entries |-> IF Holds(i) /\ doomed(rows[i]) THEN NoRow ELSE rows[i]]

(* Nobody's row, and nothing that is about to be written, has the subject. *)
Unnamed(p) ==
    /\ \A i \in 1 .. Entries : Holds(i) => rows[i].subject # p
    /\ \A w \in Workers : request[w] # Idle /\ request[w].new # NoRow => request[w].new.subject # p

(* A person is born with the least privileged profile, under an identifier *)
(* drawn at random: one that was never in use, or left no trace.           *)
AddPerson(s, p) ==
    /\ IsAllowed(s, "CREATE_PERSON", System)
    /\ profiles[p] = NoProfile
    /\ Unnamed(p)
    /\ profiles' = [profiles EXCEPT ![p] = Anonymous]
    /\ AssignsNothing
    /\ UNCHANGED <<database, rows, drawn, alive, request, requests, stale>>

OwnProfileRight(s, p) ==  \* mutant: everyone edits his own profile
    s = p \/ IsAllowed(s, "MANAGE_PROFILES", System)
ProfileRight(s, p) == IsAllowed(s, "MANAGE_PROFILES", System)

SetAclProfile(s, p, profile) ==
    /\ ProfileRight(s, p)
    /\ profiles[p] # NoProfile
    /\ profiles' = [profiles EXCEPT ![p] = profile]
    /\ assigner' = IF profiles[p] # profile THEN s ELSE Anyone
    /\ UNCHANGED <<database, rows, drawn, alive, request, requests, stale>>

RemovePerson(s, p) ==
    LET ofPerson(e) == e.subject = p
    IN  /\ IsAllowed(s, "DELETE", PersonRef(p))
        /\ profiles[p] # NoProfile
        /\ profiles' = [profiles EXCEPT ![p] = NoProfile]
        /\ rows' = WithoutRows(ofPerson)
        /\ AssignsNothing
        /\ UNCHANGED <<database, drawn, alive, request, requests, stale>>

(* The objectives and activities of a resource come and go with it.        *)
Lineage[c \in Concrete] ==
    {c} \cup IF Above[c] = NoResource THEN {} ELSE Lineage[Above[c]]
Below(r) == {c \in Concrete : r \in Lineage[c]}

(* The creator receives MANAGE_ACL on the new resource, at every level.    *)
SeedEntry(r, creator) ==
    [subject |-> creator, resource |-> r, operation |-> "MANAGE_ACL",
     permission |-> "ALLOW", level |-> AnonLevel, group |-> NoGroup,
     profile_join |-> "OR", subject_join |-> "AND"]

CreateResource(s, r) ==
    /\ s # Anyone
    /\ \/ r[1] = "MISSION" /\ IsAllowed(s, "CREATE_MISSION", System)
       \/ /\ r[1] = "ASSIGNMENT" /\ Above[r] \in alive
          /\ IsAllowed(s, "CREATE_ASSIGNMENT", Above[r])
    /\ r \notin alive
    /\ drawn < Entries
    /\ alive' = alive \cup {c \in Below(r) : c = r \/ c[1] \in {"OBJECTIVE", "ACTIVITY"}}
    /\ drawn' = drawn + 1
    /\ rows'  = [rows EXCEPT ![drawn + 1] = SeedEntry(r, s)]
    /\ AssignsNothing
    /\ UNCHANGED <<database, profiles, request, requests, stale>>

(* The entries of a mission and of its assignments are removed with it,    *)
(* those of objectives and activities are not.                             *)
DeleteResource(s, r) ==
    LET onTree(e) == e.resource \in Below(r) /\ e.resource[1] \in {"MISSION", "ASSIGNMENT"}
    IN  /\ r \in alive /\ r[1] \in {"MISSION", "ASSIGNMENT"}
        /\ IsAllowed(s, "DELETE", r)
        /\ alive' = alive \ Below(r)
        /\ rows'  = WithoutRows(onTree)
        /\ AssignsNothing
        /\ UNCHANGED <<database, drawn, profiles, request, requests, stale>>

-----------------------------------------------------------------------------
Init ==
    /\ database \in Databases
    /\ rows     = [i \in 1 .. Entries |-> NoRow]
    /\ drawn    = 0
    /\ profiles = StoredProfiles
    /\ alive    = {}
    /\ request  = [w \in Workers |-> Idle]
    /\ requests = 0
    /\ stale    = {}
    /\ assigner = Anyone

Entering(w) ==
    \/ EnsureBootstrapEntries(w)
    \/ \E s \in Operators :
          \/ \E input \in Inputs : CreateEntry(w, s, input)
          \/ \E i \in Named :
                \/ \E body \in Bodies : UpdateEntry(w, s, i, body)
                \/ DeleteEntry(w, s, i)

Writing(w) ==
    SelectAgain(w) \/ Insert(w) \/ InsertDefaults(w) \/ Update(w) \/ Resurrect(w) \/ Delete(w)

Administering ==
    \E s \in Operators :
        \/ \E p \in Persons :
              \/ AddPerson(s, p)
              \/ RemovePerson(s, p)
              \/ \E profile \in NewProfiles : SetAclProfile(s, p, profile)
        \/ \E r \in Concrete : CreateResource(s, r) \/ DeleteResource(s, r)

Next == Administering \/ \E w \in Workers : Entering(w) \/ Writing(w)

Spec == Init /\ [][Next]_vars

-----------------------------------------------------------------------------
(* Properties                                                              *)

Requests ==
    {Idle} \cup [kind : {"insert", "seed", "update", "delete", "restore"}, found : BOOLEAN,
                 admin : BOOLEAN, id : 0 .. Entries,
                 old : Rows \cup {NoRow}, new : Rows \cup {NoRow}]

(* The types of the variables: an identifier has a row only once it has    *)
(* been drawn, and a request never writes outside the table.               *)
TypeOK ==
    /\ database \in Databases
    /\ rows \in [1 .. Entries -> Rows \cup {NoRow}]
    /\ drawn \in 0 .. Entries
    /\ \A i \in 1 .. Entries : Holds(i) => i <= drawn
    /\ profiles \in [Persons -> Profiles \cup {NoProfile}]
    /\ alive \subseteq Concrete
    /\ request \in [Workers -> Requests]
    /\ requests \in 0 .. MaxRequests
    /\ stale \subseteq 1 .. Entries
    /\ assigner \in Subjects

(* What the code does guarantee: INV-2 can only be broken in a row whose   *)
(* UPDATE was computed from a row that had changed in the meantime.        *)
OnlyStaleWritesAdmitAnonymous ==
    \A i \in 1 .. Entries : Holds(i) /\ AdmitsAnonymous(rows[i]) => i \in stale

(* Section 10.11: nobody becomes a manager of the whole system but through *)
(* somebody: the request on entries that ends was decided for one who      *)
(* already was a manager, or is the bootstrap's, and the operator who has  *)
(* just assigned the profile was himself allowed to.  A local manager, a   *)
(* creator or a delegate never gets there, in any number of steps and      *)
(* whatever requests overlap.  A new person is one only if a stale write   *)
(* has made everybody one.  One way in is left: the entries of a person go *)
(* when the person is removed, with a DENY that kept others out (joined by *)
(* OR).  How the first administrator is set up is not said here (Startup,  *)
(* DirectoryAccounts): there are people when a behaviour starts.           *)
Manages(s) == s \in Operators /\ HasGlobalManage(s)

DenyWentWithPerson ==
    \E q \in Persons :
        /\ profiles[q] # NoProfile /\ profiles'[q] = NoProfile
        /\ \E e \in EntriesFor(System, "MANAGE_ACL") :
              e.subject = q /\ e.subject_join = "OR" /\ e.permission = "DENY"

ManagersComeFromManagers ==
    [][\A p \in Persons : ~ Manages(p) /\ Manages(p)' =>
          IF profiles'[p] # profiles[p]
          THEN \/ IsAllowed(assigner', "MANAGE_PROFILES", System)
               \/ Manages(Anyone) /\ stale # {}
          ELSE \/ \E w \in Workers : request[w] # Idle /\ request'[w] = Idle
                                     /\ request[w].admin
               \/ DenyWentWithPerson]_vars

(* A revoked entry stays revoked on MySQL: whatever requests overlap, an   *)
(* identifier whose row was deleted never has one again.  On PostgreSQL    *)
(* save() may add it once more (Resurrect).                                *)
RevokedStaysRevoked ==
    [][database = "MySQL" => \A i \in 1 .. Entries : i <= drawn /\ ~ Holds(i) => ~ Holds(i)']_vars

(* The administration of the rules is sound: rights come from rights, and  *)
(* what was taken away does not come back.                                 *)
RulesComeFromManagers == ManagersComeFromManagers /\ RevokedStaysRevoked
=============================================================================
