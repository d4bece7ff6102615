-------------------------- MODULE ConcurrentUseCases --------------------------
(***************************************************************************)
(* The use cases on the assignments of one mission, as the transactions    *)
(* of concurrent workers see them.  A worker loads an aggregate, decides,  *)
(* locks and writes rows one statement after the other, and commits; what  *)
(* MissionLifecycle does in one step takes several here.                   *)
(*                                                                         *)
(* The engine is created without an isolation level (bootstrap/common.py), *)
(* so the database's default applies: REPEATABLE READ on MySQL, where      *)
(* plain reads come from the snapshot of the first one (SnapshotReads), or *)
(* READ COMMITTED on PostgreSQL.  Writes lock rows and act on their latest *)
(* version on both.  The session's identity map is weak: a repository's    *)
(* save() selects the row again, and the flush updates the columns that    *)
(* differ from that row.  SQLite, used by the tests only, is not modelled. *)
(***************************************************************************)
EXTENDS Naturals, FiniteSets, Statuses

CONSTANTS
    Workers,          \* threads of the servers, each with a session
    Assignments,      \* assignment identifiers
    Slots,            \* the activities of the blueprint
    ObjectiveOf,      \* the objective every activity is in
    NoOne,            \* the assignee of a draft
    PerimeterOf,      \* whom the assignee of an assignment, or NoOne, admits
    MaxTotal,         \* the mission's policy; 0 is None
    MaxConcurrent,
    StoredRows,       \* the assignments a behaviour may start with
    Commands,         \* the commands requests may carry: [kind, a, s, arg]
    SnapshotReads,    \* TRUE for MySQL, FALSE for PostgreSQL
    MaxRequests       \* bound: requests in a behaviour

ASSUME ConcurrencyAssumption ==
    /\ MaxTotal \in Nat /\ MaxConcurrent \in Nat /\ MaxRequests \in Nat
    /\ SnapshotReads \in BOOLEAN
    /\ NoOne \in DOMAIN PerimeterOf

VARIABLES
    db,          \* the committed rows of each assignment and its activities
    at,          \* of each worker: the statement it is about to execute
    command,     \* the command of its request
    loaded,      \* the aggregate it loaded, with its own writes
    existing,    \* the row its save() found
    seen,        \* the counts its snapshot holds: [total, active]
    locks,       \* the rows its transaction has locked
    requests     \* requests so far

local == <<at, command, loaded, existing, seen, locks>>
vars  == <<db, local, requests>>

-----------------------------------------------------------------------------
(* Rows                                                                    *)

Blank(state) ==
    [state |-> state, status |-> "UNASSIGNED", assignee |-> NoOne,
     acts |-> [s \in Slots |-> [status |-> "UNASSIGNED", assignees |-> {}]]]

Rows ==
    [state: {"none", "live", "gone"}, status: Status, assignee: DOMAIN PerimeterOf,
     acts: [Slots -> [status: Status, assignees: SUBSET PerimeterOf[NoOne]]]]

IsLive(row) == row.state = "live"
Live   == {a \in Assignments : IsLive(db[a])}
Counts == [total  |-> Cardinality(Live),
           active |-> Cardinality({a \in Live : db[a].status \in Active})]

MissionRow        == <<"mission">>
AssignmentRow(a)  == <<"assignment", a>>
ActivityRow(a, s) == <<"activity", a, s>>
ActivityRows(a)   == {ActivityRow(a, s) : s \in Slots}
DatabaseRows      == UNION {{MissionRow, AssignmentRow(a)} \union ActivityRows(a) : a \in Assignments}

OutcomeOf(row) ==
    Aggregate({Aggregate({row.acts[s].status :
                             s \in {x \in Slots : ObjectiveOf[x] = ObjectiveOf[y]}})
               : y \in Slots})

NoCommand == CHOOSE c \in Commands : TRUE

(* Requests are well formed, and a behaviour starts within the policy.     *)
OnActivities == {"staff", "unstaff", "setActivity"}

ASSUME RequestsAssumption ==
    /\ Commands # {}
    /\ \A c \in Commands :
          /\ c.kind \in {"create", "assign", "setStatus", "delete"} \union OnActivities
          /\ c.a \in Assignments
          /\ c.kind \in OnActivities => c.s \in Slots
          /\ c.kind = "create" => c.arg \in DOMAIN PerimeterOf
          /\ c.kind = "assign" => c.arg \in DOMAIN PerimeterOf \ {NoOne}
          /\ c.kind \in {"setStatus", "setActivity"} => c.arg \in Status
          /\ c.kind = "staff" => c.arg \in PerimeterOf[NoOne]
    /\ IsFiniteSet(Assignments)
    /\ StoredRows \subseteq [Assignments -> Rows]
    /\ \A r \in StoredRows :
          LET live == {a \in Assignments : IsLive(r[a])}
          IN  /\ MaxTotal # 0 => Cardinality(live) <= MaxTotal
              /\ MaxConcurrent # 0 => Cardinality({a \in live : r[a].status \in Active})
                                        <= MaxConcurrent

Init ==
    /\ db \in StoredRows
    /\ at = [w \in Workers |-> "idle"]
    /\ command = [w \in Workers |-> NoCommand]
    /\ loaded = [w \in Workers |-> Blank("none")]
    /\ existing = [w \in Workers |-> Blank("none")]
    /\ seen = [w \in Workers |-> [total |-> 0, active |-> 0]]
    /\ locks = [w \in Workers |-> {}]
    /\ requests = 0

A(w) == command[w].a
S(w) == command[w].s

-----------------------------------------------------------------------------
(* The first statements of a use case: load and validate                   *)

Accepts(c, row) ==
    CASE c.kind = "assign"      -> row.status = "UNASSIGNED"
      [] c.kind = "setStatus"   -> /\ MayRequest(row.status, c.arg)
                                   /\ c.arg = "COMPLETED" => OutcomeOf(row) = "COMPLETED"
      [] c.kind = "staff"       -> c.arg \in PerimeterOf[row.assignee] \ row.acts[c.s].assignees
      [] c.kind = "unstaff"     -> /\ row.acts[c.s].status \in {"UNASSIGNED", "ASSIGNED"}
                                   /\ c.arg \in row.acts[c.s].assignees
      [] c.kind = "setActivity" -> /\ MayRequest(row.acts[c.s].status, c.arg)
                                   /\ c.arg = "IN_PROGRESS" => row.acts[c.s].assignees # {}
      [] OTHER                  -> TRUE

(* save() under REPEATABLE READ finds the row of the snapshot.             *)
SaveRow      == IF SnapshotReads THEN "row" ELSE "find row"
SaveActivity == IF SnapshotReads THEN "activity" ELSE "find activity"

FirstWrite(kind) ==
    CASE kind = "assign"    -> "mission"
      [] kind = "setStatus" -> SaveRow
      [] kind = "delete"    -> "erase"
      [] OTHER              -> SaveActivity

Load(w, c) ==
    /\ at[w] = "idle"
    /\ requests < MaxRequests
    /\ c.kind # "create"
    /\ IsLive(db[c.a])
    /\ Accepts(c, db[c.a])
    /\ at' = [at EXCEPT ![w] = FirstWrite(c.kind)]
    /\ command' = [command EXCEPT ![w] = c]
    /\ loaded' = [loaded EXCEPT ![w] = db[c.a]]
    /\ existing' = [existing EXCEPT ![w] = db[c.a]]
    /\ seen' = [seen EXCEPT ![w] = Counts]
    /\ requests' = requests + 1
    /\ UNCHANGED <<db, locks>>

(* create() starts with the mission and draws a new identifier.            *)
StartCreate(w, c) ==
    /\ at[w] = "idle"
    /\ requests < MaxRequests
    /\ c.kind = "create"
    /\ db[c.a].state = "none"
    /\ \A x \in Workers : at[x] # "idle" => A(x) # c.a
    /\ at' = [at EXCEPT ![w] = "mission"]
    /\ command' = [command EXCEPT ![w] = c]
    /\ requests' = requests + 1
    /\ UNCHANGED <<db, loaded, existing, seen, locks>>

-----------------------------------------------------------------------------
(* Locks                                                                   *)

Wanted(w) ==
    CASE at[w] = "mission"            -> {MissionRow}
      [] at[w] = "activity"           -> {ActivityRow(A(w), S(w))}
      [] at[w] \in {"row", "erase row"} -> {AssignmentRow(A(w))}
      [] at[w] \in {"acts", "erase"}  -> ActivityRows(A(w))
      [] OTHER                        -> {}

WaitsFor(w, x) == x # w /\ Wanted(w) \intersect locks[x] # {}

NoLock(w) == locks' = locks     \* mutant: get() written for get_for_update()
Lock(w) == /\ \A x \in Workers : ~WaitsFor(w, x)
           /\ locks' = [locks EXCEPT ![w] = @ \union Wanted(w)]

Goto(w, place) == at' = [at EXCEPT ![w] = place]

-----------------------------------------------------------------------------
(* The mission's policy: create() and assign()                             *)

TakeMission(w) == Lock(w)

(* SELECT ... FOR UPDATE opens no snapshot; the statements after it do,    *)
(* unless assign() has read before.                                        *)
LockMission(w) ==
    /\ at[w] = "mission"
    /\ TakeMission(w)
    /\ seen' = IF command[w].kind = "create" THEN [seen EXCEPT ![w] = Counts] ELSE seen
    /\ Goto(w, "policy")
    /\ UNCHANGED <<db, command, loaded, existing, requests>>

PolicyAllows(w) ==
    LET n == IF SnapshotReads THEN seen[w] ELSE Counts
        c == command[w]
    IN  /\ c.kind = "create" /\ MaxTotal # 0 => n.total < MaxTotal
        /\ c.arg # NoOne /\ MaxConcurrent # 0 => n.active < MaxConcurrent

CheckPolicy(w) ==
    /\ at[w] = "policy"
    /\ PolicyAllows(w)
    /\ Goto(w, IF command[w].kind = "create" THEN "insert" ELSE SaveRow)
    /\ UNCHANGED <<db, command, loaded, existing, seen, locks, requests>>

InsertRow(w) ==
    /\ at[w] = "insert"
    /\ loaded' = [loaded EXCEPT ![w] =
           [Blank("live") EXCEPT !.assignee = command[w].arg,
                                 !.status = IF command[w].arg = NoOne THEN "UNASSIGNED"
                                            ELSE "ASSIGNED"]]
    /\ locks' = [locks EXCEPT ![w] =
           @ \union {AssignmentRow(A(w))} \union ActivityRows(A(w))]
    /\ Goto(w, "commit")
    /\ UNCHANGED <<db, command, existing, seen, requests>>

-----------------------------------------------------------------------------
(* Writes                                                                  *)

(* save(): existing = session.get(...)                                     *)
FindExisting(w) ==
    /\ \/ at[w] = "find row" /\ Goto(w, "row")
       \/ at[w] = "find activity" /\ Goto(w, "activity")
    /\ existing' = [existing EXCEPT ![w] = db[A(w)]]
    /\ UNCHANGED <<db, command, loaded, seen, locks, requests>>

(* The flush writes what differs from the existing row.                    *)
Flush(new, old, current) ==
    [c \in DOMAIN new |-> IF new[c] # old[c] THEN new[c] ELSE current[c]]

NewActivity(c, act) ==
    CASE c.kind = "staff" ->
            [status    |-> IF act.status = "UNASSIGNED" THEN "ASSIGNED" ELSE act.status,
             assignees |-> act.assignees \union {c.arg}]
      [] c.kind = "unstaff" ->
            [status    |-> IF act.assignees = {c.arg} /\ act.status = "ASSIGNED"
                           THEN "UNASSIGNED" ELSE act.status,
             assignees |-> act.assignees \ {c.arg}]
      [] OTHER -> [act EXCEPT !.status = c.arg]

(* An UPDATE that finds no row raises StaleDataError, an INSERT below a    *)
(* deleted objective IntegrityError.                                       *)
ActivityFound(w) == IsLive(db[A(w)]) /\ IsLive(existing[w])

WriteActivity(w) ==
    /\ at[w] = "activity"
    /\ ActivityFound(w)
    /\ Lock(w)
    /\ loaded' = [loaded EXCEPT ![w].acts[S(w)] =
           Flush(NewActivity(command[w], @), existing[w].acts[S(w)], db[A(w)].acts[S(w)])]
    /\ Goto(w, IF command[w].kind = "setActivity" THEN "parent" ELSE "commit")
    /\ UNCHANGED <<db, command, existing, seen, requests>>

(* The parent is loaded after the activity has been flushed.               *)
Parent(w) ==
    IF SnapshotReads THEN loaded[w]
    ELSE [db[A(w)] EXCEPT !.acts[S(w)] = loaded[w].acts[S(w)]]

NewStatus(w, row) ==
    IF command[w].kind = "assign" THEN "ASSIGNED"
    ELSE IF command[w].kind = "setStatus" THEN command[w].arg
    ELSE CascadeTo(row.status, command[w].arg)

CascadeAllowed(w) ==
    LET row == Parent(w)
    IN  NewStatus(w, row) \in {row.status} \union StatusTransitions(row.status)

LoadParent(w) ==
    /\ at[w] = "parent"
    /\ CascadeAllowed(w)
    /\ loaded' = [loaded EXCEPT ![w] = Parent(w)]
    /\ existing' = [existing EXCEPT ![w] = Parent(w)]
    /\ Goto(w, IF NewStatus(w, Parent(w)) = Parent(w).status THEN "commit" ELSE SaveRow)
    /\ UNCHANGED <<db, command, seen, locks, requests>>

Upserts(w) == TRUE          \* mutant: save() inserts the row an UPDATE misses

(* An assignment found by save() is updated; one that is not found, since  *)
(* it was deleted after the load, is inserted again.                       *)
RowFound(w) == IsLive(existing[w]) = IsLive(db[A(w)])

NewAssignee(w) == IF command[w].kind = "assign" THEN command[w].arg ELSE loaded[w].assignee

UpdateRow(w) ==
    /\ at[w] = "row"
    /\ RowFound(w)
    /\ Lock(w)
    /\ LET new == [status |-> NewStatus(w, loaded[w]), assignee |-> NewAssignee(w)]
           row == IF IsLive(db[A(w)]) THEN Flush(new, existing[w], db[A(w)]) ELSE new
       IN  loaded' = [loaded EXCEPT ![w].status = row.status, ![w].assignee = row.assignee]
    /\ Goto(w, "acts")
    /\ UNCHANGED <<db, command, existing, seen, requests>>

(* Then all activities of the assignment are deleted and inserted again    *)
(* as they were loaded.                                                    *)
RewriteActivities(w) ==
    /\ at[w] = "acts"
    /\ Lock(w)
    /\ Goto(w, "commit")
    /\ UNCHANGED <<db, command, loaded, existing, seen, requests>>

(* delete(): first the activities, then the row.                           *)
Erase(w) ==
    /\ \/ at[w] = "erase" /\ Goto(w, "erase row")
       \/ at[w] = "erase row" /\ Goto(w, "commit")
    /\ Lock(w)
    /\ UNCHANGED <<db, command, loaded, existing, seen, requests>>

-----------------------------------------------------------------------------
(* The end of a transaction                                                *)

LeavesOpen(w) ==            \* mutant: the session is neither rolled back nor closed
    /\ loaded' = [loaded EXCEPT ![w] = Blank("none")]
    /\ existing' = [existing EXCEPT ![w] = Blank("none")]
    /\ command' = [command EXCEPT ![w] = NoCommand]
    /\ UNCHANGED <<seen, locks, requests>>

Ended(w) ==
    /\ loaded' = [loaded EXCEPT ![w] = Blank("none")]
    /\ existing' = [existing EXCEPT ![w] = Blank("none")]
    /\ seen' = [seen EXCEPT ![w] = [total |-> 0, active |-> 0]]
    /\ locks' = [locks EXCEPT ![w] = {}]
    /\ command' = [command EXCEPT ![w] = NoCommand]
    /\ UNCHANGED requests

Written(w) ==
    IF command[w].kind = "delete" THEN Blank("gone")
    ELSE IF AssignmentRow(A(w)) \in locks[w] THEN [loaded[w] EXCEPT !.state = "live"]
    ELSE [db[A(w)] EXCEPT !.acts[S(w)] = loaded[w].acts[S(w)]]

(* A statement of PostgreSQL that waited for activities does not see the   *)
(* ones inserted in their place; it waited if it began before the commit.  *)
Replaces(w)  == command[w].kind # "delete" /\ AssignmentRow(A(w)) \in locks[w]
Overtaken(w) == {x \in Workers : ~SnapshotReads /\ Replaces(w) /\ WaitsFor(x, w)
                                  /\ at[x] \in {"activity", "erase"}}

Commit(w) ==
    /\ at[w] = "commit"
    /\ db' = [db EXCEPT ![A(w)] = Written(w)]
    /\ \E begun \in SUBSET Overtaken(w) :
          at' = [x \in Workers |-> IF x = w THEN "idle"
                                   ELSE IF x \in begun THEN "missed" ELSE at[x]]
    /\ Ended(w)

Refused(w) ==
    \/ at[w] = "policy" /\ ~PolicyAllows(w)
    \/ at[w] = "activity" /\ ~ActivityFound(w)
    \/ at[w] = "row" /\ ~RowFound(w)
    \/ at[w] = "parent" /\ ~CascadeAllowed(w)
    \/ at[w] = "missed"

(* The database rolls a transaction of a deadlock back.                    *)
Victim(w) ==
    \E D \in SUBSET Workers :
       /\ w \in D
       /\ \A x \in D : \E y \in D : WaitsFor(x, y)
       /\ \A y \in D : \E x \in D : WaitsFor(x, y)

Rollback(w) ==
    /\ Refused(w) \/ Victim(w)
    /\ Goto(w, "idle")
    /\ Ended(w)
    /\ UNCHANGED db

-----------------------------------------------------------------------------
Start(w) == \E c \in Commands : Load(w, c) \/ StartCreate(w, c)

Continue(w) ==
    \/ LockMission(w) \/ CheckPolicy(w) \/ InsertRow(w)
    \/ FindExisting(w) \/ WriteActivity(w) \/ LoadParent(w)
    \/ UpdateRow(w) \/ RewriteActivities(w) \/ Erase(w)
    \/ Commit(w) \/ Rollback(w)

Next == \E w \in Workers : Start(w) \/ Continue(w)

Spec == Init /\ [][Next]_vars

(* A request that has started is executed.                                 *)
FairSpec == Spec /\ \A w \in Workers : WF_vars(Continue(w))

-----------------------------------------------------------------------------
(* What holds under concurrency                                            *)

Places == {"idle", "mission", "policy", "insert", "find row", "row", "acts",
           "find activity", "activity", "parent", "erase", "erase row", "missed", "commit"}

(* Every variable has its type, an idle worker holds no lock, and no row   *)
(* is locked twice.                                                        *)
TypeOK ==
    /\ db \in [Assignments -> Rows]
    /\ at \in [Workers -> Places]
    /\ command \in [Workers -> Commands]
    /\ loaded \in [Workers -> Rows]
    /\ existing \in [Workers -> Rows]
    /\ seen \in [Workers -> [total: Nat, active: Nat]]
    /\ locks \in [Workers -> SUBSET DatabaseRows]
    /\ \A w \in Workers : at[w] = "idle" => locks[w] = {}
    /\ \A w, x \in Workers : w # x => locks[w] \intersect locks[x] = {}
    /\ requests \in 0..MaxRequests

(* max_total holds whatever transactions overlap: create() counts under    *)
(* the mission's lock.                                                     *)
TotalRespected == MaxTotal # 0 => Counts.total <= MaxTotal

(* max_concurrent holds as long as only create() and assign() make         *)
(* assignments operative.                                                  *)
ConcurrentRespected == MaxConcurrent # 0 => Counts.active <= MaxConcurrent

(* A deleted assignment never comes back, although other transactions may  *)
(* have loaded it before.                                                  *)
DeletedStaysDeleted ==
    [][\A a \in Assignments : db[a].state = "gone" => db'[a].state = "gone"]_vars

(* Rows are locked in different orders (assignment before activities, or   *)
(* the other way round).  Whoever waits, waits in the end for somebody who *)
(* goes on, is refused, or is rolled back by the database: among workers   *)
(* that wait for nobody else, and do something, there is always one.       *)
Proceeds(w) ==
    /\ at[w] # "idle"
    /\ Refused(w) \/ Victim(w) \/ \A x \in Workers : ~WaitsFor(w, x)

EveryQueueMoves ==
    \A D \in SUBSET Workers :
       /\ \E w \in D : at[w] # "idle"
       /\ \A w \in D, x \in Workers : WaitsFor(w, x) => x \in D
       => \E w \in D : Proceeds(w)

(* And every request comes to its end.                                     *)
EveryRequestEnds ==
    \A w \in Workers : at[w] # "idle" ~> at[w] = "idle"

-----------------------------------------------------------------------------
(* What the documentation says and two workers do not keep: checked to be  *)
(* violated.                                                               *)

(* DESIGN.md:206: COMPLETED and FAILED are terminal.                        *)
TerminalIsFinal ==
    [][\A a \in Assignments : IsLive(db[a]) /\ IsLive(db'[a]) =>
          /\ db[a].status \in Terminal => db'[a].status = db[a].status
          /\ \A s \in Slots : db[a].acts[s].status \in Terminal =>
                db'[a].acts[s].status = db[a].acts[s].status]_vars
=============================================================================
