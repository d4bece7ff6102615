--------------------------- MODULE ConcurrentProofs ---------------------------
(***************************************************************************)
(* Proofs about ConcurrentUseCases, for any workers, assignments, commands *)
(* and bounds: types and exclusive locks on both databases; on MySQL, that *)
(* max_total holds and that what is deleted stays deleted, whatever        *)
(* transactions overlap; on PostgreSQL, that max_concurrent holds as long  *)
(* as nobody requests a status.                                            *)
(*                                                                         *)
(* None is inductive.  PlaceInv and LocksInv say which command is at       *)
(* which statement and what it has locked there; CreateInv that a new      *)
(* identifier is known to its creator alone.  On MySQL, moreover, what was *)
(* loaded was live (LoadedInv), a row that was updated is kept live by its *)
(* lock until the commit (HeldInv), and the counts a creator has seen      *)
(* under the lock of the mission can only have become smaller since        *)
(* (RoomInv).  On PostgreSQL a worker the policy has admitted keeps the    *)
(* mission locked until its commit, so that nobody else takes the room it  *)
(* has found (PolicyInv).                                                  *)
(*                                                                         *)
(* Then what else is true on PostgreSQL.  max_total holds as long as       *)
(* nothing deleted is inserted again (CountedInv).  On both databases,     *)
(* what transactions undo of each other they undo on one assignment: while *)
(* each has one transaction at a time (OneAtATime), what that has loaded   *)
(* is what is committed (OwnInv), and terminal statuses, deletions and     *)
(* max_total hold; what it has made of it is what its command is for       *)
(* (MadeInv), and so commits keep the promise of an assignment             *)
(* (ApartKeepsPromise).  Last, whoever waits waits for somebody who goes   *)
(* on or is rolled back (QueuesMove), and every step brings a request      *)
(* nearer to its end (RequestsAdvance).                                    *)
(***************************************************************************)
EXTENDS ConcurrentUseCases, FiniteSetTheorems, TLAPS

K(w) == command[w].kind

PlaceOf(w) ==
    /\ at[w] = "insert" => K(w) = "create"
    /\ at[w] \in {"mission", "policy"} => K(w) \in {"create", "assign"}
    /\ at[w] \in {"find row", "row", "acts"} => K(w) \in {"assign", "setStatus", "setActivity"}
    /\ at[w] \in {"find activity", "activity"} => K(w) \in OnActivities
    /\ at[w] = "parent" => K(w) = "setActivity"
    /\ at[w] \in {"erase", "erase row"} => K(w) = "delete"
    /\ at[w] = "commit" /\ AssignmentRow(A(w)) \notin locks[w] => K(w) \in OnActivities

RowsOf(w) == {MissionRow, AssignmentRow(A(w))} \union ActivityRows(A(w))

LocksOf(w) ==
    /\ locks[w] \subseteq RowsOf(w)
    /\ at[w] = "idle" => locks[w] = {}
    /\ at[w] \in {"policy", "insert"} \/ (at[w] = "commit" /\ K(w) = "create") =>
          MissionRow \in locks[w]
    /\ at[w] = "acts" => AssignmentRow(A(w)) \in locks[w]
    /\ at[w] \in {"mission", "policy", "insert", "activity", "find activity", "parent"} =>
          AssignmentRow(A(w)) \notin locks[w]

PlaceInv == \A w \in Workers : PlaceOf(w)
LocksInv == \A w \in Workers : LocksOf(w)

(* The identifier of a creation is nobody else's.                          *)
CreateInv ==
    \A w \in Workers : at[w] # "idle" /\ K(w) = "create" =>
        /\ db[A(w)].state = "none"
        /\ \A x \in Workers : x # w /\ at[x] # "idle" => A(x) # A(w)

ConcInv == TypeOK /\ PlaceInv /\ LocksInv /\ CreateInv

-----------------------------------------------------------------------------
(* Rows and types                                                          *)

LEMMA RowsDiffer ==
    ASSUME NEW a, NEW b, NEW s, NEW t
    PROVE  /\ MissionRow # AssignmentRow(a) /\ MissionRow # ActivityRow(a, s)
           /\ AssignmentRow(a) # ActivityRow(b, s)
           /\ AssignmentRow(a) = AssignmentRow(b) => a = b
           /\ ActivityRow(a, s) = ActivityRow(b, t) => a = b
    BY DEF MissionRow, AssignmentRow, ActivityRow

(* Only the row of the mission is common to two assignments.               *)
LEMMA CommonRow ==
    ASSUME NEW v \in Workers, NEW w \in Workers, A(v) # A(w)
    PROVE  RowsOf(v) \intersect RowsOf(w) = {MissionRow}
    BY RowsDiffer DEF RowsOf, ActivityRows

LEMMA CommandTypes ==
    ASSUME TypeOK, NEW w \in Workers
    PROVE  /\ command[w] \in Commands /\ A(w) \in Assignments
           /\ K(w) \in {"create", "assign", "setStatus", "delete"} \union OnActivities
           /\ K(w) \in OnActivities => S(w) \in Slots
           /\ RowsOf(w) \subseteq DatabaseRows
<1>1. command[w] \in Commands
    BY DEF TypeOK
<1>2. A(w) \in Assignments
    BY <1>1, RequestsAssumption DEF A
<1>3. RowsOf(w) \subseteq DatabaseRows
    BY <1>2 DEF RowsOf, DatabaseRows
<1> QED BY <1>1, <1>2, <1>3, RequestsAssumption DEF K, S

LEMMA BlankIsRow ==
    ASSUME NEW s \in {"none", "live", "gone"}
    PROVE  Blank(s) \in Rows /\ Blank(s).state = s
    BY ConcurrencyAssumption DEF Blank, Rows, Status

LEMMA CountsAreNumbers ==
    ASSUME TypeOK
    PROVE  /\ IsFiniteSet(Live) /\ Counts \in [total: Nat, active: Nat]
           /\ Counts.total = Cardinality(Live)
<1>1. IsFiniteSet(Live) /\ IsFiniteSet({a \in Live : db[a].status \in Active})
    BY RequestsAssumption, FS_Subset DEF Live
<1> QED BY <1>1, FS_CardinalityType DEF Counts

LEMMA CommandsChosen == NoCommand \in Commands
    BY RequestsAssumption DEF NoCommand

LEMMA ConcInvInit == Init => ConcInv
<1> SUFFICES ASSUME Init PROVE ConcInv
    OBVIOUS
<1>1. TypeOK
    BY BlankIsRow, CommandsChosen, RequestsAssumption, ConcurrencyAssumption DEF Init, TypeOK, Places
<1>2. PlaceInv
    BY DEF Init, PlaceInv, PlaceOf
<1>3. LocksInv
    BY DEF Init, LocksInv, LocksOf
<1>4. CreateInv
    BY DEF Init, CreateInv
<1> QED BY <1>1, <1>2, <1>3, <1>4 DEF ConcInv

-----------------------------------------------------------------------------
(* A worker that goes on to its next statement, with the locks it takes,   *)
(* keeps the invariant if the next statement is one for its command.       *)
LEMMA LockTakes ==
    ASSUME ConcInv, NEW w \in Workers, Lock(w)
    PROVE  /\ locks' \in [Workers -> SUBSET DatabaseRows]
           /\ locks'[w] = locks[w] \union Wanted(w) /\ Wanted(w) \subseteq RowsOf(w)
           /\ \A x \in Workers : x # w => locks'[x] = locks[x]
           /\ \A x, y \in Workers : x # y => locks'[x] \intersect locks'[y] = {}
<1>1. at[w] = "activity" => S(w) \in Slots
    BY CommandTypes DEF ConcInv, PlaceInv, PlaceOf
<1>2. Wanted(w) \subseteq RowsOf(w)
    BY <1>1 DEF Wanted, RowsOf, ActivityRows
<1>3. RowsOf(w) \subseteq DatabaseRows
    BY CommandTypes DEF ConcInv
<1>4. locks \in [Workers -> SUBSET DatabaseRows] /\ locks' = [locks EXCEPT ![w] = @ \union Wanted(w)]
    BY DEF ConcInv, TypeOK, Lock
<1>5. \A x \in Workers : x # w => Wanted(w) \intersect locks[x] = {}
    BY DEF Lock, WaitsFor
<1>6. \A x \in Workers : locks'[x] = IF x = w THEN locks[w] \union Wanted(w) ELSE locks[x]
    BY <1>4
<1>7. \A x, y \in Workers : x # y => locks[x] \intersect locks[y] = {}
    BY DEF ConcInv, TypeOK
<1>8. \A x, y \in Workers : x # y => locks'[x] \intersect locks'[y] = {}
    BY <1>5, <1>6, <1>7
<1> QED BY <1>2, <1>3, <1>4, <1>6, <1>8

LEMMA MoveKeeps ==
    ASSUME ConcInv, NEW w \in Workers, at[w] # "idle",
           NEW q \in Places \ {"idle"}, Goto(w, q),
           UNCHANGED <<db, command, requests>>,
           loaded' \in [Workers -> Rows], existing' \in [Workers -> Rows],
           seen' \in [Workers -> [total: Nat, active: Nat]],
           locks' \in [Workers -> SUBSET DatabaseRows],
           \A x \in Workers : x # w => locks'[x] = locks[x],
           \A x, y \in Workers : x # y => locks'[x] \intersect locks'[y] = {},
           PlaceOf(w)', LocksOf(w)'
    PROVE  ConcInv'
<1> USE DEF ConcInv
<1>1. at' \in [Workers -> Places] /\ \A x \in Workers : at'[x] = IF x = w THEN q ELSE at[x]
    BY DEF Goto, TypeOK
<1>2. TypeOK'
    BY <1>1 DEF TypeOK
<1>3. ASSUME NEW x \in Workers, x # w PROVE PlaceOf(x)' /\ LocksOf(x)'
  <2>1. at'[x] = at[x] /\ locks'[x] = locks[x] /\ command' = command
      BY <1>1, <1>3
  <2>2. PlaceOf(x) /\ LocksOf(x)
      BY DEF PlaceInv, LocksInv
  <2> QED BY <2>1, <2>2 DEF PlaceOf, LocksOf, K, A, RowsOf
<1>4. PlaceInv' /\ LocksInv'
    BY <1>3 DEF PlaceInv, LocksInv
<1>5. CreateInv'
    BY <1>1 DEF CreateInv, K, A
<1> QED BY <1>2, <1>4, <1>5

LEMMA LoadKeeps ==
    ASSUME ConcInv, NEW w \in Workers, NEW c \in Commands, Load(w, c)
    PROVE  ConcInv'
<1> USE DEF ConcInv
<1>1. /\ at[w] = "idle" /\ c.kind # "create" /\ IsLive(db[c.a])
      /\ UNCHANGED <<db, locks>> /\ c.a \in Assignments /\ db[c.a] \in Rows
    BY RequestsAssumption DEF Load, TypeOK
<1>2. /\ \A x \in Workers : at'[x] = IF x = w THEN FirstWrite(c.kind) ELSE at[x]
      /\ \A x \in Workers : command'[x] = IF x = w THEN c ELSE command[x]
    BY DEF Load, TypeOK
<1>3. /\ FirstWrite(c.kind) \in Places \ {"idle"}
      /\ c.kind \in {"assign", "setStatus", "delete"} \union OnActivities
    BY <1>1, RequestsAssumption DEF FirstWrite, SaveRow, SaveActivity, Places
<1>4. TypeOK'
  <2>1. requests' \in 0 .. MaxRequests
      BY ConcurrencyAssumption DEF Load, TypeOK
  <2>2. at' \in [Workers -> Places] /\ command' \in [Workers -> Commands]
      BY <1>3 DEF Load, TypeOK
  <2>3. loaded' \in [Workers -> Rows] /\ existing' \in [Workers -> Rows]
      BY <1>1 DEF Load, TypeOK
  <2>4. seen' \in [Workers -> [total: Nat, active: Nat]]
      BY CountsAreNumbers DEF Load, TypeOK
  <2>5. \A x \in Workers : at'[x] = "idle" => locks'[x] = {}
      BY <1>1, <1>2 DEF TypeOK
  <2> QED BY <1>1, <2>1, <2>2, <2>3, <2>4, <2>5 DEF TypeOK
<1>5. locks[w] = {}
    BY <1>1 DEF TypeOK
<1>6. PlaceOf(w)' /\ LocksOf(w)'
  <2>1. at'[w] = FirstWrite(c.kind) /\ command'[w] = c /\ locks'[w] = {}
      BY <1>1, <1>2, <1>5
  <2>2. PlaceOf(w)'
      BY <1>3, <2>1 DEF PlaceOf, K, FirstWrite, SaveRow, SaveActivity, OnActivities
  <2>3. LocksOf(w)'
      BY <1>3, <2>1 DEF LocksOf, K, FirstWrite, SaveRow, SaveActivity, OnActivities
  <2> QED BY <2>2, <2>3
<1>7. ASSUME NEW x \in Workers, x # w PROVE PlaceOf(x)' /\ LocksOf(x)'
  <2>1. at'[x] = at[x] /\ locks'[x] = locks[x] /\ command'[x] = command[x]
      BY <1>1, <1>2, <1>7
  <2>2. PlaceOf(x) /\ LocksOf(x)
      BY DEF PlaceInv, LocksInv
  <2> QED BY <2>1, <2>2 DEF PlaceOf, LocksOf, K, A, RowsOf
<1>8. PlaceInv' /\ LocksInv'
    BY <1>6, <1>7 DEF PlaceInv, LocksInv
<1>9. CreateInv'
  <2> SUFFICES ASSUME NEW x \in Workers, at'[x] # "idle", K(x)' = "create"
               PROVE  /\ db'[A(x)'].state = "none"
                      /\ \A y \in Workers : y # x /\ at'[y] # "idle" => A(y)' # A(x)'
      BY DEF CreateInv
  <2>1. x # w /\ at[x] # "idle" /\ K(x) = "create" /\ A(x)' = A(x)
      BY <1>1, <1>2 DEF K, A
  <2>2. db[A(x)].state = "none"
      BY <2>1 DEF CreateInv
  <2>3. A(w)' # A(x)
      BY <1>1, <1>2, <2>2 DEF A, IsLive
  <2>4. ASSUME NEW y \in Workers, y # x, at'[y] # "idle" PROVE A(y)' # A(x)
    <3>1. CASE y = w
        BY <3>1, <2>3
    <3>2. CASE y # w
        BY <3>2, <2>1, <2>4, <1>2 DEF CreateInv, A
    <3> QED BY <3>1, <3>2
  <2> QED BY <1>1, <2>1, <2>2, <2>4
<1> QED BY <1>4, <1>8, <1>9

LEMMA StartCreateKeeps ==
    ASSUME ConcInv, NEW w \in Workers, NEW c \in Commands, StartCreate(w, c)
    PROVE  ConcInv'
<1> USE DEF ConcInv
<1>1. /\ at[w] = "idle" /\ c.kind = "create" /\ db[c.a].state = "none"
      /\ \A x \in Workers : at[x] # "idle" => A(x) # c.a
      /\ UNCHANGED <<db, loaded, existing, seen, locks>>
    BY DEF StartCreate
<1>2. /\ \A x \in Workers : at'[x] = IF x = w THEN "mission" ELSE at[x]
      /\ \A x \in Workers : command'[x] = IF x = w THEN c ELSE command[x]
    BY DEF StartCreate, TypeOK
<1>3. TypeOK'
  <2>1. requests' \in 0 .. MaxRequests
      BY ConcurrencyAssumption DEF StartCreate, TypeOK
  <2>2. at' \in [Workers -> Places] /\ command' \in [Workers -> Commands]
      BY DEF StartCreate, TypeOK, Places
  <2>3. \A x \in Workers : at'[x] = "idle" => locks'[x] = {}
      BY <1>1, <1>2 DEF TypeOK
  <2> QED BY <1>1, <2>1, <2>2, <2>3 DEF TypeOK
<1>4. PlaceOf(w)' /\ LocksOf(w)'
  <2>1. at'[w] = "mission" /\ command'[w] = c /\ locks'[w] = {}
      BY <1>1, <1>2 DEF TypeOK
  <2> QED BY <1>1, <2>1 DEF PlaceOf, LocksOf, K
<1>5. ASSUME NEW x \in Workers, x # w PROVE PlaceOf(x)' /\ LocksOf(x)'
  <2>1. at'[x] = at[x] /\ locks'[x] = locks[x] /\ command'[x] = command[x]
      BY <1>1, <1>2, <1>5
  <2>2. PlaceOf(x) /\ LocksOf(x)
      BY DEF PlaceInv, LocksInv
  <2> QED BY <2>1, <2>2 DEF PlaceOf, LocksOf, K, A, RowsOf
<1>6. PlaceInv' /\ LocksInv'
    BY <1>4, <1>5 DEF PlaceInv, LocksInv
<1>7. CreateInv'
    BY <1>1, <1>2 DEF CreateInv, K, A
<1> QED BY <1>3, <1>6, <1>7

LEMMA LockMissionKeeps ==
    ASSUME ConcInv, NEW w \in Workers, LockMission(w)
    PROVE  ConcInv'
<1> USE DEF ConcInv
<1>1. /\ at[w] = "mission" /\ Lock(w) /\ Goto(w, "policy")
      /\ UNCHANGED <<db, command, loaded, existing, requests>>
    BY DEF LockMission, TakeMission
<1>2. seen' \in [Workers -> [total: Nat, active: Nat]]
    BY CountsAreNumbers DEF LockMission, TypeOK
<1>3. locks'[w] = locks[w] \union {MissionRow}
    BY <1>1, LockTakes DEF Wanted
<1>4. at'[w] = "policy" /\ K(w)' = K(w) /\ A(w)' = A(w)
    BY <1>1 DEF Goto, TypeOK, K, A
<1>5. PlaceOf(w)'
    BY <1>1, <1>4 DEF PlaceInv, PlaceOf
<1>6. LocksOf(w)'
    BY <1>1, <1>3, <1>4, RowsDiffer DEF LocksInv, LocksOf, RowsOf
<1> QED BY <1>1, <1>2, <1>5, <1>6, LockTakes, MoveKeeps DEF TypeOK, Places

LEMMA CheckPolicyKeeps ==
    ASSUME ConcInv, NEW w \in Workers, CheckPolicy(w)
    PROVE  ConcInv'
<1> USE DEF ConcInv
<1> DEFINE q == IF K(w) = "create" THEN "insert" ELSE SaveRow
<1>1. /\ at[w] = "policy" /\ Goto(w, q)
      /\ UNCHANGED <<db, command, loaded, existing, seen, locks, requests>>
    BY DEF CheckPolicy, K
<1>2. q \in Places \ {"idle"}
    BY DEF SaveRow, Places
<1>3. at'[w] = q /\ K(w)' = K(w) /\ locks' = locks /\ A(w)' = A(w)
    BY <1>1 DEF Goto, TypeOK, K, A
<1>4. PlaceOf(w)'
    BY <1>1, <1>3 DEF PlaceInv, PlaceOf, SaveRow
<1>5. LocksOf(w)'
    BY <1>1, <1>3 DEF LocksInv, LocksOf, SaveRow, RowsOf
<1> HIDE DEF q
<1> QED BY <1>1, <1>2, <1>4, <1>5, MoveKeeps DEF TypeOK

LEMMA InsertRowKeeps ==
    ASSUME ConcInv, NEW w \in Workers, InsertRow(w)
    PROVE  ConcInv'
<1> USE DEF ConcInv
<1> DEFINE mine == locks[w] \union {AssignmentRow(A(w))} \union ActivityRows(A(w))
<1>1. /\ at[w] = "insert" /\ Goto(w, "commit") /\ locks' = [locks EXCEPT ![w] = mine]
      /\ UNCHANGED <<db, command, existing, seen, requests>>
    BY DEF InsertRow
<1>2. command[w] \in Commands /\ K(w) = "create" /\ command[w].arg \in DOMAIN PerimeterOf
    BY <1>1, RequestsAssumption DEF PlaceInv, PlaceOf, TypeOK, K
<1>3. loaded' \in [Workers -> Rows]
  <2>1. [Blank("live") EXCEPT !.assignee = command[w].arg,
                              !.status = IF command[w].arg = NoOne THEN "UNASSIGNED" ELSE "ASSIGNED"]
            \in Rows
      BY <1>2 DEF Blank, Rows, Status
  <2> QED BY <2>1 DEF InsertRow, TypeOK
<1>4. mine \subseteq DatabaseRows /\ mine \subseteq RowsOf(w)
    BY CommandTypes DEF TypeOK, LocksInv, LocksOf, RowsOf
<1>5. locks' \in [Workers -> SUBSET DatabaseRows]
    BY <1>1, <1>4 DEF TypeOK
<1>6. \A x \in Workers : locks'[x] = IF x = w THEN mine ELSE locks[x]
    BY <1>1 DEF TypeOK
<1> HIDE DEF mine
<1>7. ASSUME NEW x \in Workers, x # w PROVE mine \intersect locks[x] = {}
  <2>1. CASE at[x] = "idle"
      BY <2>1 DEF TypeOK
  <2>2. CASE at[x] # "idle"
    <3>1. A(x) # A(w)
        BY <1>1, <1>2, <1>7, <2>2 DEF CreateInv
    <3>2. locks[x] \subseteq RowsOf(x) /\ locks[w] \intersect locks[x] = {}
        BY <1>7 DEF LocksInv, LocksOf, TypeOK
    <3>3. MissionRow \in locks[w]
        BY <1>1 DEF LocksInv, LocksOf
    <3>4. RowsOf(x) \intersect RowsOf(w) = {MissionRow}
        BY <3>1, CommonRow
    <3> QED BY <1>4, <3>2, <3>3, <3>4
  <2> QED BY <2>1, <2>2
<1>8. \A x, y \in Workers : x # y => locks'[x] \intersect locks'[y] = {}
    BY <1>6, <1>7 DEF TypeOK
<1>9. at'[w] = "commit" /\ K(w)' = K(w) /\ A(w)' = A(w) /\ locks'[w] = mine
    BY <1>1, <1>6 DEF Goto, TypeOK, K, A
<1>10. AssignmentRow(A(w)) \in mine /\ MissionRow \in mine
    BY <1>1 DEF mine, LocksInv, LocksOf
<1>11. PlaceOf(w)'
    BY <1>2, <1>9, <1>10 DEF PlaceOf
<1>12. LocksOf(w)'
    BY <1>4, <1>9, <1>10 DEF LocksOf, RowsOf
<1>13. UNCHANGED <<db, command, requests>> /\ existing' = existing /\ seen' = seen
    BY <1>1
<1>14. existing' \in [Workers -> Rows] /\ seen' \in [Workers -> [total: Nat, active: Nat]]
    BY <1>13 DEF TypeOK
<1> QED BY <1>1, <1>3, <1>5, <1>6, <1>8, <1>11, <1>12, <1>13, <1>14, MoveKeeps DEF Places

LEMMA FindExistingKeeps ==
    ASSUME ConcInv, NEW w \in Workers, FindExisting(w)
    PROVE  ConcInv'
<1> USE DEF ConcInv
<1>1. PICK q \in {"row", "activity"} :
          /\ at[w] = IF q = "row" THEN "find row" ELSE "find activity"
          /\ Goto(w, q)
    BY DEF FindExisting
<1>2. /\ existing' = [existing EXCEPT ![w] = db[A(w)]]
      /\ UNCHANGED <<db, command, loaded, seen, locks, requests>>
    BY DEF FindExisting
<1>3. existing' \in [Workers -> Rows]
    BY <1>2, CommandTypes DEF TypeOK
<1>4. at'[w] = q /\ K(w)' = K(w) /\ A(w)' = A(w) /\ locks' = locks
    BY <1>1, <1>2 DEF Goto, TypeOK, K, A
<1>5. PlaceOf(w)'
    BY <1>1, <1>4 DEF PlaceInv, PlaceOf
<1>6. LocksOf(w)'
    BY <1>1, <1>4 DEF LocksInv, LocksOf, RowsOf
<1> QED BY <1>1, <1>2, <1>3, <1>5, <1>6, MoveKeeps DEF TypeOK, Places

ActivityStates == [status: Status, assignees: SUBSET PerimeterOf[NoOne]]

LEMMA NewActivityType ==
    ASSUME NEW c \in Commands, c.kind \in OnActivities, NEW act \in ActivityStates
    PROVE  NewActivity(c, act) \in ActivityStates
<1>1. /\ c.kind \in OnActivities
      /\ c.kind = "setActivity" => c.arg \in Status
      /\ c.kind = "staff" => c.arg \in PerimeterOf[NoOne]
    BY RequestsAssumption
<1>2. act.status \in Status /\ act.assignees \in SUBSET PerimeterOf[NoOne]
    BY DEF ActivityStates
<1>3. CASE c.kind = "staff"
  <2>1. NewActivity(c, act) =
            [status    |-> IF act.status = "UNASSIGNED" THEN "ASSIGNED" ELSE act.status,
             assignees |-> act.assignees \union {c.arg}]
      BY <1>3 DEF NewActivity
  <2> QED BY <1>1, <1>2, <1>3, <2>1 DEF ActivityStates, Status
<1>4. CASE c.kind = "unstaff"
  <2>1. NewActivity(c, act) =
            [status    |-> IF act.assignees = {c.arg} /\ act.status = "ASSIGNED"
                           THEN "UNASSIGNED" ELSE act.status,
             assignees |-> act.assignees \ {c.arg}]
      BY <1>4 DEF NewActivity
  <2> QED BY <1>2, <2>1 DEF ActivityStates, Status
<1>5. CASE c.kind = "setActivity"
  <2>1. NewActivity(c, act) = [act EXCEPT !.status = c.arg]
      BY <1>5 DEF NewActivity
  <2> QED BY <1>1, <1>5, <2>1 DEF ActivityStates
<1> QED BY <1>1, <1>3, <1>4, <1>5 DEF OnActivities

LEMMA FlushType ==
    ASSUME NEW new \in ActivityStates, NEW old \in ActivityStates, NEW cur \in ActivityStates
    PROVE  Flush(new, old, cur) \in ActivityStates
<1>1. DOMAIN new = {"status", "assignees"}
    BY DEF ActivityStates
<1>2. Flush(new, old, cur) = [status    |-> IF new.status # old.status THEN new.status ELSE cur.status,
                              assignees |-> IF new.assignees # old.assignees THEN new.assignees
                                            ELSE cur.assignees]
    BY <1>1 DEF Flush
<1> QED BY <1>2 DEF ActivityStates

LEMMA WriteActivityKeeps ==
    ASSUME ConcInv, NEW w \in Workers, WriteActivity(w)
    PROVE  ConcInv'
<1> USE DEF ConcInv
<1> DEFINE q == IF K(w) = "setActivity" THEN "parent" ELSE "commit"
           new == Flush(NewActivity(command[w], loaded[w].acts[S(w)]),
                        existing[w].acts[S(w)], db[A(w)].acts[S(w)])
<1>1. /\ at[w] = "activity" /\ Lock(w) /\ Goto(w, q)
      /\ loaded' = [loaded EXCEPT ![w].acts[S(w)] = new]
      /\ UNCHANGED <<db, command, existing, seen, requests>>
    BY DEF WriteActivity, K
<1>2. K(w) \in OnActivities /\ S(w) \in Slots /\ A(w) \in Assignments
    BY <1>1, CommandTypes DEF PlaceInv, PlaceOf
<1>3. new \in ActivityStates
  <2>1. \A r \in Rows : r.acts[S(w)] \in ActivityStates
      BY <1>2 DEF Rows, ActivityStates
  <2>2. loaded[w] \in Rows /\ existing[w] \in Rows /\ db[A(w)] \in Rows
      BY <1>2 DEF TypeOK
  <2>3. command[w] \in Commands /\ command[w].kind \in OnActivities
      BY <1>2, CommandTypes DEF K
  <2>4. NewActivity(command[w], loaded[w].acts[S(w)]) \in ActivityStates
      BY <2>1, <2>2, <2>3, NewActivityType
  <2> QED BY <2>1, <2>2, <2>4, FlushType
<1> HIDE DEF new
<1>4. loaded' \in [Workers -> Rows]
  <2>1. loaded[w] \in Rows
      BY DEF TypeOK
  <2>2. [loaded[w] EXCEPT !.acts[S(w)] = new] \in Rows
      BY <1>2, <1>3, <2>1 DEF Rows, ActivityStates
  <2> QED BY <1>1, <2>2 DEF TypeOK
<1>5. at'[w] = q /\ K(w)' = K(w) /\ A(w)' = A(w)
    BY <1>1 DEF Goto, TypeOK, K, A
<1>6. PlaceOf(w)'
    BY <1>2, <1>5 DEF PlaceOf, OnActivities
<1>7. LocksOf(w)'
  <2>1. locks'[w] = locks[w] \union {ActivityRow(A(w), S(w))} /\ locks'[w] \subseteq RowsOf(w)
      BY <1>1, LockTakes DEF Wanted, LocksInv, LocksOf
  <2>2. AssignmentRow(A(w)) \notin locks'[w]
      BY <1>1, <2>1, RowsDiffer DEF LocksInv, LocksOf
  <2> QED BY <1>2, <1>5, <2>1, <2>2 DEF LocksOf, RowsOf, OnActivities
<1>8. q \in Places \ {"idle"}
    BY DEF Places
<1> HIDE DEF q
<1>9. existing' \in [Workers -> Rows] /\ seen' \in [Workers -> [total: Nat, active: Nat]]
    BY <1>1 DEF TypeOK
<1> QED BY <1>1, <1>4, <1>6, <1>7, <1>8, <1>9, LockTakes, MoveKeeps

LEMMA LoadParentKeeps ==
    ASSUME ConcInv, NEW w \in Workers, LoadParent(w)
    PROVE  ConcInv'
<1> USE DEF ConcInv
<1> DEFINE q == IF NewStatus(w, Parent(w)) = Parent(w).status THEN "commit" ELSE SaveRow
<1>1. /\ at[w] = "parent" /\ Goto(w, q)
      /\ loaded' = [loaded EXCEPT ![w] = Parent(w)]
      /\ existing' = [existing EXCEPT ![w] = Parent(w)]
      /\ UNCHANGED <<db, command, seen, locks, requests>>
    BY DEF LoadParent
<1>2. K(w) = "setActivity" /\ S(w) \in Slots /\ A(w) \in Assignments
    BY <1>1, CommandTypes DEF PlaceInv, PlaceOf, OnActivities
<1>3. Parent(w) \in Rows
  <2>1. loaded[w] \in Rows /\ db[A(w)] \in Rows
      BY <1>2 DEF TypeOK
  <2>2. [db[A(w)] EXCEPT !.acts[S(w)] = loaded[w].acts[S(w)]] \in Rows
      BY <1>2, <2>1 DEF Rows
  <2> QED BY <2>1, <2>2 DEF Parent
<1>4. loaded' \in [Workers -> Rows] /\ existing' \in [Workers -> Rows]
    BY <1>1, <1>3 DEF TypeOK
<1>5. q \in Places \ {"idle"} /\ q \in {"commit", "row", "find row"}
    BY DEF Places, SaveRow
<1>6. at'[w] = q /\ K(w)' = K(w) /\ A(w)' = A(w) /\ locks' = locks
    BY <1>1 DEF Goto, TypeOK, K, A
<1> HIDE DEF q
<1>7. PlaceOf(w)'
    BY <1>2, <1>5, <1>6 DEF PlaceOf, OnActivities
<1>8. LocksOf(w)'
    BY <1>1, <1>2, <1>5, <1>6 DEF LocksInv, LocksOf, RowsOf
<1> QED BY <1>1, <1>4, <1>5, <1>7, <1>8, MoveKeeps DEF TypeOK

LEMMA UpdateRowKeeps ==
    ASSUME ConcInv, NEW w \in Workers, UpdateRow(w)
    PROVE  ConcInv'
<1> USE DEF ConcInv
<1> DEFINE new == [status |-> NewStatus(w, loaded[w]), assignee |-> NewAssignee(w)]
           row == IF IsLive(db[A(w)]) THEN Flush(new, existing[w], db[A(w)]) ELSE new
<1>1. /\ at[w] = "row" /\ Lock(w) /\ Goto(w, "acts")
      /\ loaded' = [loaded EXCEPT ![w].status = row.status, ![w].assignee = row.assignee]
      /\ UNCHANGED <<db, command, existing, seen, requests>>
    BY DEF UpdateRow
<1>2. /\ command[w] \in Commands /\ K(w) \in {"assign", "setStatus", "setActivity"}
      /\ K(w) = "assign" => command[w].arg \in DOMAIN PerimeterOf
      /\ K(w) = "setStatus" => command[w].arg \in Status
      /\ loaded[w] \in Rows /\ db[A(w)] \in Rows /\ A(w) \in Assignments
    BY <1>1, CommandTypes, RequestsAssumption DEF PlaceInv, PlaceOf, TypeOK, K
<1>3. /\ loaded[w].status \in Status /\ loaded[w].assignee \in DOMAIN PerimeterOf
      /\ db[A(w)].status \in Status /\ db[A(w)].assignee \in DOMAIN PerimeterOf
    BY <1>2 DEF Rows
<1>4. NewStatus(w, loaded[w]) \in Status /\ NewAssignee(w) \in DOMAIN PerimeterOf
  <2>1. CascadeTo(loaded[w].status, command[w].arg) \in Status
      BY <1>3 DEF CascadeTo, Status
  <2> QED BY <1>2, <1>3, <2>1 DEF NewStatus, NewAssignee, Status, K
<1>5. row.status \in Status /\ row.assignee \in DOMAIN PerimeterOf
  <2>1. CASE IsLive(db[A(w)])
    <3>1. DOMAIN new = {"status", "assignee"}
        OBVIOUS
    <3>2. /\ row.status = IF new.status # existing[w].status THEN new.status ELSE db[A(w)].status
          /\ row.assignee = IF new.assignee # existing[w].assignee THEN new.assignee
                            ELSE db[A(w)].assignee
        BY <2>1, <3>1 DEF Flush
    <3> QED BY <1>3, <1>4, <3>2
  <2>2. CASE ~ IsLive(db[A(w)])
      BY <1>4, <2>2
  <2> QED BY <2>1, <2>2
<1> HIDE DEF row
<1>6. loaded' \in [Workers -> Rows]
  <2>1. [loaded[w] EXCEPT !.status = row.status, !.assignee = row.assignee] \in Rows
      BY <1>2, <1>5 DEF Rows
  <2> QED BY <1>1, <2>1 DEF TypeOK
<1>7. at'[w] = "acts" /\ K(w)' = K(w) /\ A(w)' = A(w)
    BY <1>1 DEF Goto, TypeOK, K, A
<1>8. PlaceOf(w)'
    BY <1>2, <1>7 DEF PlaceOf
<1>9. LocksOf(w)'
  <2>1. locks'[w] = locks[w] \union {AssignmentRow(A(w))} /\ locks'[w] \subseteq RowsOf(w)
      BY <1>1, LockTakes DEF Wanted, LocksInv, LocksOf
  <2> QED BY <1>7, <2>1 DEF LocksOf, RowsOf
<1>10. existing' \in [Workers -> Rows] /\ seen' \in [Workers -> [total: Nat, active: Nat]]
    BY <1>1 DEF TypeOK
<1> QED BY <1>1, <1>6, <1>8, <1>9, <1>10, LockTakes, MoveKeeps DEF Places

LEMMA RewriteActivitiesKeeps ==
    ASSUME ConcInv, NEW w \in Workers, RewriteActivities(w)
    PROVE  ConcInv'
<1> USE DEF ConcInv
<1>1. /\ at[w] = "acts" /\ Lock(w) /\ Goto(w, "commit")
      /\ UNCHANGED <<db, command, loaded, existing, seen, requests>>
    BY DEF RewriteActivities
<1>2. at'[w] = "commit" /\ K(w)' = K(w) /\ A(w)' = A(w)
    BY <1>1 DEF Goto, TypeOK, K, A
<1>3. /\ locks'[w] = locks[w] \union Wanted(w) /\ locks'[w] \subseteq RowsOf(w)
      /\ AssignmentRow(A(w)) \in locks'[w]
    BY <1>1, LockTakes DEF LocksInv, LocksOf
<1>4. K(w) # "create"
    BY <1>1 DEF PlaceInv, PlaceOf
<1>5. PlaceOf(w)' /\ LocksOf(w)'
    BY <1>2, <1>3, <1>4 DEF PlaceOf, LocksOf, RowsOf
<1> QED BY <1>1, <1>5, LockTakes, MoveKeeps DEF TypeOK, Places

LEMMA EraseKeeps ==
    ASSUME ConcInv, NEW w \in Workers, Erase(w)
    PROVE  ConcInv'
<1> USE DEF ConcInv
<1>1. PICK q \in {"erase row", "commit"} :
          /\ at[w] = IF q = "commit" THEN "erase row" ELSE "erase"
          /\ Goto(w, q)
    BY DEF Erase
<1>2. Lock(w) /\ UNCHANGED <<db, command, loaded, existing, seen, requests>>
    BY DEF Erase
<1>3. at'[w] = q /\ K(w)' = K(w) /\ A(w)' = A(w) /\ K(w) = "delete"
    BY <1>1, <1>2 DEF Goto, TypeOK, K, A, PlaceInv, PlaceOf
<1>4. /\ locks'[w] = locks[w] \union Wanted(w) /\ locks'[w] \subseteq RowsOf(w)
      /\ q = "commit" => AssignmentRow(A(w)) \in locks'[w]
    BY <1>1, <1>2, LockTakes DEF LocksInv, LocksOf, Wanted
<1>5. PlaceOf(w)' /\ LocksOf(w)'
    BY <1>3, <1>4 DEF PlaceOf, LocksOf, RowsOf
<1> QED BY <1>1, <1>2, <1>5, LockTakes, MoveKeeps DEF TypeOK, Places

-----------------------------------------------------------------------------
(* The end of a transaction: the worker is idle, its locks are free, and   *)
(* it has changed no assignment but its own.                               *)
LEMMA EndKeeps ==
    ASSUME ConcInv, NEW w \in Workers, at[w] # "idle", Ended(w),
           at' \in [Workers -> Places], at'[w] = "idle",
           \A x \in Workers : x # w => at'[x] = at[x] \/ (at[x] # "idle" /\ at'[x] = "missed"),
           db' \in [Assignments -> Rows],
           \A a \in Assignments : a # A(w) => db'[a] = db[a]
    PROVE  ConcInv'
<1> USE DEF ConcInv
<1>1. /\ \A x \in Workers : locks'[x] = IF x = w THEN {} ELSE locks[x]
      /\ \A x \in Workers : command'[x] = IF x = w THEN NoCommand ELSE command[x]
    BY DEF Ended, TypeOK
<1>2. TypeOK'
  <2>1. loaded' \in [Workers -> Rows] /\ existing' \in [Workers -> Rows]
      BY BlankIsRow DEF Ended, TypeOK
  <2>2. command' \in [Workers -> Commands] /\ locks' \in [Workers -> SUBSET DatabaseRows]
      BY CommandsChosen DEF Ended, TypeOK
  <2>3. seen' \in [Workers -> [total: Nat, active: Nat]] /\ requests' = requests
      BY DEF Ended, TypeOK
  <2>4. \A x \in Workers : at'[x] = "idle" => locks'[x] = {}
      BY <1>1 DEF TypeOK
  <2>5. \A x, y \in Workers : x # y => locks'[x] \intersect locks'[y] = {}
      BY <1>1 DEF TypeOK
  <2> QED BY <2>1, <2>2, <2>3, <2>4, <2>5 DEF TypeOK
<1>3. PlaceOf(w)' /\ LocksOf(w)'
    BY <1>1 DEF PlaceOf, LocksOf
<1>4. ASSUME NEW x \in Workers, x # w PROVE PlaceOf(x)' /\ LocksOf(x)'
  <2>1. locks'[x] = locks[x] /\ K(x)' = K(x) /\ A(x)' = A(x) /\ RowsOf(x)' = RowsOf(x)
      BY <1>1, <1>4 DEF K, A, RowsOf
  <2>2. PlaceOf(x) /\ LocksOf(x)
      BY DEF PlaceInv, LocksInv
  <2>3. CASE at'[x] = at[x]
      BY <2>1, <2>2, <2>3 DEF PlaceOf, LocksOf
  <2>4. CASE at[x] # "idle" /\ at'[x] = "missed"
      BY <2>1, <2>2, <2>4 DEF PlaceOf, LocksOf
  <2> QED BY <1>4, <2>3, <2>4
<1>5. PlaceInv' /\ LocksInv'
    BY <1>3, <1>4 DEF PlaceInv, LocksInv
<1>6. CreateInv'
  <2> SUFFICES ASSUME NEW x \in Workers, at'[x] # "idle", K(x)' = "create"
               PROVE  /\ db'[A(x)'].state = "none"
                      /\ \A y \in Workers : y # x /\ at'[y] # "idle" => A(y)' # A(x)'
      BY DEF CreateInv
  <2>1. x # w /\ at[x] # "idle" /\ K(x) = "create" /\ A(x)' = A(x)
      BY <1>1 DEF K, A
  <2>2. db[A(x)].state = "none" /\ A(x) # A(w)
      BY <2>1 DEF CreateInv
  <2>3. A(x) \in Assignments
      BY CommandTypes
  <2>4. ASSUME NEW y \in Workers, y # x, at'[y] # "idle" PROVE A(y)' # A(x)
    <3>1. y # w /\ at[y] # "idle" /\ A(y)' = A(y)
        BY <2>4, <1>1 DEF A
    <3> QED BY <2>1, <2>4, <3>1 DEF CreateInv
  <2> QED BY <2>1, <2>2, <2>3, <2>4
<1> QED BY <1>2, <1>5, <1>6

LEMMA WrittenIsRow ==
    ASSUME ConcInv, NEW w \in Workers, at[w] = "commit"
    PROVE  Written(w) \in Rows
<1> USE DEF ConcInv
<1>1. A(w) \in Assignments /\ loaded[w] \in Rows /\ db[A(w)] \in Rows
    BY CommandTypes DEF TypeOK
<1>2. CASE K(w) = "delete"
    BY <1>2, BlankIsRow DEF Written, K
<1>3. CASE K(w) # "delete" /\ AssignmentRow(A(w)) \in locks[w]
  <2>1. [loaded[w] EXCEPT !.state = "live"] \in Rows
      BY <1>1 DEF Rows
  <2> QED BY <1>3, <2>1 DEF Written, K
<1>4. CASE K(w) # "delete" /\ AssignmentRow(A(w)) \notin locks[w]
  <2>1. S(w) \in Slots
      BY <1>4, CommandTypes DEF PlaceInv, PlaceOf
  <2>2. [db[A(w)] EXCEPT !.acts[S(w)] = loaded[w].acts[S(w)]] \in Rows
      BY <1>1, <2>1 DEF Rows
  <2> QED BY <1>4, <2>2 DEF Written, K
<1> QED BY <1>2, <1>3, <1>4

LEMMA CommitKeeps ==
    ASSUME ConcInv, NEW w \in Workers, Commit(w)
    PROVE  ConcInv'
<1> USE DEF ConcInv
<1>1. PICK begun \in SUBSET Overtaken(w) :
          at' = [x \in Workers |-> IF x = w THEN "idle"
                                   ELSE IF x \in begun THEN "missed" ELSE at[x]]
    BY DEF Commit
<1>2. at[w] = "commit" /\ db' = [db EXCEPT ![A(w)] = Written(w)] /\ Ended(w)
    BY DEF Commit
<1>3. db' \in [Assignments -> Rows] /\ \A a \in Assignments : a # A(w) => db'[a] = db[a]
    BY <1>2, WrittenIsRow DEF TypeOK
<1>4. \A x \in begun : at[x] # "idle"
    BY <1>1 DEF Overtaken
<1>5. /\ at' \in [Workers -> Places] /\ at'[w] = "idle"
      /\ \A x \in Workers : x # w => at'[x] = at[x] \/ (at[x] # "idle" /\ at'[x] = "missed")
    BY <1>1, <1>4 DEF TypeOK, Places
<1> QED BY <1>2, <1>3, <1>5, EndKeeps

LEMMA RollbackKeeps ==
    ASSUME ConcInv, NEW w \in Workers, Rollback(w)
    PROVE  ConcInv'
<1> USE DEF ConcInv
<1>1. Goto(w, "idle") /\ Ended(w) /\ UNCHANGED db
    BY DEF Rollback
<1>2. at[w] # "idle"
  <2>1. Refused(w) => at[w] # "idle"
      BY DEF Refused
  <2>2. Victim(w) => Wanted(w) # {}
      BY DEF Victim, WaitsFor
  <2>3. Wanted(w) # {} => at[w] # "idle"
      BY DEF Wanted
  <2> QED BY <2>1, <2>2, <2>3 DEF Rollback
<1>3. /\ at' \in [Workers -> Places] /\ at'[w] = "idle"
      /\ \A x \in Workers : x # w => at'[x] = at[x]
    BY <1>1 DEF Goto, TypeOK, Places
<1> QED BY <1>1, <1>2, <1>3, EndKeeps DEF TypeOK

LEMMA ConcInvStep == ConcInv /\ [Next]_vars => ConcInv'
<1> SUFFICES ASSUME ConcInv, [Next]_vars PROVE ConcInv'
    OBVIOUS
<1>1. CASE UNCHANGED vars
    BY <1>1 DEF vars, local, ConcInv, TypeOK, PlaceInv, PlaceOf, LocksInv, LocksOf, CreateInv,
                K, A, RowsOf
<1>2. ASSUME NEW w \in Workers, Start(w) PROVE ConcInv'
    BY <1>2, LoadKeeps, StartCreateKeeps DEF Start
<1>3. ASSUME NEW w \in Workers, Continue(w) PROVE ConcInv'
    BY <1>3, LockMissionKeeps, CheckPolicyKeeps, InsertRowKeeps, FindExistingKeeps,
       WriteActivityKeeps, LoadParentKeeps, UpdateRowKeeps, RewriteActivitiesKeeps, EraseKeeps,
       CommitKeeps, RollbackKeeps DEF Continue
<1> QED BY <1>1, <1>2, <1>3 DEF Next

THEOREM ConcurrentCorrect == Spec => []ConcInv
    BY ConcInvInit, ConcInvStep, PTL DEF Spec

(* Every variable has its type, an idle worker holds no lock, and no row   *)
(* is locked by two transactions, on both databases.                       *)
THEOREM ConcurrentTypeCorrect == Spec => []TypeOK
<1>1. ConcInv => TypeOK
    BY DEF ConcInv
<1> QED BY <1>1, ConcurrentCorrect, PTL

-----------------------------------------------------------------------------
(* MySQL: plain reads come from the snapshot                               *)

LoadedOf(w) ==
    at[w] # "idle" =>
        /\ at[w] \notin {"find row", "find activity", "missed"}
        /\ K(w) # "create" => IsLive(loaded[w]) /\ IsLive(existing[w])

HeldOf(w) ==
    /\ at[w] \in {"acts", "commit"}
    /\ AssignmentRow(A(w)) \in locks[w]
    /\ K(w) \notin {"create", "delete"}
    => IsLive(db[A(w)])

LoadedInv == \A w \in Workers : LoadedOf(w)
HeldInv   == \A w \in Workers : HeldOf(w)

HeldTogether == ConcInv /\ LoadedInv /\ HeldInv

LEMMA HeldInit == SnapshotReads /\ Init => LoadedInv /\ HeldInv
    BY DEF Init, LoadedInv, LoadedOf, HeldInv, HeldOf

(* What a worker does before its commit to itself alone.                   *)
LEMMA OthersKeepHeld ==
    ASSUME HeldTogether, NEW w \in Workers, UNCHANGED db,
           \A x \in Workers : x # w =>
               /\ at'[x] = at[x] /\ command'[x] = command[x] /\ locks'[x] = locks[x]
               /\ loaded'[x] = loaded[x] /\ existing'[x] = existing[x],
           LoadedOf(w)', HeldOf(w)'
    PROVE  LoadedInv' /\ HeldInv'
<1>1. ASSUME NEW x \in Workers, x # w PROVE LoadedOf(x)' /\ HeldOf(x)'
  <2>1. LoadedOf(x) /\ HeldOf(x)
      BY DEF HeldTogether, LoadedInv, HeldInv
  <2> QED BY <1>1, <2>1 DEF LoadedOf, HeldOf, K, A, IsLive
<1> QED BY <1>1 DEF LoadedInv, HeldInv

LEMMA StartKeepsHeld ==
    ASSUME SnapshotReads, HeldTogether, NEW w \in Workers, Start(w)
    PROVE  LoadedInv' /\ HeldInv'
<1> USE DEF HeldTogether
<1>1. PICK c \in Commands : Load(w, c) \/ StartCreate(w, c)
    BY DEF Start
<1>2. CASE Load(w, c)
  <2>1. /\ c.kind # "create" /\ IsLive(db[c.a]) /\ UNCHANGED <<db, locks>>
        /\ at'[w] = FirstWrite(c.kind) /\ command'[w] = c
        /\ loaded'[w] = db[c.a] /\ existing'[w] = db[c.a]
      BY <1>2 DEF Load, ConcInv, TypeOK
  <2>2. FirstWrite(c.kind) \notin {"idle", "find row", "find activity", "missed", "acts", "commit"}
      BY DEF FirstWrite, SaveRow, SaveActivity
  <2>3. LoadedOf(w)' /\ HeldOf(w)'
      BY <2>1, <2>2 DEF LoadedOf, HeldOf, K
  <2>4. \A x \in Workers : x # w =>
            /\ at'[x] = at[x] /\ command'[x] = command[x] /\ locks'[x] = locks[x]
            /\ loaded'[x] = loaded[x] /\ existing'[x] = existing[x]
      BY <1>2 DEF Load, ConcInv, TypeOK
  <2> QED BY <2>1, <2>3, <2>4, OthersKeepHeld
<1>3. CASE StartCreate(w, c)
  <2>1. /\ c.kind = "create" /\ UNCHANGED <<db, locks, loaded, existing>>
        /\ at'[w] = "mission" /\ command'[w] = c
      BY <1>3 DEF StartCreate, ConcInv, TypeOK
  <2>2. LoadedOf(w)' /\ HeldOf(w)'
      BY <2>1 DEF LoadedOf, HeldOf, K
  <2>3. \A x \in Workers : x # w => at'[x] = at[x] /\ command'[x] = command[x]
      BY <1>3 DEF StartCreate, ConcInv, TypeOK
  <2> QED BY <2>1, <2>2, <2>3, OthersKeepHeld
<1> QED BY <1>1, <1>2, <1>3

(* A statement between the load and the commit.                            *)
LEMMA StatementKeepsHeld ==
    ASSUME SnapshotReads, HeldTogether, NEW w \in Workers,
           \/ LockMission(w) \/ CheckPolicy(w) \/ InsertRow(w)
           \/ FindExisting(w) \/ WriteActivity(w) \/ LoadParent(w)
           \/ UpdateRow(w) \/ RewriteActivities(w) \/ Erase(w)
    PROVE  UNCHANGED <<db, command>> /\ LoadedInv' /\ HeldInv'
<1> USE DEF HeldTogether
<1>1. /\ LoadedOf(w) /\ HeldOf(w) /\ PlaceOf(w) /\ LocksOf(w) /\ A(w) \in Assignments
      /\ K(w) \in OnActivities => S(w) \in Slots
    BY CommandTypes DEF LoadedInv, HeldInv, ConcInv, PlaceInv, LocksInv
<1>2. /\ UNCHANGED <<db, command>> /\ K(w)' = K(w) /\ A(w)' = A(w)
      /\ \A x \in Workers : x # w =>
            /\ at'[x] = at[x] /\ command'[x] = command[x] /\ locks'[x] = locks[x]
            /\ loaded'[x] = loaded[x] /\ existing'[x] = existing[x]
  <2>1. CASE LockMission(w)
      BY <2>1 DEF LockMission, TakeMission, Lock, Goto, ConcInv, TypeOK, K, A
  <2>2. CASE CheckPolicy(w)
      BY <2>2 DEF CheckPolicy, Goto, ConcInv, TypeOK, K, A
  <2>3. CASE InsertRow(w)
      BY <2>3 DEF InsertRow, Goto, ConcInv, TypeOK, K, A
  <2>4. CASE FindExisting(w)
      BY <2>4 DEF FindExisting, Goto, ConcInv, TypeOK, K, A
  <2>5. CASE WriteActivity(w)
      BY <2>5 DEF WriteActivity, Lock, Goto, ConcInv, TypeOK, K, A
  <2>6. CASE LoadParent(w)
      BY <2>6 DEF LoadParent, Goto, ConcInv, TypeOK, K, A
  <2>7. CASE UpdateRow(w)
      BY <2>7 DEF UpdateRow, Lock, Goto, ConcInv, TypeOK, K, A
  <2>8. CASE RewriteActivities(w)
      BY <2>8 DEF RewriteActivities, Lock, Goto, ConcInv, TypeOK, K, A
  <2>9. CASE Erase(w)
      BY <2>9 DEF Erase, Lock, Goto, ConcInv, TypeOK, K, A
  <2> QED BY <2>1, <2>2, <2>3, <2>4, <2>5, <2>6, <2>7, <2>8, <2>9
<1>3. LoadedOf(w)' /\ HeldOf(w)'
  <2>1. CASE LockMission(w)
    <3>1. at[w] = "mission" /\ at'[w] = "policy" /\ loaded' = loaded /\ existing' = existing
        BY <2>1 DEF LockMission, Goto, ConcInv, TypeOK
    <3> QED BY <1>1, <1>2, <3>1 DEF LoadedOf, HeldOf
  <2>2. CASE CheckPolicy(w)
    <3>1. /\ at[w] = "policy" /\ at'[w] \in {"insert", "row"}
          /\ loaded' = loaded /\ existing' = existing
        BY <2>2 DEF CheckPolicy, Goto, SaveRow, ConcInv, TypeOK
    <3> QED BY <1>1, <1>2, <3>1 DEF LoadedOf, HeldOf
  <2>3. CASE InsertRow(w)
    <3>1. at[w] = "insert" /\ at'[w] = "commit" /\ K(w) = "create"
        BY <2>3, <1>1 DEF InsertRow, Goto, ConcInv, TypeOK, PlaceOf
    <3> QED BY <1>2, <3>1 DEF LoadedOf, HeldOf
  <2>4. CASE FindExisting(w)
      BY <2>4, <1>1 DEF FindExisting, LoadedOf
  <2>5. CASE WriteActivity(w)
    <3>1. /\ at[w] = "activity" /\ at'[w] \in {"parent", "commit"}
          /\ existing' = existing
        BY <2>5 DEF WriteActivity, Goto, ConcInv, TypeOK
    <3>2. loaded'[w].state = loaded[w].state
      <4>1. loaded[w] \in Rows
          BY DEF ConcInv, TypeOK
      <4> QED BY <2>5, <4>1 DEF WriteActivity, ConcInv, TypeOK, Rows
    <3>3. locks'[w] = locks[w] \union {ActivityRow(A(w), S(w))}
        BY <2>5, <3>1, LockTakes DEF WriteActivity, Wanted
    <3>4. AssignmentRow(A(w)) \notin locks'[w]
        BY <1>1, <3>1, <3>3, RowsDiffer DEF LocksOf
    <3> QED BY <1>1, <1>2, <3>1, <3>2, <3>4 DEF LoadedOf, HeldOf, IsLive
  <2>6. CASE LoadParent(w)
    <3>1. /\ at[w] = "parent" /\ at'[w] \in {"commit", "row"} /\ locks' = locks
          /\ loaded'[w] = loaded[w] /\ existing'[w] = loaded[w]
        BY <2>6 DEF LoadParent, Parent, SaveRow, Goto, ConcInv, TypeOK
    <3> QED BY <1>1, <1>2, <3>1 DEF LoadedOf, HeldOf, LocksOf
  <2>7. CASE UpdateRow(w)
    <3>1. /\ at[w] = "row" /\ at'[w] = "acts" /\ existing' = existing /\ RowFound(w)
        BY <2>7 DEF UpdateRow, Goto, ConcInv, TypeOK
    <3>2. loaded'[w].state = loaded[w].state
      <4>1. loaded[w] \in Rows
          BY DEF ConcInv, TypeOK
      <4> QED BY <2>7, <4>1 DEF UpdateRow, ConcInv, TypeOK, Rows
    <3>3. K(w) # "create" => IsLive(db[A(w)])
        BY <1>1, <3>1 DEF RowFound, LoadedOf
    <3> QED BY <1>1, <1>2, <3>1, <3>2, <3>3 DEF LoadedOf, HeldOf, IsLive
  <2>8. CASE RewriteActivities(w)
    <3>1. /\ at[w] = "acts" /\ at'[w] = "commit" /\ loaded' = loaded /\ existing' = existing
        BY <2>8 DEF RewriteActivities, Goto, ConcInv, TypeOK
    <3> QED BY <1>1, <1>2, <3>1 DEF LoadedOf, HeldOf, LocksOf
  <2>9. CASE Erase(w)
    <3>1. /\ at[w] \in {"erase", "erase row"} /\ at'[w] \in {"erase row", "commit"}
          /\ loaded' = loaded /\ existing' = existing
        BY <2>9 DEF Erase, Goto, ConcInv, TypeOK
    <3> QED BY <1>1, <1>2, <3>1 DEF LoadedOf, HeldOf, PlaceOf
  <2> QED BY <2>1, <2>2, <2>3, <2>4, <2>5, <2>6, <2>7, <2>8, <2>9
<1> QED BY <1>2, <1>3, OthersKeepHeld DEF HeldTogether

(* What a commit may do to the state of its assignment.                    *)
LEMMA CommitChanges ==
    ASSUME HeldTogether, NEW w \in Workers, Commit(w)
    PROVE  /\ A(w) \in Assignments /\ at[w] = "commit"
           /\ \A a \in Assignments : a # A(w) => db'[a] = db[a]
           /\ \/ K(w) = "create" /\ db[A(w)].state = "none" /\ db'[A(w)].state = "live"
              \/ K(w) = "delete" /\ db'[A(w)].state = "gone" /\ AssignmentRow(A(w)) \in locks[w]
              \/ K(w) \notin {"create", "delete"} /\ db'[A(w)].state = db[A(w)].state
<1> USE DEF HeldTogether
<1>1. /\ A(w) \in Assignments /\ at[w] = "commit" /\ db[A(w)] \in Rows /\ loaded[w] \in Rows
      /\ PlaceOf(w) /\ HeldOf(w)
    BY CommandTypes DEF Commit, ConcInv, TypeOK, PlaceInv, HeldInv
<1>2. db'[A(w)] = Written(w) /\ \A a \in Assignments : a # A(w) => db'[a] = db[a]
    BY <1>1 DEF Commit, ConcInv, TypeOK
<1>3. K(w) = "create" \/ K(w) = "delete" => AssignmentRow(A(w)) \in locks[w]
    BY <1>1 DEF PlaceOf, OnActivities
<1>4. CASE K(w) = "delete"
    BY <1>1, <1>2, <1>3, <1>4, BlankIsRow DEF Written, K
<1>5. CASE K(w) # "delete" /\ AssignmentRow(A(w)) \in locks[w]
  <2>1. Written(w).state = "live"
      BY <1>1, <1>5 DEF Written, K, Rows
  <2>2. K(w) = "create" => db[A(w)].state = "none"
      BY <1>1 DEF ConcInv, CreateInv
  <2>3. K(w) # "create" => db[A(w)].state = "live"
      BY <1>1, <1>5 DEF HeldOf, IsLive
  <2> QED BY <1>1, <1>2, <1>5, <2>1, <2>2, <2>3
<1>6. CASE AssignmentRow(A(w)) \notin locks[w]
  <2>1. Written(w).state = db[A(w)].state
      BY <1>1, <1>3, <1>6 DEF Written, K, Rows
  <2> QED BY <1>1, <1>2, <1>3, <1>6, <2>1
<1> QED BY <1>4, <1>5, <1>6

LEMMA EndKeepsHeld ==
    ASSUME SnapshotReads, HeldTogether, NEW w \in Workers, Commit(w) \/ Rollback(w)
    PROVE  LoadedInv' /\ HeldInv'
<1> USE DEF HeldTogether
<1>1. Ended(w)
    BY DEF Commit, Rollback
<1>2. at'[w] = "idle" /\ \A x \in Workers : x # w => at'[x] = at[x]
  <2>1. CASE Rollback(w)
      BY <2>1 DEF Rollback, Goto, ConcInv, TypeOK
  <2>2. CASE Commit(w)
    <3>1. Overtaken(w) = {}
        BY DEF Overtaken
    <3> QED BY <2>2, <3>1 DEF Commit
  <2> QED BY <2>1, <2>2
<1>3. \A x \in Workers : x # w =>
            /\ command'[x] = command[x] /\ locks'[x] = locks[x]
            /\ loaded'[x] = loaded[x] /\ existing'[x] = existing[x]
    BY <1>1 DEF Ended, ConcInv, TypeOK
<1>4. ASSUME NEW x \in Workers PROVE LoadedOf(x)' /\ HeldOf(x)'
  <2>1. CASE x = w
      BY <1>2, <2>1 DEF LoadedOf, HeldOf
  <2>2. CASE x # w
    <3>1. /\ LoadedOf(x) /\ HeldOf(x) /\ A(x)' = A(x) /\ K(x)' = K(x)
          /\ A(x) \in Assignments
        BY <1>3, <2>2, CommandTypes DEF LoadedInv, HeldInv, A, K, ConcInv
    <3>2. LoadedOf(x)'
        BY <1>2, <1>3, <2>2, <3>1 DEF LoadedOf
    <3>3. CASE Rollback(w)
        BY <1>2, <1>3, <2>2, <3>1, <3>2, <3>3 DEF Rollback, HeldOf, IsLive
    <3>4. CASE Commit(w)
      <4>1. SUFFICES ASSUME at[x] \in {"acts", "commit"}, AssignmentRow(A(x)) \in locks[x],
                            K(x) \notin {"create", "delete"}
                     PROVE  IsLive(db'[A(x)])
          BY <1>2, <1>3, <2>2, <3>1, <3>2 DEF HeldOf, IsLive
      <4>2. IsLive(db[A(x)])
          BY <3>1, <4>1 DEF HeldOf
      <4>3. CASE A(x) # A(w)
          BY <3>1, <3>4, <4>2, <4>3, CommitChanges
      <4>4. CASE A(x) = A(w)
        <5>1. AssignmentRow(A(w)) \notin locks[w]
            BY <2>2, <4>1, <4>4 DEF ConcInv, TypeOK
        <5>2. K(w) # "create"
            BY <2>2, <3>4, <4>1, <4>4 DEF ConcInv, CreateInv, Commit
        <5>3. db'[A(w)].state = db[A(w)].state
            BY <3>4, <5>1, <5>2, CommitChanges
        <5> QED BY <4>2, <4>4, <5>3 DEF IsLive
      <4> QED BY <4>3, <4>4
    <3> QED BY <3>2, <3>3, <3>4
  <2> QED BY <2>1, <2>2
<1> QED BY <1>4 DEF LoadedInv, HeldInv

LEMMA HeldStep ==
    ASSUME SnapshotReads, HeldTogether, [Next]_vars
    PROVE  HeldTogether'
<1>1. ConcInv'
    BY ConcInvStep DEF HeldTogether
<1>2. CASE UNCHANGED vars
    BY <1>1, <1>2 DEF HeldTogether, LoadedInv, LoadedOf, HeldInv, HeldOf, K, A, IsLive, vars, local
<1>3. ASSUME NEW w \in Workers, Start(w) PROVE LoadedInv' /\ HeldInv'
    BY <1>3, StartKeepsHeld
<1>4. ASSUME NEW w \in Workers, Continue(w) PROVE LoadedInv' /\ HeldInv'
    BY <1>4, StatementKeepsHeld, EndKeepsHeld DEF Continue
<1> QED BY <1>1, <1>2, <1>3, <1>4 DEF HeldTogether, Next

THEOREM HeldCorrect ==
    ASSUME SnapshotReads
    PROVE  Spec => []HeldTogether
<1>1. Init => HeldTogether
    BY ConcInvInit, HeldInit DEF HeldTogether
<1>2. HeldTogether /\ [Next]_vars => HeldTogether'
    BY HeldStep
<1> QED BY <1>1, <1>2, PTL DEF Spec

(* On MySQL a deleted assignment never comes back, although other          *)
(* transactions loaded it before: an UPDATE does not find the row, and no  *)
(* save() inserts one it has loaded.                                       *)
THEOREM DeletedIsGone ==
    ASSUME SnapshotReads
    PROVE  Spec => DeletedStaysDeleted
<1> DEFINE Stays == \A a \in Assignments : db[a].state = "gone" => db'[a].state = "gone"
<1>1. ASSUME HeldTogether, Next PROVE Stays
  <2>1. PICK w \in Workers : Start(w) \/ Continue(w)
      BY <1>1 DEF Next
  <2>2. CASE UNCHANGED db
      BY <2>2
  <2>3. CASE Commit(w)
      BY <1>1, <2>3, CommitChanges
  <2>4. UNCHANGED db \/ Commit(w)
      BY <2>1 DEF Start, Load, StartCreate, Continue, LockMission, CheckPolicy, InsertRow,
                  FindExisting, WriteActivity, LoadParent, UpdateRow, RewriteActivities, Erase,
                  Rollback
  <2> QED BY <2>2, <2>3, <2>4
<1>2. HeldTogether /\ [Next]_vars => [Stays]_vars
    BY <1>1
<1>3. Spec => []HeldTogether
    BY HeldCorrect
<1> QED BY <1>2, <1>3, PTL DEF Spec, DeletedStaysDeleted

-----------------------------------------------------------------------------
(* max_total on MySQL                                                      *)

RoomOf(w) ==
    K(w) = "create" =>
        /\ at[w] = "policy" => Cardinality(Live) <= seen[w].total
        /\ at[w] \in {"insert", "commit"} => Cardinality(Live) < MaxTotal

RoomInv ==
    MaxTotal # 0 => Cardinality(Live) <= MaxTotal /\ \A w \in Workers : RoomOf(w)

LEMMA RoomInit == Init => RoomInv
<1> SUFFICES ASSUME Init, MaxTotal # 0
             PROVE  Cardinality(Live) <= MaxTotal /\ \A w \in Workers : RoomOf(w)
    BY DEF RoomInv
<1>1. Cardinality({a \in Assignments : IsLive(db[a])}) <= MaxTotal
    BY RequestsAssumption DEF Init
<1>2. \A w \in Workers : RoomOf(w)
    BY DEF Init, RoomOf
<1> QED BY <1>1, <1>2 DEF Live

(* A step that leaves the database alone, and does not bring a worker      *)
(* nearer to its insert.                                                   *)
LEMMA RoomKept ==
    ASSUME RoomInv, NEW w \in Workers, UNCHANGED db,
           \A x \in Workers : x # w =>
               at'[x] = at[x] /\ command'[x] = command[x] /\ seen'[x] = seen[x],
           MaxTotal # 0 => RoomOf(w)'
    PROVE  RoomInv'
<1>1. Live' = Live
    BY DEF Live, IsLive
<1>2. ASSUME MaxTotal # 0, NEW x \in Workers, x # w PROVE RoomOf(x)'
    BY <1>1, <1>2 DEF RoomInv, RoomOf, K
<1> QED BY <1>1, <1>2 DEF RoomInv

LEMMA StartKeepsRoom ==
    ASSUME HeldTogether, RoomInv, NEW w \in Workers, Start(w)
    PROVE  RoomInv'
<1> USE DEF HeldTogether
<1>1. PICK c \in Commands : Load(w, c) \/ StartCreate(w, c)
    BY DEF Start
<1>2. UNCHANGED db /\ \A x \in Workers : x # w =>
               at'[x] = at[x] /\ command'[x] = command[x] /\ seen'[x] = seen[x]
    BY <1>1 DEF Load, StartCreate, ConcInv, TypeOK
<1>3. at'[w] \notin {"policy", "insert", "commit"}
  <2>1. FirstWrite(c.kind) \notin {"policy", "insert", "commit"}
      BY DEF FirstWrite, SaveRow, SaveActivity
  <2> QED BY <1>1, <2>1 DEF Load, StartCreate, ConcInv, TypeOK
<1>4. RoomOf(w)'
    BY <1>3 DEF RoomOf
<1> QED BY <1>2, <1>4, RoomKept

LEMMA StatementKeepsRoom ==
    ASSUME SnapshotReads, HeldTogether, RoomInv, NEW w \in Workers,
           \/ LockMission(w) \/ CheckPolicy(w) \/ InsertRow(w)
           \/ FindExisting(w) \/ WriteActivity(w) \/ LoadParent(w)
           \/ UpdateRow(w) \/ RewriteActivities(w) \/ Erase(w)
    PROVE  RoomInv'
<1> USE DEF HeldTogether
<1>1. /\ UNCHANGED <<db, command>> /\ K(w)' = K(w)
      /\ \A x \in Workers : x # w => at'[x] = at[x] /\ seen'[x] = seen[x]
    BY StatementKeepsHeld DEF LockMission, CheckPolicy, InsertRow, FindExisting, WriteActivity,
       LoadParent, UpdateRow, RewriteActivities, Erase, Goto, ConcInv, TypeOK, K
<1>2. Live' = Live
    BY <1>1 DEF Live, IsLive
<1>3. ASSUME MaxTotal # 0, K(w) = "create" PROVE RoomOf(w)'
  <2>1. PlaceOf(w) /\ RoomOf(w) /\ LoadedOf(w)
      BY <1>3 DEF ConcInv, PlaceInv, RoomInv, LoadedInv
  <2>2. CASE LockMission(w)
    <3>1. at'[w] = "policy" /\ seen'[w] = Counts
        BY <2>2, <1>3 DEF LockMission, Goto, ConcInv, TypeOK, K
    <3>2. Counts.total = Cardinality(Live) /\ Cardinality(Live) \in Nat
        BY CountsAreNumbers, FS_CardinalityType DEF ConcInv
    <3> QED BY <1>2, <3>1, <3>2 DEF RoomOf
  <2>3. CASE CheckPolicy(w)
    <3>1. at[w] = "policy" /\ PolicyAllows(w) /\ at'[w] = "insert"
        BY <2>3, <1>3 DEF CheckPolicy, Goto, ConcInv, TypeOK, K
    <3>2. seen[w].total < MaxTotal
        BY <1>3, <3>1 DEF PolicyAllows, K
    <3>3. seen[w].total \in Nat /\ Cardinality(Live) \in Nat /\ MaxTotal \in Nat
        BY ConcurrencyAssumption, CountsAreNumbers, FS_CardinalityType DEF ConcInv, TypeOK
    <3>4. Cardinality(Live) < MaxTotal
        BY <1>3, <2>1, <3>1, <3>2, <3>3 DEF RoomOf
    <3> QED BY <1>2, <3>1, <3>4 DEF RoomOf
  <2>4. CASE InsertRow(w)
    <3>1. at[w] = "insert" /\ at'[w] = "commit"
        BY <2>4 DEF InsertRow, Goto, ConcInv, TypeOK
    <3> QED BY <1>2, <1>3, <2>1, <3>1 DEF RoomOf
  <2>5. ~ (FindExisting(w) \/ WriteActivity(w) \/ LoadParent(w) \/ UpdateRow(w)
              \/ RewriteActivities(w) \/ Erase(w))
      BY <1>3, <2>1 DEF PlaceOf, FindExisting, WriteActivity, LoadParent, UpdateRow,
         RewriteActivities, Erase, OnActivities
  <2> QED BY <2>2, <2>3, <2>4, <2>5
<1>4. MaxTotal # 0 => RoomOf(w)'
    BY <1>1, <1>3 DEF RoomOf
<1> QED BY <1>1, <1>4, RoomKept DEF K

LEMMA EndKeepsRoom ==
    ASSUME SnapshotReads, HeldTogether, RoomInv, NEW w \in Workers, Commit(w) \/ Rollback(w)
    PROVE  RoomInv'
<1> USE DEF HeldTogether
<1> SUFFICES ASSUME MaxTotal # 0
             PROVE  Cardinality(Live)' <= MaxTotal /\ \A x \in Workers : RoomOf(x)'
    BY DEF RoomInv
<1>1. at'[w] = "idle" /\ \A x \in Workers : x # w => at'[x] = at[x]
  <2>1. CASE Rollback(w)
      BY <2>1 DEF Rollback, Goto, ConcInv, TypeOK
  <2>2. CASE Commit(w)
    <3>1. Overtaken(w) = {}
        BY DEF Overtaken
    <3> QED BY <2>2, <3>1 DEF Commit
  <2> QED BY <2>1, <2>2
<1>2. \A x \in Workers : x # w => K(x)' = K(x) /\ seen'[x] = seen[x]
    BY DEF Commit, Rollback, Ended, ConcInv, TypeOK, K
<1>3. /\ IsFiniteSet(Live) /\ Cardinality(Live) \in Nat /\ MaxTotal \in Nat
      /\ \A x \in Workers : seen[x].total \in Nat
    BY CountsAreNumbers, FS_CardinalityType, ConcurrencyAssumption DEF ConcInv, TypeOK
<1>4. CASE Live' \subseteq Live
  <2>1. Cardinality(Live') <= Cardinality(Live) /\ Cardinality(Live') \in Nat
      BY <1>3, <1>4, FS_Subset, FS_CardinalityType
  <2>2. ASSUME NEW x \in Workers PROVE RoomOf(x)'
    <3>1. CASE x = w
        BY <1>1, <3>1 DEF RoomOf
    <3>2. CASE x # w
      <4>1. RoomOf(x) /\ at'[x] = at[x] /\ K(x)' = K(x) /\ seen'[x] = seen[x]
            /\ seen[x].total \in Nat
          BY <1>1, <1>2, <1>3, <3>2 DEF RoomInv
      <4> QED BY <1>3, <2>1, <4>1 DEF RoomOf
    <3> QED BY <3>1, <3>2
  <2>3. Cardinality(Live) <= MaxTotal
      BY DEF RoomInv
  <2> QED BY <1>3, <2>1, <2>2, <2>3
<1>5. CASE Commit(w) /\ K(w) = "create"
  <2>1. Live' = Live \union {A(w)} /\ A(w) \notin Live
    <3>1. /\ A(w) \in Assignments /\ db[A(w)].state = "none" /\ db'[A(w)].state = "live"
          /\ \A a \in Assignments : a # A(w) => db'[a] = db[a]
        BY <1>5, CommitChanges
    <3> QED BY <3>1 DEF Live, IsLive
  <2>2. Cardinality(Live') = Cardinality(Live) + 1
      BY <1>3, <2>1, FS_AddElement
  <2>3. Cardinality(Live) < MaxTotal
      BY <1>5 DEF RoomInv, RoomOf, Commit
  <2>4. MissionRow \in locks[w]
      BY <1>5 DEF ConcInv, LocksInv, LocksOf, Commit
  <2>5. ASSUME NEW x \in Workers PROVE RoomOf(x)'
    <3>1. CASE x = w
        BY <1>1, <3>1 DEF RoomOf
    <3>2. CASE x # w
      <4>1. MissionRow \notin locks[x]
          BY <2>4, <3>2 DEF ConcInv, TypeOK
      <4>2. at[x] \notin {"policy", "insert"} /\ ~ (at[x] = "commit" /\ K(x) = "create")
          BY <4>1 DEF ConcInv, LocksInv, LocksOf
      <4> QED BY <1>1, <1>2, <3>2, <4>2 DEF RoomOf
    <3> QED BY <3>1, <3>2
  <2> QED BY <1>3, <2>2, <2>3, <2>5
<1>6. Live' \subseteq Live \/ (Commit(w) /\ K(w) = "create")
  <2>1. CASE Rollback(w)
      BY <2>1 DEF Rollback, Live, IsLive
  <2>2. CASE Commit(w) /\ K(w) # "create"
    <3>1. \A a \in Assignments : db'[a].state = "live" => db[a].state = "live"
        BY <2>2, CommitChanges
    <3> QED BY <3>1 DEF Live, IsLive
  <2> QED BY <2>1, <2>2
<1> QED BY <1>4, <1>5, <1>6

LEMMA RoomStep ==
    ASSUME SnapshotReads, HeldTogether, RoomInv, [Next]_vars
    PROVE  RoomInv'
<1>1. CASE UNCHANGED vars
    BY <1>1 DEF RoomInv, RoomOf, K, Live, IsLive, vars, local
<1>2. ASSUME NEW w \in Workers, Start(w) PROVE RoomInv'
    BY <1>2, StartKeepsRoom
<1>3. ASSUME NEW w \in Workers, Continue(w) PROVE RoomInv'
    BY <1>3, StatementKeepsRoom, EndKeepsRoom DEF Continue
<1> QED BY <1>1, <1>2, <1>3 DEF Next

(* On MySQL max_total holds however many creations overlap.                *)
THEOREM TotalHolds ==
    ASSUME SnapshotReads
    PROVE  Spec => []TotalRespected
<1>1. HeldTogether /\ RoomInv /\ [Next]_vars => RoomInv'
    BY RoomStep
<1>2. HeldTogether /\ RoomInv => TotalRespected
    BY CountsAreNumbers DEF HeldTogether, ConcInv, RoomInv, TotalRespected
<1>3. Spec => []HeldTogether
    BY HeldCorrect
<1> QED BY <1>1, <1>2, <1>3, RoomInit, PTL DEF Spec

-----------------------------------------------------------------------------
(* max_concurrent on PostgreSQL                                            *)

(* Every command but a request of a status: create() and assign() alone    *)
(* make an assignment operative then.                                      *)
NoStatusRequests == \A c \in Commands : c.kind \notin {"setStatus", "setActivity"}

Operative == {a \in Live : db[a].status \in Active}

(* A worker that has passed the policy and has something to write to the   *)
(* row of its assignment.                                                  *)
Admitted(w) ==
    \/ at[w] \in {"insert", "find row", "row", "acts"}
    \/ at[w] = "commit" /\ K(w) \in {"create", "assign"}

(* It keeps the mission locked, so that there is room until its commit.    *)
PolicyOf(w) ==
    /\ Admitted(w) =>
          /\ MissionRow \in locks[w]
          /\ MaxConcurrent # 0 /\ command[w].arg # NoOne => Cardinality(Operative) < MaxConcurrent
    /\ at[w] = "commit" /\ K(w) = "create" /\ command[w].arg = NoOne =>
          loaded[w].status = "UNASSIGNED"
    /\ at[w] = "commit" /\ K(w) \in OnActivities => AssignmentRow(A(w)) \notin locks[w]

PolicyInv ==
    /\ MaxConcurrent # 0 => Cardinality(Operative) <= MaxConcurrent
    /\ \A w \in Workers : PolicyOf(w)

OnPostgres == ~ SnapshotReads /\ NoStatusRequests

LEMMA OperativeFinite ==
    ASSUME TypeOK
    PROVE  /\ IsFiniteSet(Operative) /\ Cardinality(Operative) \in Nat
           /\ Counts.active = Cardinality(Operative)
<1>1. IsFiniteSet(Operative)
    BY RequestsAssumption, FS_Subset DEF Operative, Live
<1> QED BY <1>1, FS_CardinalityType DEF Counts, Operative

LEMMA PolicyInit == Init => PolicyInv
<1> SUFFICES ASSUME Init PROVE PolicyInv
    OBVIOUS
<1>1. MaxConcurrent # 0 =>
          Cardinality({a \in {b \in Assignments : IsLive(db[b])} : db[a].status \in Active})
              <= MaxConcurrent
    BY RequestsAssumption DEF Init
<1>2. \A w \in Workers : PolicyOf(w)
    BY DEF Init, PolicyOf, Admitted
<1> QED BY <1>1, <1>2 DEF PolicyInv, Operative, Live

(* A step that leaves the database alone.                                  *)
LEMMA PolicyKept ==
    ASSUME PolicyInv, NEW w \in Workers, UNCHANGED db,
           \A x \in Workers : x # w =>
               /\ at'[x] = at[x] /\ command'[x] = command[x]
               /\ loaded'[x] = loaded[x] /\ locks'[x] = locks[x],
           PolicyOf(w)'
    PROVE  PolicyInv'
<1>1. Operative' = Operative
    BY DEF Operative, Live, IsLive
<1>2. ASSUME NEW x \in Workers, x # w PROVE PolicyOf(x)'
  <2>1. PolicyOf(x)
      BY DEF PolicyInv
  <2> QED BY <1>1, <1>2, <2>1 DEF PolicyOf, Admitted, K, A
<1> QED BY <1>1, <1>2 DEF PolicyInv

LEMMA StartKeepsPolicy ==
    ASSUME OnPostgres, ConcInv, PolicyInv, NEW w \in Workers, Start(w)
    PROVE  PolicyInv'
<1> USE DEF OnPostgres
<1>1. PICK c \in Commands : Load(w, c) \/ StartCreate(w, c)
    BY DEF Start
<1>2. UNCHANGED db /\ \A x \in Workers : x # w =>
               /\ at'[x] = at[x] /\ command'[x] = command[x]
               /\ loaded'[x] = loaded[x] /\ locks'[x] = locks[x]
    BY <1>1 DEF Load, StartCreate, ConcInv, TypeOK
<1>3. at'[w] \notin {"insert", "find row", "row", "acts", "commit"}
  <2>1. c.kind \in {"create", "assign", "delete"} \union {"staff", "unstaff"}
      BY RequestsAssumption DEF NoStatusRequests, OnActivities
  <2>2. FirstWrite(c.kind) \notin {"insert", "find row", "row", "acts", "commit"}
      BY <2>1 DEF FirstWrite, SaveActivity
  <2> QED BY <1>1, <2>2 DEF Load, StartCreate, ConcInv, TypeOK
<1>4. PolicyOf(w)'
    BY <1>3 DEF PolicyOf, Admitted
<1> QED BY <1>2, <1>4, PolicyKept

LEMMA StatementKeepsPolicy ==
    ASSUME OnPostgres, ConcInv, PolicyInv, NEW w \in Workers,
           \/ LockMission(w) \/ CheckPolicy(w) \/ InsertRow(w)
           \/ FindExisting(w) \/ WriteActivity(w) \/ LoadParent(w)
           \/ UpdateRow(w) \/ RewriteActivities(w) \/ Erase(w)
    PROVE  PolicyInv'
<1> USE DEF ConcInv, OnPostgres
<1>1. /\ PlaceOf(w) /\ LocksOf(w) /\ PolicyOf(w) /\ A(w) \in Assignments
      /\ K(w) \in {"create", "assign", "delete", "staff", "unstaff"}
    BY CommandTypes DEF PlaceInv, LocksInv, PolicyInv, NoStatusRequests, K, OnActivities
<1>2. /\ UNCHANGED <<db, command>> /\ K(w)' = K(w) /\ A(w)' = A(w) /\ command'[w] = command[w]
      /\ \A x \in Workers : x # w =>
            at'[x] = at[x] /\ locks'[x] = locks[x] /\ loaded'[x] = loaded[x]
  <2>1. CASE LockMission(w)
      BY <2>1 DEF LockMission, TakeMission, Lock, Goto, TypeOK, K, A
  <2>2. CASE CheckPolicy(w)
      BY <2>2 DEF CheckPolicy, Goto, TypeOK, K, A
  <2>3. CASE InsertRow(w)
      BY <2>3 DEF InsertRow, Goto, TypeOK, K, A
  <2>4. CASE FindExisting(w)
      BY <2>4 DEF FindExisting, Goto, TypeOK, K, A
  <2>5. CASE WriteActivity(w)
      BY <2>5 DEF WriteActivity, Lock, Goto, TypeOK, K, A
  <2>6. CASE LoadParent(w)
      BY <2>6 DEF LoadParent, Goto, TypeOK, K, A
  <2>7. CASE UpdateRow(w)
      BY <2>7 DEF UpdateRow, Lock, Goto, TypeOK, K, A
  <2>8. CASE RewriteActivities(w)
      BY <2>8 DEF RewriteActivities, Lock, Goto, TypeOK, K, A
  <2>9. CASE Erase(w)
      BY <2>9 DEF Erase, Lock, Goto, TypeOK, K, A
  <2> QED BY <2>1, <2>2, <2>3, <2>4, <2>5, <2>6, <2>7, <2>8, <2>9
<1>3. Operative' = Operative
    BY <1>2 DEF Operative, Live, IsLive
<1>4. PolicyOf(w)'
  <2>1. CASE LockMission(w)
    <3>1. at'[w] = "policy"
        BY <2>1 DEF LockMission, Goto, TypeOK
    <3> QED BY <3>1 DEF PolicyOf, Admitted
  <2>2. CASE CheckPolicy(w)
    <3>1. at[w] = "policy" /\ PolicyAllows(w) /\ locks' = locks /\ at'[w] \in {"insert", "find row"}
        BY <2>2 DEF CheckPolicy, Goto, SaveRow, TypeOK
    <3>2. MissionRow \in locks'[w]
        BY <1>1, <3>1 DEF LocksOf
    <3>3. MaxConcurrent # 0 /\ command[w].arg # NoOne => Cardinality(Operative) < MaxConcurrent
        BY <3>1, OperativeFinite DEF PolicyAllows
    <3> QED BY <1>2, <1>3, <3>1, <3>2, <3>3 DEF PolicyOf, Admitted
  <2>3. CASE InsertRow(w)
    <3>1. /\ at[w] = "insert" /\ at'[w] = "commit" /\ K(w) = "create"
          /\ locks[w] \subseteq locks'[w]
        BY <2>3, <1>1 DEF InsertRow, Goto, TypeOK, PlaceOf
    <3>2. command[w].arg = NoOne => loaded'[w].status = "UNASSIGNED"
        BY <2>3 DEF InsertRow, TypeOK, Blank
    <3> QED BY <1>1, <1>2, <1>3, <3>1, <3>2 DEF PolicyOf, Admitted, OnActivities
  <2>4. CASE FindExisting(w)
    <3>1. \/ at[w] = "find row" /\ at'[w] = "row" /\ locks' = locks
          \/ at'[w] = "activity"
        BY <2>4 DEF FindExisting, Goto, TypeOK
    <3> QED BY <1>1, <1>2, <1>3, <3>1 DEF PolicyOf, Admitted
  <2>5. CASE WriteActivity(w)
    <3>1. at[w] = "activity" /\ at'[w] \in {"parent", "commit"} /\ K(w) \in OnActivities
        BY <2>5, <1>1 DEF WriteActivity, Goto, TypeOK, PlaceOf
    <3>2. locks'[w] = locks[w] \union {ActivityRow(A(w), S(w))}
        BY <2>5, <3>1, LockTakes DEF WriteActivity, Wanted
    <3>3. AssignmentRow(A(w)) \notin locks'[w]
        BY <1>1, <3>1, <3>2, RowsDiffer DEF LocksOf
    <3> QED BY <1>2, <3>1, <3>3 DEF PolicyOf, Admitted, OnActivities
  <2>6. CASE UpdateRow(w)
    <3>1. at[w] = "row" /\ at'[w] = "acts" /\ locks[w] \subseteq locks'[w]
        BY <2>6, LockTakes DEF UpdateRow, Goto, TypeOK
    <3> QED BY <1>1, <1>2, <1>3, <3>1 DEF PolicyOf, Admitted
  <2>7. CASE RewriteActivities(w)
    <3>1. /\ at[w] = "acts" /\ at'[w] = "commit" /\ locks[w] \subseteq locks'[w]
          /\ K(w) \in {"assign"}
        BY <2>7, <1>1, LockTakes DEF RewriteActivities, Goto, TypeOK, PlaceOf
    <3> QED BY <1>1, <1>2, <1>3, <3>1 DEF PolicyOf, Admitted, OnActivities
  <2>8. CASE Erase(w)
    <3>1. at'[w] \in {"erase row", "commit"} /\ K(w) = "delete"
        BY <2>8, <1>1 DEF Erase, Goto, TypeOK, PlaceOf
    <3> QED BY <1>2, <3>1 DEF PolicyOf, Admitted, OnActivities
  <2>9. ~ LoadParent(w)
      BY <1>1 DEF LoadParent, PlaceOf
  <2> QED BY <2>1, <2>2, <2>3, <2>4, <2>5, <2>6, <2>7, <2>8, <2>9
<1> QED BY <1>2, <1>4, PolicyKept

(* The operative assignments after a commit: one more at most, and that    *)
(* only of a worker the policy has admitted for somebody.                  *)
LEMMA CommitOperates ==
    ASSUME OnPostgres, ConcInv, PolicyInv, NEW w \in Workers, Commit(w)
    PROVE  \/ Operative' \subseteq Operative
           \/ /\ Operative' \subseteq Operative \union {A(w)}
              /\ Admitted(w) /\ command[w].arg # NoOne
<1> USE DEF ConcInv, OnPostgres
<1>1. /\ PlaceOf(w) /\ PolicyOf(w) /\ A(w) \in Assignments /\ at[w] = "commit"
      /\ loaded[w] \in Rows /\ db[A(w)] \in Rows /\ command[w] \in Commands
      /\ K(w) \in {"create", "assign", "delete", "staff", "unstaff"}
    BY CommandTypes DEF PlaceInv, PolicyInv, NoStatusRequests, K, OnActivities, Commit, TypeOK
<1>2. db'[A(w)] = Written(w) /\ \A a \in Assignments : a # A(w) => db'[a] = db[a]
    BY <1>1 DEF Commit, TypeOK
<1>3. Operative' \subseteq Operative \union {A(w)}
    BY <1>2 DEF Operative, Live, IsLive
<1>4. CASE K(w) = "delete"
  <2>1. A(w) \notin Operative'
      BY <1>2, <1>4 DEF Operative, Live, IsLive, Written, K, Blank
  <2> QED BY <1>3, <2>1
<1>5. CASE K(w) \in {"staff", "unstaff"}
  <2>1. AssignmentRow(A(w)) \notin locks[w]
      BY <1>1, <1>5 DEF PolicyOf, OnActivities
  <2>2. Written(w) = [db[A(w)] EXCEPT !.acts[S(w)] = loaded[w].acts[S(w)]]
      BY <1>5, <2>1 DEF Written, K
  <2>3. Written(w).state = db[A(w)].state /\ Written(w).status = db[A(w)].status
      BY <1>1, <2>2 DEF Rows
  <2>4. A(w) \in Operative' => A(w) \in Operative
      BY <1>1, <1>2, <2>3 DEF Operative, Live, IsLive
  <2> QED BY <1>3, <2>4
<1>6. CASE K(w) \in {"create", "assign"}
  <2>1. CASE command[w].arg # NoOne
      BY <1>1, <1>3, <1>6, <2>1 DEF Admitted
  <2>2. CASE command[w].arg = NoOne
    <3>1. K(w) = "create"
        BY <1>1, <1>6, <2>2, RequestsAssumption DEF K
    <3>2. AssignmentRow(A(w)) \in locks[w] /\ loaded[w].status = "UNASSIGNED"
        BY <1>1, <2>2, <3>1 DEF PlaceOf, PolicyOf, OnActivities
    <3>3. Written(w).status = "UNASSIGNED"
        BY <1>1, <3>1, <3>2 DEF Written, K, Rows
    <3>4. A(w) \notin Operative'
        BY <1>2, <3>3 DEF Operative, Active
    <3> QED BY <1>3, <3>4
  <2> QED BY <2>1, <2>2
<1> QED BY <1>1, <1>4, <1>5, <1>6

LEMMA EndKeepsPolicy ==
    ASSUME OnPostgres, ConcInv, PolicyInv, NEW w \in Workers, Commit(w) \/ Rollback(w)
    PROVE  PolicyInv'
<1> USE DEF ConcInv, OnPostgres
<1>1. /\ at'[w] = "idle"
      /\ \A x \in Workers : x # w => at'[x] = at[x] \/ at'[x] = "missed"
  <2>1. CASE Rollback(w)
      BY <2>1 DEF Rollback, Goto, TypeOK
  <2>2. CASE Commit(w)
      BY <2>2 DEF Commit
  <2> QED BY <2>1, <2>2
<1>2. \A x \in Workers : x # w =>
          /\ command'[x] = command[x] /\ loaded'[x] = loaded[x] /\ locks'[x] = locks[x]
          /\ K(x)' = K(x) /\ A(x)' = A(x)
    BY DEF Commit, Rollback, Ended, TypeOK, K, A
<1>3. /\ IsFiniteSet(Operative) /\ Cardinality(Operative) \in Nat
      /\ MaxConcurrent \in Nat
    BY OperativeFinite, ConcurrencyAssumption
<1>4. PolicyOf(w)'
    BY <1>1 DEF PolicyOf, Admitted
<1>5. ASSUME NEW x \in Workers, x # w,
             Admitted(x) /\ MaxConcurrent # 0 /\ command[x].arg # NoOne
                 => Cardinality(Operative') < MaxConcurrent
      PROVE  PolicyOf(x)'
  <2>1. PolicyOf(x)
      BY DEF PolicyInv
  <2> QED BY <1>1, <1>2, <1>5, <2>1 DEF PolicyOf, Admitted
<1>6. CASE Operative' \subseteq Operative
  <2>1. Cardinality(Operative') <= Cardinality(Operative) /\ Cardinality(Operative') \in Nat
      BY <1>3, <1>6, FS_Subset, FS_CardinalityType
  <2>2. MaxConcurrent # 0 => Cardinality(Operative') <= MaxConcurrent
      BY <1>3, <2>1 DEF PolicyInv
  <2>3. ASSUME NEW x \in Workers, x # w PROVE PolicyOf(x)'
      BY <1>3, <1>5, <2>1, <2>3 DEF PolicyInv, PolicyOf
  <2> QED BY <1>4, <2>2, <2>3 DEF PolicyInv
<1>7. CASE /\ Commit(w) /\ Operative' \subseteq Operative \union {A(w)}
           /\ Admitted(w) /\ command[w].arg # NoOne
  <2>1. /\ IsFiniteSet(Operative \union {A(w)})
        /\ Cardinality(Operative \union {A(w)}) <= Cardinality(Operative) + 1
        /\ Cardinality(Operative \union {A(w)}) \in Nat
    <3>1. /\ IsFiniteSet(Operative \union {A(w)})
          /\ Cardinality(Operative \union {A(w)}) =
                IF A(w) \in Operative THEN Cardinality(Operative) ELSE Cardinality(Operative) + 1
        BY <1>3, FS_AddElement
    <3> QED BY <1>3, <3>1
  <2>2. /\ Cardinality(Operative') <= Cardinality(Operative \union {A(w)})
        /\ Cardinality(Operative') \in Nat
      BY <1>7, <2>1, FS_Subset, FS_CardinalityType
  <2>3. /\ MissionRow \in locks[w]
        /\ MaxConcurrent # 0 => Cardinality(Operative) < MaxConcurrent
      BY <1>7 DEF PolicyInv, PolicyOf
  <2>4. MaxConcurrent # 0 => Cardinality(Operative') <= MaxConcurrent
      BY <1>3, <2>1, <2>2, <2>3
  <2>5. ASSUME NEW x \in Workers, x # w PROVE PolicyOf(x)'
    <3>1. MissionRow \notin locks[x]
        BY <2>3, <2>5 DEF TypeOK
    <3>2. ~ Admitted(x)
        BY <3>1 DEF PolicyInv, PolicyOf
    <3> QED BY <1>5, <2>5, <3>2
  <2> QED BY <1>4, <2>4, <2>5 DEF PolicyInv
<1>8. Rollback(w) => Operative' = Operative
    BY DEF Rollback, Operative, Live, IsLive
<1> QED BY <1>6, <1>7, <1>8, CommitOperates

LEMMA PolicyStep ==
    ASSUME OnPostgres, ConcInv, PolicyInv, [Next]_vars
    PROVE  PolicyInv'
<1>1. CASE UNCHANGED vars
    BY <1>1 DEF PolicyInv, PolicyOf, Admitted, K, A, Operative, Live, IsLive, vars, local
<1>2. ASSUME NEW w \in Workers, Start(w) PROVE PolicyInv'
    BY <1>2, StartKeepsPolicy
<1>3. ASSUME NEW w \in Workers, Continue(w) PROVE PolicyInv'
    BY <1>3, StatementKeepsPolicy, EndKeepsPolicy DEF Continue
<1> QED BY <1>1, <1>2, <1>3 DEF Next

(* On PostgreSQL max_concurrent holds however many creations, assignments, *)
(* changes of the assignees and deletions overlap.                         *)
THEOREM ConcurrentHolds ==
    ASSUME ~ SnapshotReads, NoStatusRequests
    PROVE  Spec => []ConcurrentRespected
<1>1. ConcInv /\ PolicyInv /\ [Next]_vars => PolicyInv'
    BY PolicyStep DEF OnPostgres
<1>2. ConcInv /\ PolicyInv => ConcurrentRespected
    BY OperativeFinite DEF ConcInv, PolicyInv, ConcurrentRespected
<1> QED BY <1>1, <1>2, ConcurrentCorrect, PolicyInit, PTL DEF Spec

-----------------------------------------------------------------------------
(* max_total on PostgreSQL                                                 *)

Stays == \A a \in Assignments : db[a].state = "gone" => db'[a].state = "gone"

(* Whom a creation has counted is all there is until its commit, unless    *)
(* an assignment that was deleted comes back.                              *)
KnownOf(w)    == at[w] # "idle" /\ K(w) # "create" => db[A(w)].state # "none"
RoomLeftOf(w) ==
    K(w) = "create" /\ at[w] \in {"insert", "commit"} => Cardinality(Live) < MaxTotal

CountedInv ==
    /\ \A w \in Workers : KnownOf(w)
    /\ MaxTotal # 0 => Cardinality(Live) <= MaxTotal /\ \A w \in Workers : RoomLeftOf(w)

(* What a commit does to the state of its assignment.                      *)
LEMMA CommitWrites ==
    ASSUME ConcInv, NEW w \in Workers, Commit(w)
    PROVE  /\ A(w) \in Assignments /\ at[w] = "commit"
           /\ \A a \in Assignments : a # A(w) => db'[a] = db[a]
           /\ K(w) = "create" => db[A(w)].state = "none" /\ db'[A(w)].state = "live"
           /\ K(w) = "delete" => db'[A(w)].state = "gone"
           /\ K(w) \notin {"create", "delete"} => db'[A(w)].state \in {"live", db[A(w)].state}
<1> USE DEF ConcInv
<1>1. /\ A(w) \in Assignments /\ at[w] = "commit" /\ db[A(w)] \in Rows /\ loaded[w] \in Rows
      /\ PlaceOf(w)
    BY CommandTypes DEF Commit, TypeOK, PlaceInv
<1>2. db'[A(w)] = Written(w) /\ \A a \in Assignments : a # A(w) => db'[a] = db[a]
    BY <1>1 DEF Commit, TypeOK
<1>3. K(w) = "delete" => Written(w).state = "gone"
    BY BlankIsRow DEF Written, K
<1>4. K(w) # "delete" /\ AssignmentRow(A(w)) \in locks[w] => Written(w).state = "live"
    BY <1>1 DEF Written, K, Rows
<1>5. K(w) # "delete" /\ AssignmentRow(A(w)) \notin locks[w] => Written(w).state = db[A(w)].state
    BY <1>1 DEF Written, K, Rows
<1>6. K(w) = "create" => AssignmentRow(A(w)) \in locks[w] /\ db[A(w)].state = "none"
    BY <1>1 DEF PlaceOf, OnActivities, CreateInv
<1> QED BY <1>1, <1>2, <1>3, <1>4, <1>5, <1>6

LEMMA CountedInit == Init => CountedInv
<1> SUFFICES ASSUME Init PROVE CountedInv
    OBVIOUS
<1>1. MaxTotal # 0 => Cardinality({a \in Assignments : IsLive(db[a])}) <= MaxTotal
    BY RequestsAssumption DEF Init
<1>2. \A w \in Workers : KnownOf(w) /\ RoomLeftOf(w)
    BY DEF Init, KnownOf, RoomLeftOf
<1> QED BY <1>1, <1>2 DEF CountedInv, Live

(* A step that leaves the database alone.                                  *)
LEMMA CountedKept ==
    ASSUME CountedInv, NEW w \in Workers, UNCHANGED db,
           \A x \in Workers : x # w => at'[x] = at[x] /\ command'[x] = command[x],
           KnownOf(w)', MaxTotal # 0 => RoomLeftOf(w)'
    PROVE  CountedInv'
<1>1. Live' = Live
    BY DEF Live, IsLive
<1>2. ASSUME NEW x \in Workers, x # w PROVE KnownOf(x)' /\ (MaxTotal # 0 => RoomLeftOf(x)')
    BY <1>1, <1>2 DEF CountedInv, KnownOf, RoomLeftOf, K, A
<1> QED BY <1>1, <1>2 DEF CountedInv

LEMMA StartKeepsCounted ==
    ASSUME ConcInv, CountedInv, NEW w \in Workers, Start(w)
    PROVE  CountedInv'
<1> USE DEF ConcInv
<1>1. PICK c \in Commands : Load(w, c) \/ StartCreate(w, c)
    BY DEF Start
<1>2. /\ UNCHANGED db /\ command'[w] = c
      /\ \A x \in Workers : x # w => at'[x] = at[x] /\ command'[x] = command[x]
    BY <1>1 DEF Load, StartCreate, TypeOK
<1>3. at'[w] \notin {"insert", "commit"}
  <2>1. FirstWrite(c.kind) \notin {"insert", "commit"}
      BY DEF FirstWrite, SaveRow, SaveActivity
  <2> QED BY <1>1, <2>1 DEF Load, StartCreate, TypeOK
<1>4. c.kind # "create" => db[c.a].state # "none"
    BY <1>1 DEF Load, StartCreate, IsLive
<1>5. KnownOf(w)' /\ RoomLeftOf(w)'
    BY <1>2, <1>3, <1>4 DEF KnownOf, RoomLeftOf, K, A
<1> QED BY <1>2, <1>5, CountedKept

LEMMA StatementKeepsCounted ==
    ASSUME ~ SnapshotReads, ConcInv, CountedInv, NEW w \in Workers,
           \/ LockMission(w) \/ CheckPolicy(w) \/ InsertRow(w)
           \/ FindExisting(w) \/ WriteActivity(w) \/ LoadParent(w)
           \/ UpdateRow(w) \/ RewriteActivities(w) \/ Erase(w)
    PROVE  CountedInv'
<1> USE DEF ConcInv
<1>1. /\ UNCHANGED <<db, command>> /\ K(w)' = K(w) /\ A(w)' = A(w)
      /\ \A x \in Workers : x # w => at'[x] = at[x]
    BY DEF LockMission, CheckPolicy, InsertRow, FindExisting, WriteActivity, LoadParent,
       UpdateRow, RewriteActivities, Erase, Goto, TypeOK, K, A
<1>2. PlaceOf(w) /\ KnownOf(w) /\ (MaxTotal # 0 => RoomLeftOf(w)) /\ at[w] # "idle"
    BY DEF PlaceInv, CountedInv, LockMission, CheckPolicy, InsertRow, FindExisting,
       WriteActivity, LoadParent, UpdateRow, RewriteActivities, Erase
<1>3. KnownOf(w)'
    BY <1>1, <1>2 DEF KnownOf
<1>4. Live' = Live
    BY <1>1 DEF Live, IsLive
<1>5. ASSUME MaxTotal # 0, K(w) = "create", at'[w] \in {"insert", "commit"}
      PROVE  Cardinality(Live) < MaxTotal
  <2>1. CASE CheckPolicy(w)
    <3>1. at[w] = "policy" /\ PolicyAllows(w)
        BY <2>1 DEF CheckPolicy
    <3>2. Counts.total < MaxTotal
        BY <1>5, <3>1 DEF PolicyAllows, K
    <3> QED BY <3>2, CountsAreNumbers
  <2>2. CASE InsertRow(w)
    <3>1. at[w] = "insert"
        BY <2>2 DEF InsertRow
    <3> QED BY <1>2, <1>5, <3>1 DEF RoomLeftOf
  <2>3. ~ LockMission(w)
      BY <1>5 DEF LockMission, Goto, TypeOK
  <2>4. ~ (FindExisting(w) \/ WriteActivity(w) \/ LoadParent(w) \/ UpdateRow(w)
              \/ RewriteActivities(w) \/ Erase(w))
      BY <1>2, <1>5 DEF PlaceOf, FindExisting, WriteActivity, LoadParent, UpdateRow,
         RewriteActivities, Erase, OnActivities
  <2> QED BY <2>1, <2>2, <2>3, <2>4
<1>6. MaxTotal # 0 => RoomLeftOf(w)'
    BY <1>1, <1>4, <1>5 DEF RoomLeftOf
<1> QED BY <1>1, <1>3, <1>6, CountedKept

LEMMA EndKeepsCounted ==
    ASSUME ConcInv, CountedInv, Stays, NEW w \in Workers, Commit(w) \/ Rollback(w)
    PROVE  CountedInv'
<1> USE DEF ConcInv
<1>1. /\ at'[w] = "idle"
      /\ \A x \in Workers : x # w => at'[x] \in {at[x], "missed"} /\ (at[x] = "idle" => at'[x] = "idle")
  <2>1. CASE Rollback(w)
      BY <2>1 DEF Rollback, Goto, TypeOK
  <2>2. CASE Commit(w)
    <3>1. PICK begun \in SUBSET Overtaken(w) :
              at' = [x \in Workers |-> IF x = w THEN "idle"
                                       ELSE IF x \in begun THEN "missed" ELSE at[x]]
        BY <2>2 DEF Commit
    <3>2. \A x \in begun : at[x] \in {"activity", "erase"}
        BY DEF Overtaken
    <3> QED BY <3>1, <3>2
  <2> QED BY <2>1, <2>2
<1>2. \A x \in Workers : x # w => K(x)' = K(x) /\ A(x)' = A(x)
    BY DEF Commit, Rollback, Ended, TypeOK, K, A
<1>3. \A a \in Assignments : db'[a].state = "none" => db[a].state = "none"
  <2>1. CASE Rollback(w)
      BY <2>1 DEF Rollback
  <2>2. CASE Commit(w)
    <3>1. db'[A(w)].state = "none" => db[A(w)].state = "none"
        BY <2>2, CommitWrites
    <3> QED BY <2>2, <3>1, CommitWrites
  <2> QED BY <2>1, <2>2
<1>4. ASSUME NEW x \in Workers PROVE KnownOf(x)'
  <2>1. CASE x = w
      BY <1>1, <2>1 DEF KnownOf
  <2>2. CASE x # w
    <3>1. KnownOf(x) /\ A(x) \in Assignments
        BY CommandTypes DEF CountedInv
    <3> QED BY <1>1, <1>2, <1>3, <2>2, <3>1 DEF KnownOf
  <2> QED BY <2>1, <2>2
<1> SUFFICES ASSUME MaxTotal # 0
             PROVE  Cardinality(Live)' <= MaxTotal /\ \A x \in Workers : RoomLeftOf(x)'
    BY <1>4 DEF CountedInv
<1>5. IsFiniteSet(Live) /\ Cardinality(Live) \in Nat /\ MaxTotal \in Nat
    BY CountsAreNumbers, FS_CardinalityType, ConcurrencyAssumption
<1>6. CASE Live' \subseteq Live
  <2>1. Cardinality(Live') <= Cardinality(Live) /\ Cardinality(Live') \in Nat
      BY <1>5, <1>6, FS_Subset, FS_CardinalityType
  <2>2. ASSUME NEW x \in Workers PROVE RoomLeftOf(x)'
    <3>1. CASE x = w
        BY <1>1, <3>1 DEF RoomLeftOf
    <3>2. CASE x # w
      <4>1. RoomLeftOf(x) /\ at'[x] \in {at[x], "missed"} /\ K(x)' = K(x)
          BY <1>1, <1>2, <3>2 DEF CountedInv
      <4> QED BY <1>5, <2>1, <4>1 DEF RoomLeftOf
    <3> QED BY <3>1, <3>2
  <2>3. Cardinality(Live) <= MaxTotal
      BY DEF CountedInv
  <2> QED BY <1>5, <2>1, <2>2, <2>3
<1>7. CASE Commit(w) /\ K(w) = "create"
  <2>1. Live' = Live \union {A(w)} /\ A(w) \notin Live
    <3>1. /\ A(w) \in Assignments /\ db[A(w)].state = "none" /\ db'[A(w)].state = "live"
          /\ \A a \in Assignments : a # A(w) => db'[a] = db[a]
        BY <1>7, CommitWrites
    <3> QED BY <3>1 DEF Live, IsLive
  <2>2. Cardinality(Live') = Cardinality(Live) + 1
      BY <1>5, <2>1, FS_AddElement
  <2>3. Cardinality(Live) < MaxTotal
      BY <1>7 DEF CountedInv, RoomLeftOf, Commit
  <2>4. MissionRow \in locks[w]
      BY <1>7 DEF LocksInv, LocksOf, Commit
  <2>5. ASSUME NEW x \in Workers PROVE RoomLeftOf(x)'
    <3>1. CASE x = w
        BY <1>1, <3>1 DEF RoomLeftOf
    <3>2. CASE x # w
      <4>1. MissionRow \notin locks[x]
          BY <2>4, <3>2 DEF TypeOK
      <4>2. at[x] # "insert" /\ ~ (at[x] = "commit" /\ K(x) = "create")
          BY <4>1 DEF LocksInv, LocksOf
      <4> QED BY <1>1, <1>2, <3>2, <4>2 DEF RoomLeftOf
    <3> QED BY <3>1, <3>2
  <2> QED BY <1>5, <2>2, <2>3, <2>5
<1>8. Live' \subseteq Live \/ (Commit(w) /\ K(w) = "create")
  <2>1. CASE Rollback(w)
      BY <2>1 DEF Rollback, Live, IsLive
  <2>2. CASE Commit(w) /\ K(w) # "create"
    <3>1. /\ A(w) \in Assignments /\ db[A(w)].state # "none" /\ db[A(w)] \in Rows
          /\ \A a \in Assignments : a # A(w) => db'[a] = db[a]
        BY <2>2, CommitWrites DEF CountedInv, KnownOf, TypeOK
    <3>2. db[A(w)].state = "gone" => db'[A(w)].state = "gone"
        BY <3>1 DEF Stays
    <3>3. db[A(w)].state \in {"live", "gone"}
        BY <3>1 DEF Rows
    <3>4. \A a \in Assignments : db'[a].state = "live" => db[a].state = "live"
        BY <3>1, <3>2, <3>3
    <3> QED BY <3>4 DEF Live, IsLive
  <2> QED BY <2>1, <2>2
<1> QED BY <1>6, <1>7, <1>8

(* On PostgreSQL nothing takes a mission past max_total but an assignment  *)
(* that comes back after it was deleted, whatever else overlaps.           *)
THEOREM TotalHoldsUnlessRevived ==
    ASSUME ~ SnapshotReads
    PROVE  Spec /\ DeletedStaysDeleted => []TotalRespected
<1>1. ConcInv /\ CountedInv /\ [Next]_vars /\ [Stays]_vars => CountedInv'
  <2> SUFFICES ASSUME ConcInv, CountedInv, [Next]_vars, [Stays]_vars PROVE CountedInv'
      OBVIOUS
  <2>1. CASE UNCHANGED vars
      BY <2>1 DEF CountedInv, KnownOf, RoomLeftOf, K, A, Live, IsLive, vars, local
  <2>2. ASSUME NEW w \in Workers, Start(w) PROVE CountedInv'
      BY <2>2, StartKeepsCounted
  <2>3. ASSUME NEW w \in Workers, Continue(w), Stays PROVE CountedInv'
      BY <2>3, StatementKeepsCounted, EndKeepsCounted DEF Continue
  <2> QED BY <2>1, <2>2, <2>3 DEF Next
<1>2. ConcInv /\ CountedInv => TotalRespected
    BY CountsAreNumbers DEF ConcInv, CountedInv, TotalRespected
<1> QED BY <1>1, <1>2, ConcurrentCorrect, CountedInit, PTL DEF Spec, DeletedStaysDeleted, Stays

-----------------------------------------------------------------------------
(* Transactions on different assignments                                   *)

OneAtATime ==
    \A w, x \in Workers : w # x /\ at[w] # "idle" /\ at[x] # "idle" => A(w) # A(x)

(* A row that keeps what is terminal in another.                           *)
Respects(new, old) ==
    /\ old.status \in Terminal => new.status = old.status
    /\ \A s \in Slots : old.acts[s].status \in Terminal =>
          new.acts[s].status = old.acts[s].status

(* The row is as it was when the request was accepted, and what has been   *)
(* made of it keeps what is terminal there.                                *)
OwnOf(w) ==
    at[w] # "idle" /\ K(w) # "create" =>
        /\ IsLive(db[A(w)])
        /\ Accepts(command[w], db[A(w)])
        /\ Respects(loaded[w], db[A(w)])

OwnInv == \A w \in Workers : OwnOf(w)

LEMMA TerminalStays ==
    ASSUME NEW old \in Terminal
    PROVE  /\ old # "UNASSIGNED" /\ old # "ASSIGNED"
           /\ \A arg : ~ MayRequest(old, arg) /\ CascadeTo(old, arg) = old
<1>1. StatusTransitions(old) = {}
    BY DEF Terminal, StatusTransitions
<1>2. old # "UNASSIGNED" /\ old # "ASSIGNED"
    BY DEF Terminal
<1>3. ASSUME NEW arg PROVE ~ MayRequest(old, arg) /\ CascadeTo(old, arg) = old
    BY <1>1, <1>2 DEF MayRequest, CascadeTo
<1> QED BY <1>2, <1>3

LEMMA OwnInit == Init => OwnInv
    BY DEF Init, OwnInv, OwnOf

(* What a worker does before its commit to itself alone.                   *)
LEMMA OthersKeepOwn ==
    ASSUME OwnInv, NEW w \in Workers, UNCHANGED db,
           \A x \in Workers : x # w =>
               at'[x] = at[x] /\ command'[x] = command[x] /\ loaded'[x] = loaded[x],
           OwnOf(w)'
    PROVE  OwnInv'
<1>1. ASSUME NEW x \in Workers, x # w PROVE OwnOf(x)'
  <2>1. OwnOf(x)
      BY DEF OwnInv
  <2>2. db'[A(x)'] = db[A(x)] /\ K(x)' = K(x)
      BY <1>1 DEF A, K
  <2> QED BY <1>1, <2>1, <2>2 DEF OwnOf
<1> QED BY <1>1 DEF OwnInv

LEMMA StartKeepsOwn ==
    ASSUME ConcInv, OwnInv, NEW w \in Workers, Start(w)
    PROVE  OwnInv'
<1> USE DEF ConcInv
<1>1. PICK c \in Commands : Load(w, c) \/ StartCreate(w, c)
    BY DEF Start
<1>2. /\ UNCHANGED db /\ command'[w] = c
      /\ \A x \in Workers : x # w =>
            at'[x] = at[x] /\ command'[x] = command[x] /\ loaded'[x] = loaded[x]
    BY <1>1 DEF Load, StartCreate, TypeOK
<1>3. c.kind # "create" =>
          IsLive(db[c.a]) /\ Accepts(c, db[c.a]) /\ loaded'[w] = db[c.a]
    BY <1>1 DEF Load, StartCreate, TypeOK
<1>4. OwnOf(w)'
    BY <1>2, <1>3 DEF OwnOf, K, A, Respects
<1> QED BY <1>2, <1>4, OthersKeepOwn

(* The statuses that the statements write.                                 *)
LEMMA ActivityRespects ==
    ASSUME NEW c, c.kind \in OnActivities, NEW row, Accepts(c, row), NEW act, NEW old,
           row.acts[c.s].status \in Terminal, act.status = row.acts[c.s].status
    PROVE  Flush(NewActivity(c, act), old, row.acts[c.s]).status = row.acts[c.s].status
<1> DEFINE new == NewActivity(c, act)
<1>1. row.acts[c.s].status \notin {"UNASSIGNED", "ASSIGNED"}
      /\ ~ MayRequest(row.acts[c.s].status, c.arg)
    BY TerminalStays
<1>2. c.kind = "staff"
  <2>1. c.kind # "unstaff"
      BY <1>1 DEF Accepts
  <2>2. c.kind # "setActivity"
      BY <1>1 DEF Accepts
  <2> QED BY <2>1, <2>2 DEF OnActivities
<1>3. new = [status    |-> IF act.status = "UNASSIGNED" THEN "ASSIGNED" ELSE act.status,
             assignees |-> act.assignees \union {c.arg}]
    BY <1>2 DEF NewActivity
<1>4. act.status # "UNASSIGNED"
    BY <1>1
<1>5. new = [status |-> act.status, assignees |-> act.assignees \union {c.arg}]
    BY <1>3, <1>4, Zenon
<1> HIDE DEF new
<1>6. \A n, f, g : n = [status |-> f, assignees |-> g] => "status" \in DOMAIN n /\ n.status = f
    OBVIOUS
<1>7. "status" \in DOMAIN new /\ new.status = act.status
    BY <1>5, <1>6, Zenon
<1>8. Flush(new, old, row.acts[c.s]).status \in {new.status, row.acts[c.s].status}
    BY <1>7 DEF Flush
<1> QED BY <1>7, <1>8 DEF new

LEMMA StatusRespects ==
    ASSUME NEW w \in Workers, K(w) \in {"assign", "setStatus", "setActivity"},
           Accepts(command[w], db[A(w)]), Respects(loaded[w], db[A(w)]),
           db[A(w)].status \in Terminal
    PROVE  NewStatus(w, loaded[w]) = db[A(w)].status
<1>1. loaded[w].status = db[A(w)].status
    BY DEF Respects
<1>2. K(w) = "setActivity"
  <2>1. K(w) # "assign"
      BY TerminalStays DEF Accepts, K
  <2>2. K(w) # "setStatus"
      BY TerminalStays DEF Accepts, K
  <2> QED BY <2>1, <2>2
<1> QED BY <1>1, <1>2, TerminalStays DEF NewStatus, K

(* A statement of a transaction leaves what is terminal in its row.        *)
LEMMA StatementRespects ==
    ASSUME ConcInv, OwnInv, NEW w \in Workers, K(w) # "create",
           \/ LockMission(w) \/ CheckPolicy(w) \/ InsertRow(w)
           \/ FindExisting(w) \/ WriteActivity(w) \/ LoadParent(w)
           \/ UpdateRow(w) \/ RewriteActivities(w) \/ Erase(w)
    PROVE  Respects(loaded'[w], db[A(w)])
<1> USE DEF ConcInv
<1>1. /\ OwnOf(w) /\ PlaceOf(w) /\ at[w] # "idle" /\ A(w) \in Assignments
      /\ loaded[w] \in Rows /\ db[A(w)] \in Rows
      /\ K(w) \in OnActivities => S(w) \in Slots
    BY CommandTypes DEF OwnInv, PlaceInv, TypeOK, LockMission, CheckPolicy, InsertRow,
       FindExisting, WriteActivity, LoadParent, UpdateRow, RewriteActivities, Erase
<1>2. /\ IsLive(db[A(w)]) /\ Accepts(command[w], db[A(w)]) /\ Respects(loaded[w], db[A(w)])
    BY <1>1 DEF OwnOf
<1>3. CASE LockMission(w) \/ CheckPolicy(w) \/ FindExisting(w) \/ RewriteActivities(w) \/ Erase(w)
    BY <1>2, <1>3 DEF LockMission, CheckPolicy, FindExisting, RewriteActivities, Erase
<1>4. CASE WriteActivity(w)
  <2>1. K(w) \in OnActivities /\ S(w) \in Slots
      BY <1>1, <1>4 DEF WriteActivity, PlaceOf
  <2> DEFINE act == Flush(NewActivity(command[w], loaded[w].acts[S(w)]),
                          existing[w].acts[S(w)], db[A(w)].acts[S(w)])
  <2>2. loaded'[w] = [loaded[w] EXCEPT !.acts[S(w)] = act]
      BY <1>4 DEF WriteActivity, TypeOK
  <2>3. ASSUME db[A(w)].acts[S(w)].status \in Terminal
        PROVE  act.status = db[A(w)].acts[S(w)].status
    <3>1. PICK c, r, l, e : /\ c = command[w] /\ r = db[A(w)] /\ l = loaded[w].acts[S(w)]
                            /\ e = existing[w].acts[S(w)]
        OBVIOUS
    <3>2. c.kind = K(w) /\ c.s = S(w)
        BY <3>1 DEF K, S
    <3>3. act = Flush(NewActivity(c, l), e, r.acts[c.s])
        BY <3>1, <3>2
    <3> HIDE DEF act
    <3>4. c.kind \in OnActivities /\ Accepts(c, r) /\ r.acts[c.s].status \in Terminal
        BY <1>2, <2>1, <2>3, <3>1, <3>2
    <3>5. l.status = r.acts[c.s].status
        BY <1>2, <2>1, <2>3, <3>1, <3>2 DEF Respects
    <3>6. Flush(NewActivity(c, l), e, r.acts[c.s]).status = r.acts[c.s].status
        BY <3>4, <3>5, ActivityRespects
    <3> QED BY <3>1, <3>2, <3>3, <3>6
  <2> HIDE DEF act
  <2>4. /\ loaded'[w].status = loaded[w].status
        /\ \A s \in Slots : loaded'[w].acts[s] = IF s = S(w) THEN act ELSE loaded[w].acts[s]
      BY <1>1, <2>1, <2>2 DEF Rows
  <2> QED BY <1>2, <2>3, <2>4 DEF Respects
<1>5. CASE LoadParent(w)
  <2>1. K(w) \in OnActivities /\ S(w) \in Slots
      BY <1>1, <1>5 DEF LoadParent, PlaceOf, OnActivities
  <2>2. loaded'[w] = Parent(w)
      BY <1>5 DEF LoadParent, TypeOK
  <2>3. CASE Parent(w) = loaded[w]
      BY <1>2, <2>2, <2>3
  <2>4. CASE Parent(w) = [db[A(w)] EXCEPT !.acts[S(w)] = loaded[w].acts[S(w)]]
    <3>1. /\ Parent(w).status = db[A(w)].status
          /\ \A s \in Slots : Parent(w).acts[s] = IF s = S(w) THEN loaded[w].acts[s]
                                                  ELSE db[A(w)].acts[s]
        BY <1>1, <2>1, <2>4 DEF Rows
    <3> QED BY <1>2, <2>2, <3>1 DEF Respects
  <2> QED BY <2>3, <2>4 DEF Parent
<1>6. CASE UpdateRow(w)
  <2>1. K(w) \in {"assign", "setStatus", "setActivity"}
      BY <1>1, <1>6 DEF UpdateRow, PlaceOf
  <2> DEFINE new == [status |-> NewStatus(w, loaded[w]), assignee |-> NewAssignee(w)]
             row == Flush(new, existing[w], db[A(w)])
  <2>2. loaded'[w] = [loaded[w] EXCEPT !.status = row.status, !.assignee = row.assignee]
      BY <1>2, <1>6 DEF UpdateRow, TypeOK
  <2>3. row.status \in {new.status, db[A(w)].status}
      BY DEF Flush
  <2>4. db[A(w)].status \in Terminal => row.status = db[A(w)].status
      BY <1>2, <2>1, <2>3, StatusRespects
  <2> HIDE DEF row
  <2>5. loaded'[w].status = row.status /\ loaded'[w].acts = loaded[w].acts
      BY <1>1, <2>2 DEF Rows
  <2> QED BY <1>2, <2>4, <2>5 DEF Respects
<1>7. ~ InsertRow(w)
    BY <1>1 DEF InsertRow, PlaceOf
<1> QED BY <1>3, <1>4, <1>5, <1>6, <1>7

LEMMA StatementKeepsOwn ==
    ASSUME ConcInv, OwnInv, NEW w \in Workers,
           \/ LockMission(w) \/ CheckPolicy(w) \/ InsertRow(w)
           \/ FindExisting(w) \/ WriteActivity(w) \/ LoadParent(w)
           \/ UpdateRow(w) \/ RewriteActivities(w) \/ Erase(w)
    PROVE  OwnInv'
<1> USE DEF ConcInv
<1>1. /\ UNCHANGED <<db, command>> /\ K(w)' = K(w) /\ A(w)' = A(w) /\ at[w] # "idle"
      /\ \A x \in Workers : x # w => at'[x] = at[x]
    BY DEF LockMission, CheckPolicy, InsertRow, FindExisting, WriteActivity, LoadParent,
       UpdateRow, RewriteActivities, Erase, Goto, TypeOK, K, A
<1>2. \A x \in Workers : x # w => loaded'[x] = loaded[x]
    BY DEF LockMission, CheckPolicy, InsertRow, FindExisting, WriteActivity, LoadParent,
       UpdateRow, RewriteActivities, Erase, TypeOK
<1>3. K(w) # "create" => OwnOf(w) /\ Respects(loaded'[w], db[A(w)])
    BY StatementRespects DEF OwnInv
<1>4. OwnOf(w)'
    BY <1>1, <1>3 DEF OwnOf
<1> QED BY <1>1, <1>2, <1>4, OthersKeepOwn

LEMMA EndKeepsOwn ==
    ASSUME ConcInv, OneAtATime, OwnInv, NEW w \in Workers, Commit(w) \/ Rollback(w)
    PROVE  OwnInv'
<1> USE DEF ConcInv
<1>1. /\ at'[w] = "idle"
      /\ \A x \in Workers : x # w /\ at'[x] # "idle" => at[x] # "idle"
  <2>1. CASE Rollback(w)
      BY <2>1 DEF Rollback, Goto, TypeOK
  <2>2. CASE Commit(w)
    <3>1. PICK begun \in SUBSET Overtaken(w) :
              at' = [x \in Workers |-> IF x = w THEN "idle"
                                       ELSE IF x \in begun THEN "missed" ELSE at[x]]
        BY <2>2 DEF Commit
    <3>2. \A x \in begun : at[x] \in {"activity", "erase"}
        BY DEF Overtaken
    <3> QED BY <3>1, <3>2
  <2> QED BY <2>1, <2>2
<1>2. \A x \in Workers : x # w => command'[x] = command[x] /\ loaded'[x] = loaded[x]
    BY DEF Commit, Rollback, Ended, TypeOK
<1>3. ASSUME NEW x \in Workers PROVE OwnOf(x)'
  <2>1. CASE x = w
      BY <1>1, <2>1 DEF OwnOf
  <2>2. CASE x # w
    <3> SUFFICES ASSUME at'[x] # "idle", K(x)' # "create" PROVE OwnOf(x)'
        BY DEF OwnOf
    <3>1. OwnOf(x) /\ at[x] # "idle" /\ K(x) # "create" /\ A(x)' = A(x) /\ A(x) \in Assignments
        BY <1>1, <1>2, <2>2, CommandTypes DEF OwnInv, K, A
    <3>2. db'[A(x)] = db[A(x)]
      <4>1. CASE Rollback(w)
          BY <4>1 DEF Rollback
      <4>2. CASE Commit(w)
        <5>1. A(x) # A(w)
            BY <2>2, <3>1, <4>2 DEF OneAtATime, Commit
        <5> QED BY <3>1, <4>2, <5>1, CommitWrites
      <4> QED BY <4>1, <4>2
    <3> QED BY <1>2, <2>2, <3>1, <3>2 DEF OwnOf
  <2> QED BY <2>1, <2>2
<1> QED BY <1>3 DEF OwnInv

(* What a commit leaves of a terminal status.                              *)
Final ==
    \A a \in Assignments : IsLive(db[a]) /\ IsLive(db'[a]) => Respects(db'[a], db[a])

LEMMA CommitRespects ==
    ASSUME ConcInv, OwnInv, NEW w \in Workers, Commit(w)
    PROVE  Final /\ Stays
<1> USE DEF ConcInv
<1>1. /\ A(w) \in Assignments /\ at[w] = "commit" /\ db[A(w)] \in Rows /\ loaded[w] \in Rows
      /\ PlaceOf(w) /\ OwnOf(w) /\ (K(w) \in OnActivities => S(w) \in Slots)
    BY CommandTypes DEF Commit, TypeOK, PlaceInv, OwnInv
<1>2. db'[A(w)] = Written(w) /\ \A a \in Assignments : a # A(w) => db'[a] = db[a]
    BY <1>1 DEF Commit, TypeOK
<1>3. Stays
  <2>1. db[A(w)].state # "gone"
    <3>1. CASE K(w) = "create"
        BY <3>1, CommitWrites
    <3>2. CASE K(w) # "create"
        BY <1>1, <3>2 DEF OwnOf, IsLive
    <3> QED BY <3>1, <3>2
  <2> QED BY <1>2, <2>1 DEF Stays
<1>4. ASSUME IsLive(db[A(w)]), IsLive(db'[A(w)]) PROVE Respects(db'[A(w)], db[A(w)])
  <2>1. K(w) # "create" /\ K(w) # "delete"
      BY <1>4, CommitWrites DEF IsLive
  <2>2. Respects(loaded[w], db[A(w)])
      BY <1>1, <2>1 DEF OwnOf
  <2>3. CASE AssignmentRow(A(w)) \in locks[w]
    <3>1. Written(w).status = loaded[w].status /\ Written(w).acts = loaded[w].acts
        BY <1>1, <2>1, <2>3 DEF Written, K, Rows
    <3> QED BY <1>2, <2>2, <3>1 DEF Respects
  <2>4. CASE AssignmentRow(A(w)) \notin locks[w]
    <3>1. S(w) \in Slots
        BY <1>1, <2>4 DEF PlaceOf
    <3>2. /\ Written(w).status = db[A(w)].status
          /\ \A s \in Slots : Written(w).acts[s] = IF s = S(w) THEN loaded[w].acts[s]
                                                   ELSE db[A(w)].acts[s]
        BY <1>1, <2>1, <2>4, <3>1 DEF Written, K, Rows
    <3> QED BY <1>2, <2>2, <3>2 DEF Respects
  <2> QED BY <2>3, <2>4
<1>5. Final
    BY <1>2, <1>4 DEF Final, Respects
<1> QED BY <1>3, <1>5

(* As long as no two transactions are on one assignment at once, nothing   *)
(* becomes of a terminal status or a deletion, on both databases, however  *)
(* the transactions on different assignments overlap: the updates that are *)
(* lost are lost between transactions on the same one.                     *)
THEOREM ApartNothingIsLost ==
    Spec /\ []OneAtATime => TerminalIsFinal /\ DeletedStaysDeleted
<1>1. ConcInv /\ OneAtATime /\ OwnInv /\ [Next]_vars => OwnInv'
  <2> SUFFICES ASSUME ConcInv, OneAtATime, OwnInv, [Next]_vars PROVE OwnInv'
      OBVIOUS
  <2>1. CASE UNCHANGED vars
      BY <2>1 DEF OwnInv, OwnOf, K, A, vars, local
  <2>2. ASSUME NEW w \in Workers, Start(w) PROVE OwnInv'
      BY <2>2, StartKeepsOwn
  <2>3. ASSUME NEW w \in Workers, Continue(w) PROVE OwnInv'
      BY <2>3, StatementKeepsOwn, EndKeepsOwn DEF Continue
  <2> QED BY <2>1, <2>2, <2>3 DEF Next
<1>2. ASSUME ConcInv, OwnInv, Next PROVE Final /\ Stays
  <2>1. PICK w \in Workers : Start(w) \/ Continue(w)
      BY <1>2 DEF Next
  <2>2. CASE UNCHANGED db
      BY <2>2 DEF Final, Stays, Respects
  <2>3. CASE Commit(w)
      BY <1>2, <2>3, CommitRespects
  <2>4. UNCHANGED db \/ Commit(w)
      BY <2>1 DEF Start, Load, StartCreate, Continue, LockMission, CheckPolicy, InsertRow,
                  FindExisting, WriteActivity, LoadParent, UpdateRow, RewriteActivities, Erase,
                  Rollback
  <2> QED BY <2>2, <2>3, <2>4
<1>3. ConcInv /\ OwnInv /\ [Next]_vars => [Final /\ Stays]_vars
    BY <1>2
<1>4. Spec /\ []OneAtATime => [][Final /\ Stays]_vars
    BY <1>1, <1>3, ConcurrentCorrect, OwnInit, PTL DEF Spec
<1>5. [Final /\ Stays]_vars =>
        [\A a \in Assignments : IsLive(db[a]) /\ IsLive(db'[a]) =>
          /\ db[a].status \in Terminal => db'[a].status = db[a].status
          /\ \A s \in Slots : db[a].acts[s].status \in Terminal =>
                db'[a].acts[s].status = db[a].acts[s].status]_vars
    BY DEF Final, Respects
<1>6. [Final /\ Stays]_vars =>
        [\A a \in Assignments : db[a].state = "gone" => db'[a].state = "gone"]_vars
    BY DEF Stays
<1> QED BY <1>4, <1>5, <1>6, PTL DEF TerminalIsFinal, DeletedStaysDeleted

(* Nor is max_total exceeded then.                                         *)
THEOREM ApartTotalHolds == Spec /\ []OneAtATime => []TotalRespected
<1>1. CASE SnapshotReads
    BY <1>1, TotalHolds, PTL
<1>2. CASE ~ SnapshotReads
    BY <1>2, ApartNothingIsLost, TotalHoldsUnlessRevived, PTL
<1> QED BY <1>1, <1>2

-----------------------------------------------------------------------------
(* The promise of an assignment, kept by transactions that keep apart      *)

Phase(row) ==
    CASE ~ IsLive(row)                              -> row.state
      [] IsLive(row) /\ row.status = "UNASSIGNED"   -> "draft"
      [] IsLive(row) /\ row.status \in Active       -> "open"
      [] IsLive(row) /\ row.status = "COMPLETED"    -> "succeeded"
      [] IsLive(row) /\ row.status = "FAILED"       -> "failed"

Done(status) == CASE status = "COMPLETED" -> "done"
                  [] status = "FAILED"    -> "lost"
                  [] OTHER                -> "todo"

WorkOf(row) == [s \in Slots |-> IF IsLive(row) THEN Done(row.acts[s].status) ELSE "todo"]

phases == [a \in Assignments |-> Phase(db[a])]
works  == [a \in Assignments |-> WorkOf(db[a])]

Promise == INSTANCE AssignmentPromise WITH phase <- phases, work <- works

KeepsPromise == Promise!Spec

(* Success means that all work is done.                                    *)
DoneInv ==
    \A a \in Assignments : IsLive(db[a]) /\ db[a].status = "COMPLETED" =>
        \A s \in Slots : db[a].acts[s].status = "COMPLETED"

(* The places at which a saved assignment has still to be written.         *)
Saved(w) == at[w] \in {"find row", "row", "acts", "commit"}
Writes(w) == K(w) \in {"assign", "setStatus", "setActivity"}

(* What a request has made of the status of the row: nothing until it      *)
(* writes, and then what its command is for.                               *)
StatusMade(w) ==
    /\ at[w] \notin {"acts", "commit"} \/ ~ Writes(w) =>
          loaded[w].status = db[A(w)].status /\ existing[w].status = db[A(w)].status
    /\ Writes(w) /\ (at[w] = "acts" \/ (at[w] = "commit" /\ AssignmentRow(A(w)) \in locks[w])) =>
          loaded[w].status = NewStatus(w, db[A(w)])
    /\ K(w) = "setActivity" /\ Saved(w) =>
          NewStatus(w, db[A(w)]) \in {db[A(w)].status} \union StatusTransitions(db[A(w)].status)
    /\ K(w) = "setActivity" /\ at[w] = "commit" /\ AssignmentRow(A(w)) \notin locks[w] =>
          NewStatus(w, db[A(w)]) = db[A(w)].status

(* And of the work: that of the activity the command is for.               *)
Reaches(w, acts) ==
    \A s \in Slots :
       \/ Done(acts[s].status) = Done(db[A(w)].acts[s].status)
       \/ K(w) = "setActivity" /\ s = S(w) /\ acts[s].status = command[w].arg

MadeOf(w) ==
    /\ at[w] = "commit" /\ K(w) = "create" =>
          /\ loaded[w].status \in {"UNASSIGNED", "ASSIGNED"}
          /\ \A s \in Slots : loaded[w].acts[s].status = "UNASSIGNED"
    /\ at[w] # "idle" /\ K(w) # "create" => StatusMade(w) /\ Reaches(w, loaded[w].acts)

MadeInv == \A w \in Workers : MadeOf(w)

(* What a worker does before its commit to itself alone.                   *)
LEMMA OthersKeepMade ==
    ASSUME MadeInv, NEW w \in Workers, UNCHANGED db,
           \A x \in Workers : x # w =>
               /\ at'[x] = at[x] /\ command'[x] = command[x] /\ loaded'[x] = loaded[x]
               /\ existing'[x] = existing[x] /\ locks'[x] = locks[x],
           MadeOf(w)'
    PROVE  MadeInv'
<1>1. ASSUME NEW x \in Workers, x # w PROVE MadeOf(x)'
  <2>1. MadeOf(x)
      BY DEF MadeInv
  <2>2. /\ db'[A(x)'] = db[A(x)] /\ K(x)' = K(x) /\ A(x)' = A(x) /\ S(x)' = S(x)
        /\ \A row : NewStatus(x, row)' = NewStatus(x, row)
      BY <1>1 DEF A, K, S, NewStatus
  <2>3. /\ at'[x] = at[x] /\ command'[x] = command[x] /\ loaded'[x] = loaded[x]
        /\ existing'[x] = existing[x] /\ locks'[x] = locks[x]
      BY <1>1
  <2>4. Writes(x)' = Writes(x) /\ Saved(x)' = Saved(x)
      BY <2>2, <2>3, Zenon DEF Writes, Saved
  <2>5. StatusMade(x) => StatusMade(x)'
      BY <2>2, <2>3, <2>4, Zenon DEF StatusMade
  <2>6. Reaches(x, loaded[x].acts) => Reaches(x, loaded[x].acts)'
      BY <2>2, <2>3, Zenon DEF Reaches
  <2> QED BY <2>1, <2>2, <2>3, <2>5, <2>6, Zenon DEF MadeOf
<1> QED BY <1>1 DEF MadeInv

LEMMA MadeInit == Init => MadeInv
    BY DEF Init, MadeInv, MadeOf

LEMMA StartKeepsMade ==
    ASSUME ConcInv, MadeInv, NEW w \in Workers, Start(w)
    PROVE  MadeInv'
<1> USE DEF ConcInv
<1>1. PICK c \in Commands : Load(w, c) \/ StartCreate(w, c)
    BY DEF Start
<1>2. /\ UNCHANGED db /\ command'[w] = c
      /\ \A x \in Workers : x # w =>
            /\ at'[x] = at[x] /\ command'[x] = command[x] /\ loaded'[x] = loaded[x]
            /\ existing'[x] = existing[x] /\ locks'[x] = locks[x]
    BY <1>1 DEF Load, StartCreate, TypeOK
<1>3. CASE StartCreate(w, c)
  <2>1. at'[w] = "mission" /\ K(w)' = "create"
      BY <1>2, <1>3 DEF StartCreate, TypeOK, K
  <2> QED BY <1>2, <2>1, OthersKeepMade DEF MadeOf
<1>4. CASE Load(w, c)
  <2>1. /\ K(w)' = c.kind /\ K(w)' # "create" /\ A(w)' = c.a /\ db' = db
        /\ loaded'[w] = db[c.a] /\ existing'[w] = db[c.a] /\ at'[w] = FirstWrite(c.kind)
      BY <1>2, <1>4 DEF Load, TypeOK, K, A
  <2>2. at'[w] # "acts" /\ at'[w] # "commit"
      BY <2>1, Zenon DEF FirstWrite, SaveRow, SaveActivity
  <2>3. K(w)' = "setActivity" => ~ Saved(w)'
      BY <2>1, Zenon DEF FirstWrite, SaveActivity, Saved
  <2>4. StatusMade(w)'
      BY <2>1, <2>2, <2>3 DEF StatusMade
  <2>5. Reaches(w, loaded[w].acts)'
      BY <2>1 DEF Reaches
  <2>6. MadeOf(w)'
      BY <2>2, <2>4, <2>5 DEF MadeOf
  <2> QED BY <1>2, <2>6, OthersKeepMade
<1> QED BY <1>1, <1>3, <1>4

(* The status of the activity a command is for, when it is written.        *)
LEMMA ActivityMade ==
    ASSUME NEW c, c.kind \in OnActivities, NEW act, NEW old, NEW row,
           DOMAIN act = {"status", "assignees"},
           Done(act.status) = Done(row.status) \/ (c.kind = "setActivity" /\ act.status = c.arg)
    PROVE  \/ Done(Flush(NewActivity(c, act), old, row).status) = Done(row.status)
           \/ c.kind = "setActivity" /\ Flush(NewActivity(c, act), old, row).status = c.arg
<1> DEFINE made == NewActivity(c, act)
<1>1. Done("UNASSIGNED") = "todo" /\ Done("ASSIGNED") = "todo"
    BY DEF Done
<1>2. /\ "status" \in DOMAIN made
      /\ c.kind # "setActivity" => Done(made.status) = Done(act.status)
      /\ c.kind = "setActivity" => made.status = c.arg
  <2>1. CASE c.kind = "staff"
    <3>1. made = [status    |-> IF act.status = "UNASSIGNED" THEN "ASSIGNED" ELSE act.status,
                  assignees |-> act.assignees \union {c.arg}]
        BY <2>1 DEF NewActivity
    <3> HIDE DEF made
    <3>2. made.status = IF act.status = "UNASSIGNED" THEN "ASSIGNED" ELSE act.status
        BY <3>1
    <3>3. "status" \in DOMAIN made
        BY <3>1
    <3> QED BY <1>1, <2>1, <3>2, <3>3
  <2>2. CASE c.kind = "unstaff"
    <3>1. made = [status    |-> IF act.assignees = {c.arg} /\ act.status = "ASSIGNED"
                                THEN "UNASSIGNED" ELSE act.status,
                  assignees |-> act.assignees \ {c.arg}]
        BY <2>2 DEF NewActivity
    <3> HIDE DEF made
    <3>2. made.status \in {act.status, "UNASSIGNED"}
          /\ (made.status # act.status => act.status = "ASSIGNED")
        BY <3>1
    <3>3. "status" \in DOMAIN made
        BY <3>1
    <3> QED BY <1>1, <2>2, <3>2, <3>3
  <2>3. CASE c.kind = "setActivity"
    <3>1. made = [act EXCEPT !.status = c.arg]
        BY <2>3 DEF NewActivity
    <3> HIDE DEF made
    <3> QED BY <2>3, <3>1
  <2> QED BY <2>1, <2>2, <2>3 DEF OnActivities
<1> HIDE DEF made
<1>3. Flush(made, old, row).status = made.status \/ Flush(made, old, row).status = row.status
    BY <1>2 DEF Flush
<1> DEFINE new == Flush(made, old, row).status
<1>4. Done(new) = Done(row.status) \/ (c.kind = "setActivity" /\ new = c.arg)
  <2> HIDE DEF new
  <2>1. CASE new = row.status
      BY <2>1
  <2>2. CASE new = made.status
      BY <1>2, <2>2
  <2>3. new = made.status \/ new = row.status
      BY <1>3 DEF new
  <2> QED BY <2>1, <2>2, <2>3
<1> QED BY <1>4, Zenon DEF made

LEMMA StatementMakes ==
    ASSUME ConcInv, OwnInv, MadeInv, NEW w \in Workers, K(w) # "create",
           \/ LockMission(w) \/ CheckPolicy(w) \/ InsertRow(w)
           \/ FindExisting(w) \/ WriteActivity(w) \/ LoadParent(w)
           \/ UpdateRow(w) \/ RewriteActivities(w) \/ Erase(w)
    PROVE  MadeOf(w)'
<1> USE DEF ConcInv
<1>1. /\ OwnOf(w) /\ PlaceOf(w) /\ LocksOf(w) /\ MadeOf(w) /\ at[w] # "idle" /\ A(w) \in Assignments
      /\ loaded[w] \in Rows /\ db[A(w)] \in Rows
      /\ K(w) \in OnActivities => S(w) \in Slots
    BY CommandTypes DEF OwnInv, PlaceInv, LocksInv, MadeInv, TypeOK, LockMission, CheckPolicy,
       InsertRow, FindExisting, WriteActivity, LoadParent, UpdateRow, RewriteActivities, Erase
<1>2. IsLive(db[A(w)]) /\ StatusMade(w) /\ Reaches(w, loaded[w].acts)
    BY <1>1 DEF OwnOf, MadeOf
<1>3. /\ db' = db /\ command' = command /\ K(w)' = K(w) /\ A(w)' = A(w) /\ S(w)' = S(w)
      /\ Writes(w)' = Writes(w)
    BY DEF LockMission, CheckPolicy, InsertRow, FindExisting, WriteActivity, LoadParent,
       UpdateRow, RewriteActivities, Erase, K, A, S, Writes
<1>4. /\ \A row : NewStatus(w, row)' = NewStatus(w, row)
      /\ \A acts : Reaches(w, acts)' = Reaches(w, acts)
    BY <1>3 DEF NewStatus, Reaches
<1>5. SUFFICES StatusMade(w)' /\ Reaches(w, loaded'[w].acts)
  <2>1. Reaches(w, loaded'[w].acts) => Reaches(w, loaded[w].acts)'
      BY <1>3, <1>4, Zenon
  <2> QED BY <1>3, <1>5, <2>1 DEF MadeOf
<1>6. CASE LockMission(w) \/ CheckPolicy(w)
  <2>1. /\ loaded' = loaded /\ existing' = existing /\ K(w) = "assign"
        /\ at[w] # "acts" /\ at[w] # "commit" /\ at'[w] # "acts" /\ at'[w] # "commit"
    <3>1. CASE LockMission(w)
        BY <1>1, <3>1 DEF LockMission, PlaceOf, Goto, TypeOK
    <3>2. CASE CheckPolicy(w)
      <4>1. at[w] = "policy" /\ K(w) = "assign" /\ at'[w] = SaveRow
          BY <1>1, <3>2 DEF CheckPolicy, PlaceOf, Goto, TypeOK, K
      <4>2. SaveRow # "acts" /\ SaveRow # "commit"
          BY DEF SaveRow
      <4> QED BY <3>2, <4>1, <4>2 DEF CheckPolicy
    <3> QED BY <1>6, <3>1, <3>2
  <2>2. StatusMade(w)'
      BY <1>2, <1>3, <2>1 DEF StatusMade
  <2> QED BY <1>2, <2>1, <2>2
<1>7. CASE FindExisting(w)
  <2>1. /\ loaded' = loaded /\ existing'[w] = db[A(w)]
        /\ at[w] # "acts" /\ at[w] # "commit" /\ at'[w] # "acts" /\ at'[w] # "commit"
      BY <1>7 DEF FindExisting, Goto, TypeOK
  <2>2. Saved(w)' => Saved(w)
      BY <1>7 DEF FindExisting, Goto, TypeOK, Saved
  <2>3. StatusMade(w)'
      BY <1>2, <1>3, <1>4, <2>1, <2>2 DEF StatusMade
  <2> QED BY <1>2, <2>1, <2>3
<1>8. CASE WriteActivity(w)
  <2>1. K(w) \in OnActivities /\ S(w) \in Slots /\ at[w] = "activity"
      BY <1>1, <1>8 DEF WriteActivity, PlaceOf
  <2> DEFINE act == Flush(NewActivity(command[w], loaded[w].acts[S(w)]),
                          existing[w].acts[S(w)], db[A(w)].acts[S(w)])
  <2>2. loaded'[w] = [loaded[w] EXCEPT !.acts[S(w)] = act] /\ existing' = existing
      BY <1>8 DEF WriteActivity, TypeOK
  <2>3. \/ Done(act.status) = Done(db[A(w)].acts[S(w)].status)
        \/ K(w) = "setActivity" /\ act.status = command[w].arg
    <3>1. DOMAIN loaded[w].acts[S(w)] = {"status", "assignees"}
        BY <1>1, <2>1 DEF Rows
    <3>2. \/ Done(loaded[w].acts[S(w)].status) = Done(db[A(w)].acts[S(w)].status)
          \/ K(w) = "setActivity" /\ loaded[w].acts[S(w)].status = command[w].arg
        BY <1>2, <2>1 DEF Reaches
    <3>3. PICK c, l, e, r : /\ c = command[w] /\ l = loaded[w].acts[S(w)]
                            /\ e = existing[w].acts[S(w)] /\ r = db[A(w)].acts[S(w)]
        OBVIOUS
    <3>4. c.kind = K(w) /\ act = Flush(NewActivity(c, l), e, r)
        BY <3>3 DEF K
    <3> HIDE DEF act
    <3>5. c.kind \in OnActivities /\ DOMAIN l = {"status", "assignees"}
          /\ (Done(l.status) = Done(r.status) \/ (c.kind = "setActivity" /\ l.status = c.arg))
        BY <2>1, <3>1, <3>2, <3>3, <3>4
    <3>6. \/ Done(Flush(NewActivity(c, l), e, r).status) = Done(r.status)
          \/ c.kind = "setActivity" /\ Flush(NewActivity(c, l), e, r).status = c.arg
        BY <3>5, ActivityMade
    <3> QED BY <3>3, <3>4, <3>6
  <2> HIDE DEF act
  <2>4. /\ loaded'[w].status = loaded[w].status
        /\ \A s \in Slots : loaded'[w].acts[s] = IF s = S(w) THEN act ELSE loaded[w].acts[s]
      BY <1>1, <2>1, <2>2 DEF Rows
  <2>5. Reaches(w, loaded'[w].acts)
      BY <1>2, <2>3, <2>4 DEF Reaches
  <2>6. at'[w] = IF K(w) = "setActivity" THEN "parent" ELSE "commit"
      BY <1>8 DEF WriteActivity, Goto, TypeOK, K
  <2>7. K(w) = "setActivity" => ~ Saved(w)'
      BY <2>6 DEF Saved
  <2>8. StatusMade(w)'
    <3>1. loaded'[w].status = db[A(w)].status /\ existing'[w].status = db[A(w)].status
        BY <1>2, <2>1, <2>2, <2>4 DEF StatusMade
    <3>2. K(w) # "setActivity" => ~ Writes(w)
        BY <2>1 DEF OnActivities, Writes
    <3> QED BY <1>3, <2>6, <2>7, <3>1, <3>2 DEF StatusMade
  <2> QED BY <2>5, <2>8
<1>9. CASE LoadParent(w)
  <2>1. K(w) = "setActivity" /\ S(w) \in Slots /\ at[w] = "parent"
      BY <1>1, <1>9 DEF LoadParent, PlaceOf, OnActivities
  <2>2. loaded'[w] = Parent(w) /\ existing'[w] = Parent(w) /\ locks' = locks
      BY <1>9 DEF LoadParent, TypeOK
  <2>3. AssignmentRow(A(w)) \notin locks[w]
      BY <1>1, <2>1 DEF LocksOf
  <2>4. loaded[w].status = db[A(w)].status
      BY <1>2, <2>1 DEF StatusMade
  <2>5. Parent(w).status = db[A(w)].status /\ Reaches(w, Parent(w).acts)
    <3>1. CASE Parent(w) = loaded[w]
        BY <1>2, <2>4, <3>1
    <3>2. CASE Parent(w) = [db[A(w)] EXCEPT !.acts[S(w)] = loaded[w].acts[S(w)]]
      <4>1. /\ Parent(w).status = db[A(w)].status
            /\ \A s \in Slots : Parent(w).acts[s] = IF s = S(w) THEN loaded[w].acts[s]
                                                    ELSE db[A(w)].acts[s]
          BY <1>1, <2>1, <3>2 DEF Rows
      <4> QED BY <1>2, <4>1 DEF Reaches
    <3> QED BY <3>1, <3>2 DEF Parent
  <2>6. NewStatus(w, Parent(w)) = NewStatus(w, db[A(w)])
      BY <2>1, <2>5 DEF NewStatus, K
  <2>7. NewStatus(w, db[A(w)]) \in {db[A(w)].status} \union StatusTransitions(db[A(w)].status)
      BY <1>9, <2>5, <2>6 DEF LoadParent, CascadeAllowed
  <2>8. /\ at'[w] # "acts"
        /\ at'[w] = "commit" => NewStatus(w, db[A(w)]) = db[A(w)].status
    <3>1. SaveRow # "commit" /\ SaveRow # "acts"
        BY DEF SaveRow
    <3>2. at'[w] = IF NewStatus(w, Parent(w)) = Parent(w).status THEN "commit" ELSE SaveRow
        BY <1>9 DEF LoadParent, Goto, TypeOK
    <3> QED BY <2>5, <2>6, <3>1, <3>2
  <2>9. StatusMade(w)'
    <3>1. loaded'[w].status = db[A(w)].status /\ existing'[w].status = db[A(w)].status
        BY <2>2, <2>5
    <3>2. locks'[w] = locks[w] /\ NewStatus(w, db[A(w)])' = NewStatus(w, db[A(w)])
        BY <1>3, <2>2 DEF NewStatus
    <3> QED BY <1>3, <2>3, <2>7, <2>8, <3>1, <3>2 DEF StatusMade
  <2> QED BY <2>2, <2>5, <2>9
<1>10. CASE UpdateRow(w)
  <2>1. Writes(w) /\ at[w] = "row" /\ at'[w] = "acts"
      BY <1>1, <1>10 DEF UpdateRow, PlaceOf, Goto, TypeOK, Writes
  <2> DEFINE new == [status |-> NewStatus(w, loaded[w]), assignee |-> NewAssignee(w)]
             row == Flush(new, existing[w], db[A(w)])
  <2>2. loaded'[w] = [loaded[w] EXCEPT !.status = row.status, !.assignee = row.assignee]
      BY <1>2, <1>10 DEF UpdateRow, TypeOK
  <2>3. loaded[w].status = db[A(w)].status /\ existing[w].status = db[A(w)].status
      BY <1>2, <2>1 DEF StatusMade
  <2>4. new.status = NewStatus(w, db[A(w)])
      BY <2>3 DEF NewStatus
  <2>5. row.status = new.status
      BY <2>3 DEF Flush
  <2> HIDE DEF row, new
  <2>6. loaded'[w].status = row.status /\ loaded'[w].acts = loaded[w].acts
      BY <1>1, <2>2 DEF Rows
  <2>7. Saved(w)
      BY <2>1 DEF Saved
  <2>8. NewStatus(w, db[A(w)])' = NewStatus(w, db[A(w)])
      BY <1>3 DEF NewStatus
  <2>9. StatusMade(w)'
      BY <1>2, <1>3, <2>1, <2>4, <2>5, <2>6, <2>7, <2>8 DEF StatusMade
  <2> QED BY <1>2, <2>6, <2>9
<1>11. CASE RewriteActivities(w)
  <2>1. /\ at[w] = "acts" /\ at'[w] = "commit" /\ loaded' = loaded
        /\ AssignmentRow(A(w)) \in locks'[w] /\ Writes(w)
      BY <1>1, <1>11 DEF RewriteActivities, Lock, Goto, TypeOK, LocksOf, PlaceOf, Writes
  <2>2. Saved(w)
      BY <2>1 DEF Saved
  <2>3. NewStatus(w, db[A(w)])' = NewStatus(w, db[A(w)])
      BY <1>3 DEF NewStatus
  <2>4. StatusMade(w)'
      BY <1>2, <1>3, <2>1, <2>2, <2>3 DEF StatusMade
  <2> QED BY <1>2, <2>1, <2>4
<1>12. CASE Erase(w)
  <2>1. K(w) = "delete" /\ loaded' = loaded /\ existing' = existing
      BY <1>1, <1>12 DEF Erase, PlaceOf
  <2>2. ~ Writes(w)
      BY <2>1 DEF Writes
  <2>3. StatusMade(w)'
      BY <1>2, <1>3, <2>1, <2>2 DEF StatusMade
  <2> QED BY <1>2, <2>1, <2>3
<1>13. ~ InsertRow(w)
    BY <1>1 DEF InsertRow, PlaceOf
<1> QED BY <1>6, <1>7, <1>8, <1>9, <1>10, <1>11, <1>12, <1>13

LEMMA StatementKeepsMade ==
    ASSUME ConcInv, OwnInv, MadeInv, NEW w \in Workers,
           \/ LockMission(w) \/ CheckPolicy(w) \/ InsertRow(w)
           \/ FindExisting(w) \/ WriteActivity(w) \/ LoadParent(w)
           \/ UpdateRow(w) \/ RewriteActivities(w) \/ Erase(w)
    PROVE  MadeInv'
<1> USE DEF ConcInv
<1>1. /\ UNCHANGED <<db, command>> /\ K(w)' = K(w) /\ PlaceOf(w)
      /\ \A x \in Workers : x # w => at'[x] = at[x]
    BY DEF LockMission, CheckPolicy, InsertRow, FindExisting, WriteActivity, LoadParent,
       UpdateRow, RewriteActivities, Erase, Goto, TypeOK, K, PlaceInv
<1>2. \A x \in Workers : x # w => loaded'[x] = loaded[x] /\ existing'[x] = existing[x]
    BY DEF LockMission, CheckPolicy, InsertRow, FindExisting, WriteActivity, LoadParent,
       UpdateRow, RewriteActivities, Erase, TypeOK
<1>3. \A x \in Workers : x # w => locks'[x] = locks[x]
    BY DEF LockMission, CheckPolicy, InsertRow, FindExisting, WriteActivity, LoadParent,
       UpdateRow, RewriteActivities, Erase, TakeMission, Lock, TypeOK
<1>4. MadeOf(w)'
  <2>1. CASE K(w) # "create"
      BY <2>1, StatementMakes
  <2>2. CASE K(w) = "create" /\ InsertRow(w)
    <3>1. loaded'[w] = [Blank("live") EXCEPT
                           !.assignee = command[w].arg,
                           !.status = IF command[w].arg = NoOne THEN "UNASSIGNED" ELSE "ASSIGNED"]
        BY <2>2 DEF InsertRow, TypeOK
    <3>2. loaded'[w].status \in {"UNASSIGNED", "ASSIGNED"}
          /\ loaded'[w].acts = Blank("live").acts
        BY <3>1 DEF Blank
    <3>3. \A s \in Slots : loaded'[w].acts[s].status = "UNASSIGNED"
        BY <3>2 DEF Blank
    <3> QED BY <1>1, <2>2, <3>2, <3>3 DEF MadeOf
  <2>3. CASE K(w) = "create" /\ ~ InsertRow(w)
    <3>1. at'[w] # "commit"
      <4>1. CASE LockMission(w)
          BY <4>1 DEF LockMission, Goto, TypeOK
      <4>2. CASE CheckPolicy(w)
          BY <2>3, <4>2 DEF CheckPolicy, Goto, TypeOK, K
      <4>3. CASE FindExisting(w)
          BY <4>3 DEF FindExisting, Goto, TypeOK
      <4>4. ~ (WriteActivity(w) \/ LoadParent(w))
          BY <1>1, <2>3 DEF WriteActivity, LoadParent, PlaceOf, OnActivities
      <4>5. ~ (UpdateRow(w) \/ RewriteActivities(w) \/ Erase(w))
          BY <1>1, <2>3 DEF UpdateRow, RewriteActivities, Erase, PlaceOf
      <4> QED BY <2>3, <4>1, <4>2, <4>3, <4>4, <4>5
    <3> QED BY <1>1, <2>3, <3>1 DEF MadeOf
  <2> QED BY <2>1, <2>2, <2>3
<1> QED BY <1>1, <1>2, <1>3, <1>4, OthersKeepMade

LEMMA EndKeepsMade ==
    ASSUME ConcInv, OneAtATime, MadeInv, NEW w \in Workers, Commit(w) \/ Rollback(w)
    PROVE  MadeInv'
<1> USE DEF ConcInv
<1>1. /\ at'[w] = "idle"
      /\ \A x \in Workers : x # w =>
            at'[x] = at[x] \/ (at'[x] = "missed" /\ at[x] \in {"activity", "erase"})
  <2>1. CASE Rollback(w)
      BY <2>1 DEF Rollback, Goto, TypeOK
  <2>2. CASE Commit(w)
    <3>1. PICK begun \in SUBSET Overtaken(w) :
              at' = [x \in Workers |-> IF x = w THEN "idle"
                                       ELSE IF x \in begun THEN "missed" ELSE at[x]]
        BY <2>2 DEF Commit
    <3>2. \A x \in begun : at[x] \in {"activity", "erase"}
        BY DEF Overtaken
    <3> QED BY <3>1, <3>2
  <2> QED BY <2>1, <2>2
<1>2. \A x \in Workers : x # w =>
          /\ command'[x] = command[x] /\ loaded'[x] = loaded[x]
          /\ existing'[x] = existing[x] /\ locks'[x] = locks[x]
    BY DEF Commit, Rollback, Ended, TypeOK
<1>3. ASSUME NEW x \in Workers PROVE MadeOf(x)'
  <2>1. CASE x = w
      BY <1>1, <2>1 DEF MadeOf
  <2>2. CASE x # w /\ at[x] = "idle"
      BY <1>1, <2>2 DEF MadeOf
  <2>3. CASE x # w /\ at[x] # "idle"
    <3>1. /\ MadeOf(x) /\ A(x) \in Assignments /\ K(x)' = K(x) /\ A(x)' = A(x) /\ S(x)' = S(x)
          /\ Writes(x)' = Writes(x) /\ \A row : NewStatus(x, row)' = NewStatus(x, row)
        BY <1>2, <2>3, CommandTypes DEF MadeInv, K, A, S, Writes, NewStatus
    <3>2. db'[A(x)] = db[A(x)]
      <4>1. CASE Rollback(w)
          BY <4>1 DEF Rollback
      <4>2. CASE Commit(w)
        <5>1. A(x) # A(w)
            BY <2>3, <4>2 DEF OneAtATime, Commit
        <5> QED BY <3>1, <4>2, <5>1, CommitWrites
      <4> QED BY <4>1, <4>2
    <3>3. /\ command'[x] = command[x] /\ loaded'[x] = loaded[x]
          /\ existing'[x] = existing[x] /\ locks'[x] = locks[x]
        BY <1>2, <2>3
    <3>4. Reaches(x, loaded[x].acts) => Reaches(x, loaded[x].acts)'
        BY <3>1, <3>2, <3>3, Zenon DEF Reaches
    <3>5. CASE at'[x] = at[x]
      <4>1. Saved(x)' = Saved(x)
          BY <3>5, Zenon DEF Saved
      <4>2. StatusMade(x) => StatusMade(x)'
          BY <3>1, <3>2, <3>3, <3>5, <4>1, Zenon DEF StatusMade
      <4> QED BY <3>1, <3>3, <3>4, <3>5, <4>2, Zenon DEF MadeOf
    <3>6. CASE at'[x] = "missed" /\ at[x] \in {"activity", "erase"}
      <4>1. at[x] # "commit" /\ at[x] # "acts"
          BY <3>6
      <4>2. ~ Saved(x)'
          BY <3>6, Zenon DEF Saved
      <4>3. StatusMade(x) => StatusMade(x)'
          BY <3>1, <3>2, <3>3, <3>6, <4>1, <4>2 DEF StatusMade
      <4> QED BY <2>3, <3>1, <3>3, <3>4, <3>6, <4>3 DEF MadeOf
    <3> QED BY <1>1, <2>3, <3>5, <3>6
  <2> QED BY <2>1, <2>2, <2>3
<1> QED BY <1>3 DEF MadeInv

(* What a commit makes of the row.                                         *)
LEMMA CommitMakes ==
    ASSUME ConcInv, OwnInv, MadeInv, NEW w \in Workers, Commit(w), K(w) \notin {"create", "delete"}
    PROVE  /\ IsLive(db[A(w)]) /\ IsLive(db'[A(w)]) /\ Accepts(command[w], db[A(w)])
           /\ ~ Writes(w) => db'[A(w)].status = db[A(w)].status
           /\ Writes(w) => db'[A(w)].status = NewStatus(w, db[A(w)])
           /\ K(w) = "setActivity" => NewStatus(w, db[A(w)])
                 \in {db[A(w)].status} \union StatusTransitions(db[A(w)].status)
           /\ Reaches(w, db'[A(w)].acts)
<1> USE DEF ConcInv
<1>1. /\ A(w) \in Assignments /\ at[w] = "commit" /\ db[A(w)] \in Rows /\ loaded[w] \in Rows
      /\ PlaceOf(w) /\ OwnOf(w) /\ MadeOf(w) /\ (K(w) \in OnActivities => S(w) \in Slots)
    BY CommandTypes DEF Commit, TypeOK, PlaceInv, OwnInv, MadeInv
<1>2. db'[A(w)] = Written(w)
    BY <1>1 DEF Commit, TypeOK
<1>3. /\ IsLive(db[A(w)]) /\ Accepts(command[w], db[A(w)])
      /\ StatusMade(w) /\ Reaches(w, loaded[w].acts)
    BY <1>1 DEF OwnOf, MadeOf
<1>4. Saved(w)
    BY <1>1 DEF Saved
<1>5. K(w) = "setActivity" =>
          NewStatus(w, db[A(w)]) \in {db[A(w)].status} \union StatusTransitions(db[A(w)].status)
    BY <1>3, <1>4 DEF StatusMade
<1>6. CASE AssignmentRow(A(w)) \in locks[w]
  <2>1. Written(w).state = "live" /\ Written(w).status = loaded[w].status
        /\ Written(w).acts = loaded[w].acts
      BY <1>1, <1>6 DEF Written, K, Rows
  <2>2. ~ Writes(w) => loaded[w].status = db[A(w)].status
      BY <1>3 DEF StatusMade
  <2>3. Writes(w) => loaded[w].status = NewStatus(w, db[A(w)])
      BY <1>1, <1>3, <1>6 DEF StatusMade
  <2> QED BY <1>2, <1>3, <1>5, <2>1, <2>2, <2>3 DEF IsLive
<1>7. CASE AssignmentRow(A(w)) \notin locks[w]
  <2>1. S(w) \in Slots /\ K(w) \in OnActivities
      BY <1>1, <1>7 DEF PlaceOf
  <2>2. /\ Written(w).state = db[A(w)].state /\ Written(w).status = db[A(w)].status
        /\ \A s \in Slots : Written(w).acts[s] = IF s = S(w) THEN loaded[w].acts[s]
                                                 ELSE db[A(w)].acts[s]
      BY <1>1, <1>7, <2>1 DEF Written, K, Rows
  <2>3. Reaches(w, Written(w).acts)
      BY <1>3, <2>2 DEF Reaches
  <2>4. Writes(w) => db[A(w)].status = NewStatus(w, db[A(w)])
    <3>1. Writes(w) => K(w) = "setActivity"
        BY <2>1 DEF OnActivities, Writes
    <3> QED BY <1>1, <1>3, <1>7, <3>1 DEF StatusMade
  <2> QED BY <1>2, <1>3, <1>5, <2>2, <2>3, <2>4 DEF IsLive
<1> QED BY <1>6, <1>7

(* The steps of the promise, of one assignment.                            *)
Moves(p, k, p2, k2) ==
    \/ p2 = p /\ k2 = k
    \/ p = "none" /\ p2 \in {"draft", "open"} /\ k2 = k
    \/ p = "draft" /\ p2 = "open" /\ k2 = k
    \/ p = "open" /\ p2 = "succeeded" /\ k2 = k /\ \A s \in Slots : k[s] = "done"
    \/ p = "open" /\ p2 = "failed" /\ k2 = k
    \/ \E s \in Slots : /\ p \in {"draft", "open", "failed"} /\ p2 = p
                        /\ k[s] = "todo" /\ k2 = [k EXCEPT ![s] = "done"]
    \/ \E s \in Slots : /\ p \in {"open", "failed"} /\ p2 = "failed"
                        /\ k[s] = "todo" /\ k2 = [k EXCEPT ![s] = "lost"]
    \/ p \in {"draft", "open", "succeeded", "failed"} /\ p2 = "gone"
       /\ k2 = [s \in Slots |-> "todo"]

LEMMA PhaseFacts ==
    ASSUME NEW row \in Rows
    PROVE  /\ ~ IsLive(row) => Phase(row) = row.state
           /\ IsLive(row) =>
                /\ Phase(row) \in {"draft", "open", "succeeded", "failed"}
                /\ Phase(row) = "draft" <=> row.status = "UNASSIGNED"
                /\ Phase(row) = "open" <=> row.status \in {"ASSIGNED", "IN_PROGRESS"}
                /\ Phase(row) = "succeeded" <=> row.status = "COMPLETED"
                /\ Phase(row) = "failed" <=> row.status = "FAILED"
<1>1. row.status \in Status
    BY DEF Rows
<1>2. CASE ~ IsLive(row)
    BY <1>2 DEF Phase
<1>3. CASE IsLive(row) /\ row.status = "UNASSIGNED"
  <2>1. Phase(row) = "draft"
      BY <1>3 DEF Phase, Active
  <2> QED BY <1>3, <2>1
<1>4. CASE IsLive(row) /\ row.status \in Active
  <2>1. Phase(row) = "open"
      BY <1>4 DEF Phase, Active
  <2> QED BY <1>4, <2>1 DEF Active
<1>5. CASE IsLive(row) /\ row.status = "COMPLETED"
  <2>1. Phase(row) = "succeeded"
      BY <1>5 DEF Phase, Active
  <2> QED BY <1>5, <2>1
<1>6. CASE IsLive(row) /\ row.status = "FAILED"
  <2>1. Phase(row) = "failed"
      BY <1>6 DEF Phase, Active
  <2> QED BY <1>6, <2>1
<1> QED BY <1>1, <1>2, <1>3, <1>4, <1>5, <1>6 DEF Status, Active

LEMMA DoneFacts ==
    /\ Done("UNASSIGNED") = "todo" /\ Done("ASSIGNED") = "todo" /\ Done("IN_PROGRESS") = "todo"
    /\ Done("COMPLETED") = "done" /\ Done("FAILED") = "lost"
    BY DEF Done

(* Only a command on an activity changes the work.                         *)
LEMMA WorkKept ==
    ASSUME NEW w \in Workers, IsLive(db[A(w)]), NEW row, IsLive(row), Reaches(w, row.acts),
           K(w) # "setActivity"
    PROVE  WorkOf(row) = WorkOf(db[A(w)])
<1>1. \A s \in Slots : Done(row.acts[s].status) = Done(db[A(w)].acts[s].status)
    BY DEF Reaches
<1> QED BY <1>1 DEF WorkOf

LEMMA WorkReached ==
    ASSUME NEW w \in Workers, IsLive(db[A(w)]), NEW row, IsLive(row), Reaches(w, row.acts),
           K(w) = "setActivity", S(w) \in Slots
    PROVE  \/ WorkOf(row) = WorkOf(db[A(w)])
           \/ WorkOf(row) = [WorkOf(db[A(w)]) EXCEPT ![S(w)] = Done(command[w].arg)]
<1>1. \A s \in Slots : s # S(w) => Done(row.acts[s].status) = Done(db[A(w)].acts[s].status)
    BY DEF Reaches
<1>2. \/ Done(row.acts[S(w)].status) = Done(db[A(w)].acts[S(w)].status)
      \/ Done(row.acts[S(w)].status) = Done(command[w].arg)
    BY DEF Reaches
<1>3. CASE Done(row.acts[S(w)].status) = Done(db[A(w)].acts[S(w)].status)
    BY <1>1, <1>3 DEF WorkOf
<1>4. CASE Done(row.acts[S(w)].status) = Done(command[w].arg)
    BY <1>1, <1>4 DEF WorkOf
<1> QED BY <1>2, <1>3, <1>4

LEMMA Requested ==
    ASSUME NEW current \in Status, NEW requested, MayRequest(current, requested)
    PROVE  \/ current = "UNASSIGNED" /\ requested = "ASSIGNED"
           \/ current = "ASSIGNED" /\ requested \in {"IN_PROGRESS", "FAILED"}
           \/ current = "IN_PROGRESS" /\ requested \in {"COMPLETED", "FAILED"}
    BY DEF MayRequest, StatusTransitions, Status

LEMMA OutcomeMeansDone ==
    ASSUME NEW row, OutcomeOf(row) = "COMPLETED", NEW y \in Slots
    PROVE  row.acts[y].status = "COMPLETED"
<1> DEFINE Of(t) == {row.acts[s].status : s \in {x \in Slots : ObjectiveOf[x] = ObjectiveOf[t]}}
<1>1. \A X : Aggregate(X) = "COMPLETED" => X = {"COMPLETED"}
    BY DEF Aggregate
<1>2. OutcomeOf(row) = Aggregate({Aggregate(Of(t)) : t \in Slots})
    BY DEF OutcomeOf
<1>3. row.acts[y].status \in Of(y)
    OBVIOUS
<1> HIDE DEF Of
<1>4. {Aggregate(Of(t)) : t \in Slots} = {"COMPLETED"}
    BY <1>1, <1>2
<1>5. Aggregate(Of(y)) = "COMPLETED"
    BY <1>4
<1> QED BY <1>1, <1>3, <1>5

(* An assigned draft is open; a status asked for is one a person may ask   *)
(* for, and success only with all work done.                               *)
LEMMA StatusMoves ==
    ASSUME ConcInv, OwnInv, MadeInv, NEW w \in Workers, Commit(w), K(w) \in {"assign", "setStatus"}
    PROVE  Moves(Phase(db[A(w)]), WorkOf(db[A(w)]), Phase(db'[A(w)]), WorkOf(db'[A(w)]))
<1> DEFINE old == db[A(w)]
           new == db'[A(w)]
<1>1. /\ IsLive(old) /\ IsLive(new) /\ Accepts(command[w], old) /\ Reaches(w, new.acts)
      /\ new.status = NewStatus(w, old)
    BY CommitMakes DEF Writes
<1>2. old \in Rows /\ new \in Rows /\ old.status \in Status
  <2>1. A(w) \in Assignments /\ at[w] = "commit" /\ db[A(w)] \in Rows
      BY CommandTypes DEF Commit, ConcInv, TypeOK
  <2>2. db'[A(w)] = Written(w)
      BY <2>1 DEF Commit, ConcInv, TypeOK
  <2> QED BY <2>1, <2>2, WrittenIsRow DEF Rows
<1>3. WorkOf(new) = WorkOf(old)
    BY <1>1, WorkKept
<1> HIDE DEF old, new
<1>4. CASE K(w) = "assign"
  <2>1. old.status = "UNASSIGNED" /\ new.status = "ASSIGNED"
      BY <1>1, <1>4 DEF Accepts, NewStatus, K
  <2>2. Phase(old) = "draft" /\ Phase(new) = "open"
      BY <1>1, <1>2, <2>1, PhaseFacts
  <2> QED BY <1>3, <2>2 DEF Moves, old, new
<1>5. CASE K(w) = "setStatus"
  <2>1. /\ MayRequest(old.status, command[w].arg) /\ new.status = command[w].arg
        /\ command[w].arg = "COMPLETED" => OutcomeOf(old) = "COMPLETED"
      BY <1>1, <1>5 DEF Accepts, NewStatus, K
  <2>2. CASE old.status = "UNASSIGNED" /\ new.status = "ASSIGNED"
    <3>1. Phase(old) = "draft" /\ Phase(new) = "open"
        BY <1>1, <1>2, <2>2, PhaseFacts
    <3> QED BY <1>3, <3>1 DEF Moves, old, new
  <2>3. CASE old.status = "ASSIGNED" /\ new.status = "IN_PROGRESS"
    <3>1. Phase(old) = "open" /\ Phase(new) = "open"
        BY <1>1, <1>2, <2>3, PhaseFacts
    <3> QED BY <1>3, <3>1 DEF Moves, old, new
  <2>4. CASE old.status \in {"ASSIGNED", "IN_PROGRESS"} /\ new.status = "FAILED"
    <3>1. Phase(old) = "open" /\ Phase(new) = "failed"
        BY <1>1, <1>2, <2>4, PhaseFacts
    <3> QED BY <1>3, <3>1 DEF Moves, old, new
  <2>5. CASE old.status = "IN_PROGRESS" /\ new.status = "COMPLETED"
    <3>1. Phase(old) = "open" /\ Phase(new) = "succeeded"
        BY <1>1, <1>2, <2>5, PhaseFacts
    <3>2. \A s \in Slots : WorkOf(old)[s] = "done"
        BY <1>1, <2>1, <2>5, OutcomeMeansDone, DoneFacts DEF WorkOf
    <3> QED BY <1>3, <3>1, <3>2 DEF Moves, old, new
  <2> QED BY <1>2, <2>1, <2>2, <2>3, <2>4, <2>5, Requested
<1> QED BY <1>4, <1>5

(* Staffing changes neither phase nor work.                                *)
LEMMA StaffingMoves ==
    ASSUME ConcInv, OwnInv, MadeInv, NEW w \in Workers, Commit(w), K(w) \in {"staff", "unstaff"}
    PROVE  Moves(Phase(db[A(w)]), WorkOf(db[A(w)]), Phase(db'[A(w)]), WorkOf(db'[A(w)]))
<1>1. /\ IsLive(db[A(w)]) /\ IsLive(db'[A(w)]) /\ Reaches(w, db'[A(w)].acts)
      /\ db'[A(w)].status = db[A(w)].status
    BY CommitMakes DEF Writes
<1>2. WorkOf(db'[A(w)]) = WorkOf(db[A(w)])
    BY <1>1, WorkKept
<1>3. Phase(db'[A(w)]) = Phase(db[A(w)])
  <2>1. db'[A(w)].state = db[A(w)].state
      BY <1>1 DEF IsLive
  <2> QED BY <1>1, <2>1, Zenon DEF Phase, IsLive
<1> QED BY <1>2, <1>3 DEF Moves

(* Work is done or lost, and a loss is one of the assignment.              *)
LEMMA ActivityMoves ==
    ASSUME ConcInv, OwnInv, MadeInv, DoneInv, NEW w \in Workers, Commit(w), K(w) = "setActivity"
    PROVE  Moves(Phase(db[A(w)]), WorkOf(db[A(w)]), Phase(db'[A(w)]), WorkOf(db'[A(w)]))
<1> DEFINE old == db[A(w)]
           new == db'[A(w)]
           arg == command[w].arg
<1>1. /\ IsLive(old) /\ IsLive(new) /\ Accepts(command[w], old) /\ Reaches(w, new.acts)
      /\ new.status = NewStatus(w, old)
      /\ NewStatus(w, old) \in {old.status} \union StatusTransitions(old.status)
    BY CommitMakes DEF Writes
<1>2. /\ old \in Rows /\ new \in Rows /\ old.status \in Status
      /\ A(w) \in Assignments /\ S(w) \in Slots /\ old.acts[S(w)].status \in Status
  <2>1. A(w) \in Assignments /\ at[w] = "commit" /\ db[A(w)] \in Rows /\ S(w) \in Slots
      BY CommandTypes DEF Commit, ConcInv, TypeOK, OnActivities
  <2>2. db'[A(w)] = Written(w)
      BY <2>1 DEF Commit, ConcInv, TypeOK
  <2> QED BY <2>1, <2>2, WrittenIsRow DEF Rows
<1>3. \/ WorkOf(new) = WorkOf(old)
      \/ WorkOf(new) = [WorkOf(old) EXCEPT ![S(w)] = Done(arg)]
    BY <1>1, <1>2, WorkReached
<1>4. MayRequest(old.acts[S(w)].status, arg) /\ new.status = CascadeTo(old.status, arg)
    BY <1>1 DEF Accepts, NewStatus, K, S
<1>5. old.status # "COMPLETED"
    BY <1>1, <1>2, <1>4, TerminalStays DEF DoneInv, Terminal
<1>6. WorkOf(old)[S(w)] = "todo"
  <2>1. Done(old.acts[S(w)].status) = "todo"
      BY <1>2, <1>4, Requested, DoneFacts
  <2> QED BY <1>1, <1>2, <2>1 DEF WorkOf
<1>7. DOMAIN WorkOf(old) = Slots
    BY DEF WorkOf
<1> HIDE DEF old, new, arg
<1>8. CASE arg \in {"ASSIGNED", "IN_PROGRESS"}
  <2>1. WorkOf(new) = WorkOf(old)
    <3>1. Done(arg) = "todo"
        BY <1>8, DoneFacts
    <3>2. [WorkOf(old) EXCEPT ![S(w)] = "todo"] = WorkOf(old)
        BY <1>6, <1>7 DEF WorkOf
    <3> QED BY <1>3, <3>1, <3>2
  <2>2. Phase(new) = Phase(old)
    <3>1. \/ new.status = old.status
          \/ old.status = "ASSIGNED" /\ new.status = "IN_PROGRESS"
        BY <1>4, <1>8 DEF CascadeTo
    <3> QED BY <1>1, <1>2, <3>1, PhaseFacts DEF Phase, Active
  <2> QED BY <2>1, <2>2 DEF Moves, old, new
<1>9. CASE arg = "COMPLETED"
  <2>1. new.status = old.status
      BY <1>4, <1>9 DEF CascadeTo
  <2>2. Phase(new) = Phase(old) /\ Phase(old) \in {"draft", "open", "failed"}
      BY <1>1, <1>2, <1>5, <2>1, PhaseFacts DEF Phase
  <2>3. Done(arg) = "done"
      BY <1>9, DoneFacts
  <2> QED BY <1>2, <1>3, <1>6, <2>2, <2>3 DEF Moves, old, new
<1>10. CASE arg = "FAILED"
  <2>1. Phase(new) = "failed" /\ Phase(old) \in {"open", "failed"}
    <3>1. CASE old.status = "FAILED"
      <4>1. new.status = "FAILED"
          BY <1>4, <3>1, TerminalStays DEF Terminal
      <4> QED BY <1>1, <1>2, <3>1, <4>1, PhaseFacts
    <3>2. CASE old.status # "FAILED"
      <4>1. new.status = "FAILED"
          BY <1>4, <1>5, <1>10, <3>2 DEF CascadeTo, Terminal
      <4>2. old.status # "UNASSIGNED"
          BY <1>1, <3>2, <4>1 DEF StatusTransitions
      <4>3. old.status \in {"ASSIGNED", "IN_PROGRESS"}
          BY <1>2, <1>5, <3>2, <4>2 DEF Status
      <4> QED BY <1>1, <1>2, <4>1, <4>3, PhaseFacts
    <3> QED BY <3>1, <3>2
  <2>2. Done(arg) = "lost"
      BY <1>10, DoneFacts
  <2> QED BY <1>2, <1>3, <1>6, <2>1, <2>2 DEF Moves, old, new
<1> QED BY <1>2, <1>4, <1>8, <1>9, <1>10, Requested

LEMMA AppearMoves ==
    ASSUME ConcInv, MadeInv, NEW w \in Workers, Commit(w), K(w) = "create"
    PROVE  Moves(Phase(db[A(w)]), WorkOf(db[A(w)]), Phase(db'[A(w)]), WorkOf(db'[A(w)]))
<1> USE DEF ConcInv
<1>1. /\ A(w) \in Assignments /\ at[w] = "commit" /\ loaded[w] \in Rows /\ PlaceOf(w)
      /\ db[A(w)].state = "none" /\ db[A(w)] \in Rows
    BY CommandTypes, CommitWrites DEF Commit, TypeOK, PlaceInv
<1>2. db'[A(w)] = Written(w) /\ Written(w) \in Rows
    BY <1>1, WrittenIsRow DEF Commit, TypeOK
<1>3. AssignmentRow(A(w)) \in locks[w]
    BY <1>1 DEF PlaceOf, OnActivities
<1>4. /\ Written(w).state = "live" /\ Written(w).status = loaded[w].status
      /\ Written(w).acts = loaded[w].acts
    BY <1>1, <1>3 DEF Written, K, Rows
<1>5. /\ loaded[w].status \in {"UNASSIGNED", "ASSIGNED"}
      /\ \A s \in Slots : loaded[w].acts[s].status = "UNASSIGNED"
    BY <1>1 DEF MadeInv, MadeOf
<1>6. Phase(db[A(w)]) = "none"
    BY <1>1, PhaseFacts DEF IsLive
<1>7. Phase(db'[A(w)]) \in {"draft", "open"}
    BY <1>2, <1>4, <1>5, PhaseFacts DEF IsLive
<1>8. WorkOf(db'[A(w)]) = [s \in Slots |-> "todo"]
    BY <1>2, <1>4, <1>5, DoneFacts DEF WorkOf
<1>9. WorkOf(db[A(w)]) = [s \in Slots |-> "todo"]
    BY <1>1 DEF WorkOf, IsLive
<1> QED BY <1>6, <1>7, <1>8, <1>9 DEF Moves

LEMMA DiscardMoves ==
    ASSUME ConcInv, OwnInv, NEW w \in Workers, Commit(w), K(w) = "delete"
    PROVE  Moves(Phase(db[A(w)]), WorkOf(db[A(w)]), Phase(db'[A(w)]), WorkOf(db'[A(w)]))
<1> USE DEF ConcInv
<1>1. /\ A(w) \in Assignments /\ at[w] = "commit" /\ db[A(w)] \in Rows
      /\ db'[A(w)].state = "gone" /\ OwnOf(w)
    BY CommandTypes, CommitWrites DEF Commit, TypeOK, OwnInv
<1>2. IsLive(db[A(w)]) /\ ~ IsLive(db'[A(w)])
    BY <1>1 DEF OwnOf, IsLive
<1>3. Phase(db[A(w)]) \in {"draft", "open", "succeeded", "failed"}
    BY <1>1, <1>2, PhaseFacts
<1>4. Phase(db'[A(w)]) = "gone"
    BY <1>1, <1>2 DEF Phase
<1>5. WorkOf(db'[A(w)]) = [s \in Slots |-> "todo"]
    BY <1>2 DEF WorkOf
<1> QED BY <1>3, <1>4, <1>5 DEF Moves

LEMMA CommitMoves ==
    ASSUME ConcInv, OwnInv, MadeInv, DoneInv, NEW w \in Workers, Commit(w)
    PROVE  Moves(Phase(db[A(w)]), WorkOf(db[A(w)]), Phase(db'[A(w)]), WorkOf(db'[A(w)]))
<1>1. K(w) \in {"create", "assign", "setStatus", "delete"} \union OnActivities
    BY CommandTypes DEF ConcInv
<1> QED BY <1>1, AppearMoves, StatusMoves, DiscardMoves, StaffingMoves, ActivityMoves
        DEF OnActivities

(* A step of one assignment's promise is one of everybody's.               *)
LEMMA MoveIsStep ==
    ASSUME NEW b \in Assignments, \A a \in Assignments : a # b => db'[a] = db[a],
           Moves(Phase(db[b]), WorkOf(db[b]), Phase(db'[b]), WorkOf(db'[b]))
    PROVE  Promise!Next \/ UNCHANGED <<phases, works>>
<1> DEFINE p2 == Phase(db'[b])
           k == WorkOf(db[b])
           k2 == WorkOf(db'[b])
<1>1. /\ phases[b] = Phase(db[b]) /\ phases' = [phases EXCEPT ![b] = p2]
      /\ works[b] = k /\ works' = [works EXCEPT ![b] = k2]
    BY DEF phases, works
<1>2. k2 = k => works' = works
    BY <1>1 DEF works
<1>3. p2 = Phase(db[b]) => phases' = phases
    BY <1>1 DEF phases
<1> HIDE DEF p2, k, k2
<1>4. Moves(phases[b], k, p2, k2)
    BY <1>1 DEF p2, k, k2
<1>5. CASE p2 = phases[b] /\ k2 = k
    BY <1>1, <1>2, <1>3, <1>5
<1>6. CASE phases[b] = "none" /\ p2 \in {"draft", "open"} /\ k2 = k
  <2>1. Promise!Appear(b)
      BY <1>1, <1>2, <1>6 DEF Promise!Appear, phases, works
  <2> QED BY <2>1 DEF Promise!Next
<1>7. CASE phases[b] = "draft" /\ p2 = "open" /\ k2 = k
  <2>1. Promise!Open(b)
      BY <1>1, <1>2, <1>7 DEF Promise!Open, phases, works
  <2> QED BY <2>1 DEF Promise!Next
<1>8. CASE phases[b] = "open" /\ p2 = "succeeded" /\ k2 = k /\ \A s \in Slots : k[s] = "done"
  <2>1. Promise!Succeed(b)
      BY <1>1, <1>2, <1>8 DEF Promise!Succeed, phases, works
  <2> QED BY <2>1 DEF Promise!Next
<1>9. CASE phases[b] = "open" /\ p2 = "failed" /\ k2 = k
  <2>1. Promise!Fail(b)
      BY <1>1, <1>2, <1>9 DEF Promise!Fail, phases, works
  <2> QED BY <2>1 DEF Promise!Next
<1>10. ASSUME NEW s \in Slots, phases[b] \in {"draft", "open", "failed"}, p2 = phases[b],
              k[s] = "todo", k2 = [k EXCEPT ![s] = "done"]
       PROVE  Promise!Next
  <2>1. works' = [works EXCEPT ![b][s] = "done"]
      BY <1>1, <1>10
  <2>2. Promise!Do(b, s)
      BY <1>1, <1>3, <1>10, <2>1 DEF Promise!Do, phases, works
  <2> QED BY <2>2 DEF Promise!Next
<1>11. ASSUME NEW s \in Slots, phases[b] \in {"open", "failed"}, p2 = "failed",
              k[s] = "todo", k2 = [k EXCEPT ![s] = "lost"]
       PROVE  Promise!Next
  <2>1. works' = [works EXCEPT ![b][s] = "lost"]
      BY <1>1, <1>11
  <2>2. Promise!Lose(b, s)
      BY <1>1, <1>11, <2>1 DEF Promise!Lose, phases, works
  <2> QED BY <2>2 DEF Promise!Next
<1>12. CASE /\ phases[b] \in {"draft", "open", "succeeded", "failed"} /\ p2 = "gone"
            /\ k2 = [s \in Slots |-> "todo"]
  <2>1. /\ phases' = [a \in Assignments |-> IF a \in {b} THEN "gone" ELSE phases[a]]
        /\ works' = [a \in Assignments |->
                        IF a \in {b} THEN [s \in Slots |-> "todo"] ELSE works[a]]
      BY <1>1, <1>12 DEF phases, works
  <2>2. Promise!Discard({b})
      BY <1>12, <2>1 DEF Promise!Discard, phases, works
  <2> QED BY <2>2 DEF Promise!Next
<1> QED BY <1>4, <1>5, <1>6, <1>7, <1>8, <1>9, <1>10, <1>11, <1>12 DEF Moves

LEMMA MoveKeepsDone ==
    ASSUME ConcInv, DoneInv, NEW b \in Assignments, db'[b] \in Rows,
           \A a \in Assignments : a # b => db'[a] = db[a],
           Moves(Phase(db[b]), WorkOf(db[b]), Phase(db'[b]), WorkOf(db'[b]))
    PROVE  DoneInv'
<1> SUFFICES ASSUME IsLive(db'[b]), db'[b].status = "COMPLETED", NEW s \in Slots
             PROVE  db'[b].acts[s].status = "COMPLETED"
    BY DEF DoneInv
<1>1. db[b] \in Rows /\ Phase(db'[b]) = "succeeded"
    BY PhaseFacts DEF ConcInv, TypeOK
<1>2. /\ WorkOf(db'[b]) = WorkOf(db[b])
      /\ Phase(db[b]) = "succeeded" \/ WorkOf(db[b])[s] = "done"
    BY <1>1 DEF Moves
<1>3. Phase(db[b]) = "succeeded" => WorkOf(db[b])[s] = "done"
  <2> SUFFICES ASSUME Phase(db[b]) = "succeeded" PROVE WorkOf(db[b])[s] = "done"
      OBVIOUS
  <2>1. IsLive(db[b])
    <3>1. db[b].state # "succeeded"
        BY <1>1 DEF Rows
    <3> QED BY <1>1, <3>1, PhaseFacts
  <2>2. db[b].acts[s].status = "COMPLETED"
      BY <1>1, <2>1, PhaseFacts DEF DoneInv
  <2> QED BY <2>1, <2>2, DoneFacts DEF WorkOf
<1>4. Done(db'[b].acts[s].status) = "done"
    BY <1>2, <1>3 DEF WorkOf
<1> QED BY <1>4, Zenon DEF Done

(* What ConcurrentLostUpdate refutes of overlapping transactions holds of  *)
(* those that keep apart, on both databases: as long as each assignment    *)
(* has one transaction at a time, all that people see of it is what        *)
(* AssignmentPromise allows, though its commits come between any           *)
(* statements of the others.                                               *)
THEOREM ApartKeepsPromise ==
    Spec /\ (\A a \in Assignments : db[a].state = "none") /\ []OneAtATime => KeepsPromise
<1> DEFINE Nothing == \A a \in Assignments : db[a].state = "none"
<1>1. ASSUME Init, Nothing PROVE Promise!Init /\ DoneInv
  <2>1. \A a \in Assignments : ~ IsLive(db[a])
      BY <1>1 DEF IsLive
  <2>2. \A a \in Assignments :
            Phase(db[a]) = "none" /\ WorkOf(db[a]) = [s \in Slots |-> "todo"]
      BY <1>1, <2>1 DEF Phase, WorkOf
  <2> QED BY <2>1, <2>2 DEF Promise!Init, DoneInv, phases, works
<1>2. ASSUME ConcInv, OwnInv, MadeInv, DoneInv, OneAtATime, [Next]_vars
      PROVE  /\ OwnInv' /\ MadeInv' /\ DoneInv'
             /\ Promise!Next \/ UNCHANGED <<phases, works>>
  <2>1. CASE UNCHANGED vars
    <3>1. OwnInv'
        BY <1>2, <2>1 DEF OwnInv, OwnOf, K, A, vars, local
    <3>2. MadeInv'
      <4> SUFFICES ASSUME NEW w \in Workers PROVE MadeOf(w)'
          BY DEF MadeInv
      <4>1. /\ db' = db /\ at' = at /\ command' = command /\ loaded' = loaded
            /\ existing' = existing /\ locks' = locks
          BY <2>1 DEF vars, local
      <4>2. /\ K(w)' = K(w) /\ A(w)' = A(w) /\ S(w)' = S(w) /\ Writes(w)' = Writes(w)
            /\ Saved(w)' = Saved(w) /\ \A row : NewStatus(w, row)' = NewStatus(w, row)
          BY <4>1, Zenon DEF K, A, S, Writes, Saved, NewStatus
      <4>3. StatusMade(w)' = StatusMade(w)
          BY <4>1, <4>2, Zenon DEF StatusMade
      <4>4. Reaches(w, loaded[w].acts)' = Reaches(w, loaded[w].acts)
          BY <4>1, <4>2, Zenon DEF Reaches
      <4> QED BY <1>2, <4>1, <4>2, <4>3, <4>4, Zenon DEF MadeInv, MadeOf
    <3>3. DoneInv' /\ UNCHANGED <<phases, works>>
        BY <1>2, <2>1 DEF DoneInv, phases, works, vars
    <3> QED BY <3>1, <3>2, <3>3
  <2>2. ASSUME NEW w \in Workers, Start(w) \/ Continue(w), ~ Commit(w)
        PROVE  /\ OwnInv' /\ MadeInv' /\ DoneInv'
               /\ UNCHANGED <<phases, works>>
    <3>1. UNCHANGED db
        BY <2>2 DEF Start, Load, StartCreate, Continue, LockMission, CheckPolicy, InsertRow,
                    FindExisting, WriteActivity, LoadParent, UpdateRow, RewriteActivities,
                    Erase, Rollback
    <3>2. OwnInv'
        BY <1>2, <2>2, StartKeepsOwn, StatementKeepsOwn, EndKeepsOwn DEF Continue
    <3>3. MadeInv'
        BY <1>2, <2>2, StartKeepsMade, StatementKeepsMade, EndKeepsMade DEF Continue
    <3>4. DoneInv' /\ UNCHANGED <<phases, works>>
        BY <1>2, <3>1 DEF DoneInv, phases, works
    <3> QED BY <3>2, <3>3, <3>4
  <2>3. ASSUME NEW w \in Workers, Commit(w)
        PROVE  /\ OwnInv' /\ MadeInv' /\ DoneInv'
               /\ Promise!Next \/ UNCHANGED <<phases, works>>
    <3>1. OwnInv' /\ MadeInv'
        BY <1>2, <2>3, EndKeepsOwn, EndKeepsMade
    <3>2. A(w) \in Assignments /\ \A a \in Assignments : a # A(w) => db'[a] = db[a]
        BY <1>2, <2>3, CommitWrites
    <3>3. db'[A(w)] \in Rows
        BY <1>2, <2>3, <3>2, ConcInvStep DEF ConcInv, TypeOK
    <3>4. Moves(Phase(db[A(w)]), WorkOf(db[A(w)]), Phase(db'[A(w)]), WorkOf(db'[A(w)]))
        BY <1>2, <2>3, CommitMoves
    <3> QED BY <1>2, <3>1, <3>2, <3>3, <3>4, MoveIsStep, MoveKeepsDone
  <2> QED BY <1>2, <2>1, <2>2, <2>3 DEF Next
<1>3. ASSUME Promise!Next \/ UNCHANGED <<phases, works>>
      PROVE  [Promise!Next]_<<phases, works>>
    BY <1>3
<1>4. Spec /\ Nothing /\ []OneAtATime => Promise!Init /\ [][Promise!Next]_<<phases, works>>
  <2>1. ConcInv /\ OwnInv /\ MadeInv /\ DoneInv /\ OneAtATime /\ [Next]_vars
            => OwnInv' /\ MadeInv' /\ DoneInv' /\ [Promise!Next]_<<phases, works>>
      BY <1>2, <1>3
  <2>2. Init /\ Nothing => Promise!Init /\ OwnInv /\ MadeInv /\ DoneInv
      BY <1>1, OwnInit, MadeInit
  <2> HIDE DEF Nothing
  <2> QED BY <2>1, <2>2, ConcurrentCorrect, PTL DEF Spec
<1> QED BY <1>4, PTL DEF KeepsPromise, Promise!Spec, phases, works

-----------------------------------------------------------------------------
(* Waiting                                                                 *)

Waiting(E) == \A w \in E : \E x \in E : WaitsFor(w, x)

LEMMA WaitersAreActive ==
    ASSUME ConcInv, NEW w \in Workers, NEW x \in Workers, WaitsFor(w, x)
    PROVE  at[w] # "idle" /\ at[x] # "idle"
<1>1. Wanted(w) # {} /\ locks[x] # {}
    BY DEF WaitsFor
<1>2. ASSUME at[w] = "idle" PROVE FALSE
  <2>1. Wanted(w) = {}
      BY <1>2 DEF Wanted
  <2> QED BY <1>1, <2>1
<1>3. at[x] # "idle"
    BY <1>1 DEF ConcInv, TypeOK
<1> QED BY <1>2, <1>3

(* Of the sets that wait among themselves a smallest one is what the       *)
(* database looks for: a member nobody waits for could be left out.        *)
LEMMA SomeDeadlock ==
    ASSUME NEW D \in SUBSET Workers, IsFiniteSet(D), D # {}, Waiting(D)
    PROVE  \E w \in D : Victim(w)
<1> DEFINE T == {E \in SUBSET D : E # {} /\ Waiting(E)}
<1>1. T # {} /\ T \subseteq FiniteSubsetsOf(D)
  <2>1. T # {}
      OBVIOUS
  <2> QED BY <2>1, FS_FiniteSubsetsOfFinite
<1>2. PICK E \in T : \A F \in T : <<F, E>> \notin StrictSubsetOrdering(D)
  <2> HIDE DEF T
  <2> QED BY <1>1, FS_StrictSubsetOrderingWellFounded, WFMin
<1>3. \A F \in T : F \subseteq E => F = E
  <2> SUFFICES ASSUME NEW F \in T, F \subseteq E PROVE F = E
      OBVIOUS
  <2>1. F \in SUBSET D /\ E \in SUBSET D
      OBVIOUS
  <2>2. <<F, E>> \notin StrictSubsetOrdering(D)
      BY <1>2
  <2> QED BY <2>1, <2>2 DEF StrictSubsetOrdering
<1>4. ASSUME NEW y \in E PROVE \E x \in E : WaitsFor(x, y)
  <2> SUFFICES ASSUME \A x \in E : ~ WaitsFor(x, y) PROVE FALSE
      OBVIOUS
  <2>1. PICK z \in E : WaitsFor(y, z)
      BY DEF Waiting
  <2>2. z # y
      BY <2>1 DEF WaitsFor
  <2>3. Waiting(E \ {y}) /\ E \ {y} # {} /\ E \ {y} \in SUBSET D
      BY <2>1, <2>2 DEF Waiting
  <2> QED BY <1>3, <2>3
<1>5. PICK w \in E : TRUE
    OBVIOUS
<1>6. E \in SUBSET Workers /\ \A x \in E : \E y \in E : WaitsFor(x, y)
    BY DEF Waiting
<1> QED BY <1>4, <1>5, <1>6 DEF Victim

(* Whatever rows transactions lock in whatever order, nobody waits but for *)
(* somebody who goes on, for any number of workers, on both databases.     *)
THEOREM QueuesMove ==
    ASSUME IsFiniteSet(Workers)
    PROVE  Spec => []EveryQueueMoves
<1>1. ASSUME ConcInv PROVE EveryQueueMoves
  <2> SUFFICES ASSUME NEW D \in SUBSET Workers, \E w \in D : at[w] # "idle",
                      \A w \in D, x \in Workers : WaitsFor(w, x) => x \in D,
                      \A w \in D : ~ Proceeds(w)
               PROVE  FALSE
      BY DEF EveryQueueMoves
  <2> DEFINE Stuck == {w \in D : at[w] # "idle"}
  <2>1. Stuck \in SUBSET Workers /\ Stuck # {} /\ IsFiniteSet(Stuck)
      BY FS_Subset
  <2>2. \A w \in Stuck : \E x \in Stuck : WaitsFor(w, x)
    <3> SUFFICES ASSUME NEW w \in Stuck PROVE \E x \in Stuck : WaitsFor(w, x)
        OBVIOUS
    <3>1. PICK x \in Workers : WaitsFor(w, x)
        BY DEF Proceeds
    <3> QED BY <1>1, <3>1, WaitersAreActive
  <2>3. PICK w \in Stuck : Victim(w)
    <3> HIDE DEF Stuck
    <3>1. Waiting(Stuck)
        BY <2>2 DEF Waiting
    <3> QED BY <2>1, <3>1, SomeDeadlock
  <2> QED BY <2>3 DEF Proceeds
<1> QED BY <1>1, ConcurrentCorrect, PTL

-----------------------------------------------------------------------------
(* Going on                                                                *)

(* The statements a transaction has still ahead of it, at most.            *)
Ahead(place) ==
    CASE place = "idle"                   -> 0
      [] place \in {"commit", "missed"}   -> 1
      [] place \in {"acts", "insert", "erase row"} -> 2
      [] place \in {"row", "erase"}       -> 3
      [] place = "find row"               -> 4
      [] place \in {"policy", "parent"}   -> 5
      [] place \in {"mission", "activity"} -> 6
      [] place = "find activity"          -> 7

Approaches(w) ==
    /\ Ahead(at'[w]) < Ahead(at[w])
    /\ \A x \in Workers : x # w => at'[x] = at[x] \/ Ahead(at'[x]) < Ahead(at[x])
    /\ requests' = requests

Begins(w) ==
    /\ at[w] = "idle" /\ at'[w] # "idle"
    /\ \A x \in Workers : x # w => at'[x] = at[x]
    /\ requests' = requests + 1

(* What the orders of the places come to.                                  *)
LEMMA Nearer ==
    /\ \A p \in {"insert", "row", "find row"} : Ahead(p) < Ahead("policy")
    /\ \A p \in {"commit", "row", "find row"} : Ahead(p) < Ahead("parent")
    /\ \A p \in {"commit", "parent", "missed"} : Ahead(p) < Ahead("activity")
    /\ Ahead("policy") < Ahead("mission") /\ Ahead("commit") < Ahead("insert")
    /\ Ahead("row") < Ahead("find row") /\ Ahead("activity") < Ahead("find activity")
    /\ Ahead("acts") < Ahead("row") /\ Ahead("commit") < Ahead("acts")
    /\ Ahead("erase row") < Ahead("erase") /\ Ahead("commit") < Ahead("erase row")
    /\ Ahead("missed") < Ahead("erase")
    /\ \A p \in Places : p # "idle" => Ahead("idle") < Ahead(p)
<1>1. /\ Ahead("idle") = 0
      /\ Ahead("commit") = 1 /\ Ahead("missed") = 1
      /\ Ahead("acts") = 2 /\ Ahead("insert") = 2 /\ Ahead("erase row") = 2
      /\ Ahead("row") = 3 /\ Ahead("erase") = 3
      /\ Ahead("find row") = 4
      /\ Ahead("policy") = 5 /\ Ahead("parent") = 5
      /\ Ahead("mission") = 6 /\ Ahead("activity") = 6
      /\ Ahead("find activity") = 7
    BY Zenon DEF Ahead
<1>2. /\ 0 < 1 /\ 0 < 2 /\ 0 < 3 /\ 0 < 4 /\ 0 < 5 /\ 0 < 6 /\ 0 < 7
      /\ 1 < 2 /\ 1 < 5 /\ 1 < 6 /\ 1 < 3 /\ 2 < 3 /\ 2 < 5 /\ 3 < 4
      /\ 3 < 5 /\ 4 < 5 /\ 5 < 6 /\ 6 < 7
    OBVIOUS
<1>3. /\ \A p \in {"insert", "row", "find row"} : Ahead(p) < Ahead("policy")
      /\ \A p \in {"commit", "row", "find row"} : Ahead(p) < Ahead("parent")
    BY <1>1, <1>2, Zenon
<1>4. \A p \in {"commit", "parent", "missed"} : Ahead(p) < Ahead("activity")
    BY <1>1, <1>2, Zenon
<1>5. /\ Ahead("policy") < Ahead("mission") /\ Ahead("commit") < Ahead("insert")
      /\ Ahead("row") < Ahead("find row") /\ Ahead("activity") < Ahead("find activity")
      /\ Ahead("acts") < Ahead("row") /\ Ahead("commit") < Ahead("acts")
      /\ Ahead("erase row") < Ahead("erase") /\ Ahead("commit") < Ahead("erase row")
      /\ Ahead("missed") < Ahead("erase")
    BY <1>1, <1>2, Zenon
<1>6. \A p \in Places : p # "idle" => Ahead("idle") < Ahead(p)
    BY <1>1, <1>2, Zenon DEF Places
<1> QED BY <1>3, <1>4, <1>5, <1>6

(* A move to a nearer place, of one worker.                                *)
LEMMA GotoApproaches ==
    ASSUME TypeOK, NEW w \in Workers, NEW q, Goto(w, q),
           Ahead(q) < Ahead(at[w]), requests' = requests
    PROVE  Approaches(w)
    BY DEF Goto, TypeOK, Approaches

(* One end per step: nothing is waited for, tried or done again, whatever  *)
(* the others do meanwhile.                                                *)
LEMMA StatementsApproach ==
    ASSUME TypeOK, NEW w \in Workers,
           LockMission(w) \/ CheckPolicy(w) \/ InsertRow(w) \/ FindExisting(w)
           \/ WriteActivity(w) \/ LoadParent(w) \/ UpdateRow(w)
           \/ RewriteActivities(w) \/ Erase(w)
    PROVE  Approaches(w)
<1>1. CASE LockMission(w)
    BY <1>1, Nearer, GotoApproaches DEF LockMission
<1>2. CASE CheckPolicy(w)
  <2>1. at[w] = "policy" /\ requests' = requests
      BY <1>2 DEF CheckPolicy
  <2>2. PICK q \in {"insert", "row", "find row"} : Goto(w, q)
      BY <1>2 DEF CheckPolicy, SaveRow
  <2> QED BY <2>1, <2>2, Nearer, GotoApproaches
<1>3. CASE InsertRow(w)
    BY <1>3, Nearer, GotoApproaches DEF InsertRow
<1>4. CASE FindExisting(w)
    BY <1>4, Nearer, GotoApproaches DEF FindExisting
<1>5. CASE WriteActivity(w)
  <2>1. at[w] = "activity" /\ requests' = requests
      BY <1>5 DEF WriteActivity
  <2>2. PICK q \in {"parent", "commit"} : Goto(w, q)
      BY <1>5 DEF WriteActivity
  <2> QED BY <2>1, <2>2, Nearer, GotoApproaches
<1>6. CASE LoadParent(w)
  <2>1. at[w] = "parent" /\ requests' = requests
      BY <1>6 DEF LoadParent
  <2>2. PICK q \in {"commit", "row", "find row"} : Goto(w, q)
      BY <1>6 DEF LoadParent, SaveRow
  <2> QED BY <2>1, <2>2, Nearer, GotoApproaches
<1>7. CASE UpdateRow(w)
    BY <1>7, Nearer, GotoApproaches DEF UpdateRow
<1>8. CASE RewriteActivities(w)
    BY <1>8, Nearer, GotoApproaches DEF RewriteActivities
<1>9. CASE Erase(w)
    BY <1>9, Nearer, GotoApproaches DEF Erase
<1> QED BY <1>1, <1>2, <1>3, <1>4, <1>5, <1>6, <1>7, <1>8, <1>9

(* A commit also moves on the statements that waited for it in vain.       *)
LEMMA EndApproaches ==
    ASSUME TypeOK, NEW w \in Workers, Commit(w) \/ Rollback(w)
    PROVE  Approaches(w)
<1>1. CASE Commit(w)
  <2>1. at[w] = "commit" /\ requests' = requests
      BY <1>1 DEF Commit, Ended
  <2>2. PICK begun \in SUBSET Overtaken(w) :
            at' = [x \in Workers |-> IF x = w THEN "idle"
                                     ELSE IF x \in begun THEN "missed" ELSE at[x]]
      BY <1>1 DEF Commit
  <2>3. \A x \in begun : at[x] \in {"activity", "erase"}
      BY DEF Overtaken
  <2>4. Ahead("idle") < Ahead("commit")
      BY Nearer DEF Places
  <2>5. \A x \in begun : Ahead("missed") < Ahead(at[x])
      BY <2>3, Nearer
  <2>6. Ahead(at'[w]) < Ahead(at[w])
      BY <2>1, <2>2, <2>4
  <2>7. \A x \in Workers : x # w => at'[x] = at[x] \/ Ahead(at'[x]) < Ahead(at[x])
      BY <2>2, <2>5
  <2> QED BY <2>1, <2>6, <2>7 DEF Approaches
<1>2. CASE Rollback(w)
  <2>1. Goto(w, "idle") /\ requests' = requests
      BY <1>2 DEF Rollback, Ended
  <2>2. at[w] # "idle"
    <3>1. ASSUME Victim(w) PROVE Wanted(w) # {}
        BY <3>1 DEF Victim, WaitsFor
    <3>2. ASSUME at[w] = "idle" PROVE Wanted(w) = {}
        BY <3>2 DEF Wanted
    <3> QED BY <1>2, <3>1, <3>2 DEF Rollback, Refused
  <2>3. Ahead("idle") < Ahead(at[w])
    <3>1. at[w] \in Places
        BY DEF TypeOK
    <3> QED BY <2>2, <3>1, Nearer
  <2> QED BY <2>1, <2>3, GotoApproaches
<1> QED BY <1>1, <1>2

(* Every step of a behaviour begins one request, or brings the transaction *)
(* of a started one closer to its end and moves none away from it: with    *)
(* QueuesMove, what fairness needs for every request to end.               *)
THEOREM RequestsAdvance ==
    Spec => [][\E w \in Workers : Begins(w) \/ Approaches(w)]_vars
<1>1. ASSUME TypeOK, [Next]_vars
      PROVE  [\E w \in Workers : Begins(w) \/ Approaches(w)]_vars
  <2>1. CASE UNCHANGED vars
      BY <2>1
  <2>2. ASSUME NEW w \in Workers, Start(w) PROVE Begins(w)
    <3>1. PICK c \in Commands : Load(w, c) \/ StartCreate(w, c)
        BY <2>2 DEF Start
    <3>2. PICK q \in Places \ {"idle"} : at[w] = "idle" /\ Goto(w, q) /\ requests' = requests + 1
      <4>1. CASE Load(w, c)
        <5>1. FirstWrite(c.kind) \in Places \ {"idle"}
            BY DEF FirstWrite, SaveRow, SaveActivity, Places
        <5> QED BY <4>1, <5>1 DEF Load, Goto
      <4>2. CASE StartCreate(w, c)
        <5>1. "mission" \in Places \ {"idle"}
            BY DEF Places
        <5> QED BY <4>2, <5>1 DEF StartCreate, Goto
      <4> QED BY <3>1, <4>1, <4>2
    <3> QED BY <1>1, <3>2 DEF Begins, Goto, TypeOK
  <2>3. ASSUME NEW w \in Workers, Continue(w) PROVE Approaches(w)
      BY <1>1, <2>3, StatementsApproach, EndApproaches DEF Continue
  <2> QED BY <1>1, <2>1, <2>2, <2>3 DEF Next
<1>2. ConcInv => TypeOK
    BY DEF ConcInv
<1> QED BY <1>1, <1>2, ConcurrentCorrect, PTL DEF Spec
=============================================================================
