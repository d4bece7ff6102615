---------------------------- MODULE AccessProofs ----------------------------
(***************************************************************************)
(* Proofs about AccessControl, for any people, resources, entries, inputs  *)
(* and bounds: the types, that only an UPDATE computed from a row that has *)
(* changed since can let an anonymous caller change anything, that on      *)
(* MySQL a revoked entry stays revoked, and that only those who manage the *)
(* whole system make others manage it.                                     *)
(*                                                                         *)
(* The invariant says of every request what it has decided: the row it     *)
(* will write has been validated, the entry it names has been drawn, and   *)
(* on MySQL it has found the row it read (RequestsInv); what it holds of   *)
(* an entry still has the resource the entry has now, which is no root     *)
(* unless the operator managed the whole system (TargetsInv).              *)
(***************************************************************************)
EXTENDS AccessControl, TLAPS

KindOf(w) == request[w].kind

RequestOf(w) ==
    /\ KindOf(w) \in {"insert", "update", "restore"} =>
          request[w].new \in Rows /\ ~ AdmitsAnonymous(request[w].new)
    /\ KindOf(w) \in {"update", "delete", "restore"} => request[w].id \in 1 .. drawn
    /\ KindOf(w) \in {"update", "delete"} => request[w].old \in Rows
    /\ database = "MySQL" =>
          KindOf(w) # "restore" /\ (KindOf(w) \in {"update", "delete"} => request[w].found)

RequestsInv == \A w \in Workers : RequestOf(w)

AccessInv == TypeOK /\ RequestsInv /\ OnlyStaleWritesAdmitAnonymous

Columns == {"subject", "resource", "operation", "permission", "level", "group",
            "profile_join", "subject_join"}

LEMMA RowFields ==
    ASSUME NEW e \in Rows
    PROVE  /\ DOMAIN e = Columns
           /\ e.subject \in Subjects /\ e.resource \in Resources /\ e.operation \in Operations
           /\ e.permission \in {"ALLOW", "DENY"} /\ e.level \in Levels \cup {NoLevel}
           /\ e.group \in {"ops", "public", NoGroup}
           /\ e.profile_join \in {"AND", "OR"} /\ e.subject_join \in {"AND", "OR"}
           /\ e = [c \in Columns |-> e[c]]
    BY DEF Rows, Columns

LEMMA RowOf ==
    ASSUME NEW f, f = [c \in Columns |-> f[c]],
           f["subject"] \in Subjects, f["resource"] \in Resources, f["operation"] \in Operations,
           f["permission"] \in {"ALLOW", "DENY"}, f["level"] \in Levels \cup {NoLevel},
           f["group"] \in {"ops", "public", NoGroup},
           f["profile_join"] \in {"AND", "OR"}, f["subject_join"] \in {"AND", "OR"}
    PROVE  f \in Rows
    BY DEF Rows, Columns

LEMMA MergedRow ==
    ASSUME NEW a \in Rows, NEW b \in Rows, NEW c \in Rows
    PROVE  /\ Merged(a, b, c) \in Rows
           /\ a = b => Merged(a, b, c) = c
<1>1. DOMAIN a = Columns /\ a = [x \in Columns |-> a[x]] /\ c = [x \in Columns |-> c[x]]
    BY RowFields
<1> DEFINE m == [x \in Columns |-> IF c[x] = b[x] THEN a[x] ELSE c[x]]
<1>2. Merged(a, b, c) = m
    BY <1>1 DEF Merged
<1>3. \A x \in Columns : m[x] = a[x] \/ m[x] = c[x]
    OBVIOUS
<1>4. m = [x \in Columns |-> m[x]]
    OBVIOUS
<1>5. a = b => m = c
    BY <1>1
<1> HIDE DEF m
<1>6. m \in Rows
    BY <1>3, <1>4, RowFields, RowOf DEF Columns
<1> QED BY <1>2, <1>5, <1>6

LEMMA PatchedRow ==
    ASSUME NEW e \in Rows, NEW body \in Bodies
    PROVE  PatchedEntry(e, body) \in Rows
<1>1. DOMAIN e = Columns
    BY RowFields
<1> DEFINE m == [c \in Columns |-> IF c \in DOMAIN body THEN body[c] ELSE e[c]]
<1>2. PatchedEntry(e, body) = m
    BY <1>1 DEF PatchedEntry
<1>3. m = [x \in Columns |-> m[x]]
    OBVIOUS
<1>4. /\ \A x \in Columns \ {"permission", "level", "group"} : m[x] = e[x]
      /\ m["permission"] \in {"ALLOW", "DENY"}
      /\ m["level"] \in Levels \cup {NoLevel}
      /\ m["group"] \in {"ops", "public", NoGroup}
    BY RowFields, AccessAssumption DEF Columns
<1> HIDE DEF m
<1>5. m \in Rows
    BY <1>3, <1>4, RowFields, RowOf DEF Columns
<1> QED BY <1>2, <1>5

LEMMA NoRowIsNoRow == NoRow \notin Rows /\ \A e \in Rows : e # NoRow
<1>1. \A e \in Rows : e.resource \in Resources
    BY RowFields
<1>2. NoRow.resource = NoResource /\ NoResource \notin Resources
    BY AccessAssumption DEF NoRow
<1> QED BY <1>1, <1>2

(* What operators hand in, and what is added for them.                     *)
LEMMA InputRow ==
    ASSUME NEW input \in Inputs
    PROVE  EntryFromInput(input) \in Rows
<1>1. input \in Rows
    BY AccessAssumption
<1>2. [input EXCEPT !.group = "public"] \in Rows
    BY <1>1 DEF Rows
<1>3. [input EXCEPT !.level = AnonLevel] \in Rows
    BY <1>1, AccessAssumption DEF Rows, Levels
<1> QED BY <1>1, <1>2, <1>3 DEF EntryFromInput

LEMMA SeedRow ==
    ASSUME NEW r \in Concrete, NEW s \in Persons
    PROVE  SeedEntry(r, s) \in Rows /\ ~ AdmitsAnonymous(SeedEntry(r, s))
<1> DEFINE e == SeedEntry(r, s)
<1>1. e \in Rows
    BY AccessAssumption DEF SeedEntry, Rows, Subjects, Resources, Operations, NonInheritable, Levels
<1>2. e.subject = s /\ e.subject_join = "AND" /\ s # Anyone
    BY AccessAssumption DEF SeedEntry
<1> HIDE DEF e
<1>3. ~ AdmitsAnonymous(e)
    BY <1>2 DEF AdmitsAnonymous, EntryMatches, SubjectMatches
<1> QED BY <1>1, <1>3 DEF e

LEMMA AccessInvInit == Init => AccessInv
<1> SUFFICES ASSUME Init PROVE AccessInv
    OBVIOUS
<1>1. TypeOK
  <2>1. \A i \in 1 .. Entries : rows[i] = NoRow
      BY DEF Init
  <2>2. profiles \in [Persons -> Profiles \cup {NoProfile}]
      BY AccessAssumption DEF Init
  <2> QED BY <2>1, <2>2, AccessAssumption DEF Init, TypeOK, Holds, Requests, Subjects
<1>2. RequestsInv
    BY DEF Init, RequestsInv, RequestOf, KindOf, Idle
<1>3. OnlyStaleWritesAdmitAnonymous
    BY DEF Init, OnlyStaleWritesAdmitAnonymous, Holds
<1> QED BY <1>1, <1>2, <1>3 DEF AccessInv

(* Who has just changed a profile is a person, or nobody is said to have.  *)
LEMMA AssignerIs == Next => assigner' \in Subjects
<1>1. ASSUME NEW w \in Workers, Entering(w) PROVE assigner' = Anyone
    BY <1>1 DEF Entering, EnsureBootstrapEntries, CreateEntry, UpdateEntry, DeleteEntry, Decides,
       AssignsNothing
<1>2. ASSUME NEW w \in Workers, Writing(w) PROVE assigner' = Anyone
    BY <1>2 DEF Writing, SelectAgain, Insert, InsertDefaults, Update, Resurrect, Delete, AssignsNothing
<1>3. ASSUME NEW s \in Operators,
             \/ \E p \in Persons :
                   \/ AddPerson(s, p) \/ RemovePerson(s, p)
                   \/ \E profile \in NewProfiles : SetAclProfile(s, p, profile)
             \/ \E r \in Concrete : CreateResource(s, r) \/ DeleteResource(s, r)
      PROVE  assigner' \in {s, Anyone}
    BY <1>3 DEF AddPerson, RemovePerson, SetAclProfile, CreateResource, DeleteResource, AssignsNothing
<1> QED BY <1>1, <1>2, <1>3 DEF Next, Administering, Operators, Subjects

-----------------------------------------------------------------------------
(* Deciding: nothing is written yet.                                       *)

LEMMA DecidesKeeps ==
    ASSUME AccessInv, NEW w \in Workers,
           NEW kind \in {"insert", "seed", "update", "delete"},
           NEW s, NEW i \in 0 .. Entries, NEW old \in Rows \cup {NoRow}, NEW new \in Rows \cup {NoRow},
           Decides(w, kind, s, i, old, new),
           kind \in {"insert", "update"} => new \in Rows /\ ~ AdmitsAnonymous(new),
           kind \in {"update", "delete"} => i \in 1 .. drawn /\ old \in Rows
    PROVE  AccessInv'
<1> USE DEF AccessInv
<1> DEFINE admin == kind = "seed" \/ HasGlobalManage(s)
           q == [kind |-> kind, found |-> database = "MySQL", admin |-> admin,
                 id |-> i, old |-> old, new |-> new]
<1>1. /\ request' = [request EXCEPT ![w] = q] /\ requests < MaxRequests /\ requests' = requests + 1
      /\ UNCHANGED <<database, rows, drawn, profiles, alive, stale>> /\ assigner' \in Subjects
    BY DEF Decides, AssignsNothing, Subjects
<1>2. admin \in BOOLEAN
    OBVIOUS
<1> HIDE DEF admin
<1>3. q \in Requests
    BY <1>2 DEF Requests
<1>4. /\ q.kind = kind /\ q.found = (database = "MySQL") /\ q.id = i /\ q.old = old /\ q.new = new
    OBVIOUS
<1> HIDE DEF q
<1>5. /\ request' \in [Workers -> Requests] /\ request'[w] = q
      /\ \A x \in Workers : x # w => request'[x] = request[x]
    BY <1>1, <1>3 DEF TypeOK
<1>6. requests' \in 0 .. MaxRequests
    BY <1>1, AccessAssumption DEF TypeOK
<1>7. TypeOK'
    BY <1>1, <1>5, <1>6 DEF TypeOK, Holds
<1>8. RequestOf(w)'
    BY <1>1, <1>4, <1>5 DEF RequestOf, KindOf
<1>9. \A x \in Workers : x # w => RequestOf(x)'
    BY <1>1, <1>5 DEF RequestsInv, RequestOf, KindOf
<1>10. OnlyStaleWritesAdmitAnonymous'
    BY <1>1 DEF OnlyStaleWritesAdmitAnonymous, Holds
<1> QED BY <1>7, <1>8, <1>9, <1>10 DEF RequestsInv

LEMMA EnteringKeeps ==
    ASSUME AccessInv, NEW w \in Workers, Entering(w)
    PROVE  AccessInv'
<1>1. /\ Entries \in Nat /\ drawn \in 0 .. Entries /\ rows \in [1 .. Entries -> Rows \cup {NoRow}]
      /\ \A i \in 1 .. Entries : Holds(i) => i <= drawn
    BY AccessAssumption DEF AccessInv, TypeOK
<1>2. CASE EnsureBootstrapEntries(w)
  <2>1. Decides(w, "seed", Anyone, 0, NoRow, NoRow)
      BY <1>2 DEF EnsureBootstrapEntries
  <2> QED BY <1>1, <2>1, DecidesKeeps
<1>3. ASSUME NEW s \in Operators, NEW input \in Inputs, CreateEntry(w, s, input)
      PROVE  AccessInv'
  <2>1. EntryFromInput(input) \in Rows
      BY InputRow
  <2>2. Decides(w, "insert", s, 0, NoRow, EntryFromInput(input))
      BY <1>3 DEF CreateEntry
  <2>3. ~ AdmitsAnonymous(EntryFromInput(input))
      BY <1>3 DEF CreateEntry, ValidateAndCheckGrant, Validates
  <2> QED BY <1>1, <2>1, <2>2, <2>3, DecidesKeeps
<1>4. ASSUME NEW s \in Operators, NEW i \in Named, NEW body \in Bodies, UpdateEntry(w, s, i, body)
      PROVE  AccessInv'
  <2>1. i \in 1 .. Entries /\ i \in 1 .. drawn /\ rows[i] \in Rows
      BY <1>1, <1>4, AccessAssumption DEF UpdateEntry, Holds
  <2>2. PatchedEntry(rows[i], body) \in Rows
      BY <2>1, PatchedRow
  <2>3. Decides(w, "update", s, i, rows[i], PatchedEntry(rows[i], body))
      BY <1>4 DEF UpdateEntry
  <2>4. ~ AdmitsAnonymous(PatchedEntry(rows[i], body))
      BY <1>4 DEF UpdateEntry, ValidateAndCheckGrant, Validates
  <2> QED BY <1>1, <2>1, <2>2, <2>3, <2>4, DecidesKeeps
<1>5. ASSUME NEW s \in Operators, NEW i \in Named, DeleteEntry(w, s, i)
      PROVE  AccessInv'
  <2>1. i \in 1 .. Entries /\ i \in 1 .. drawn /\ rows[i] \in Rows
      BY <1>1, <1>5, AccessAssumption DEF DeleteEntry, Holds
  <2>2. Decides(w, "delete", s, i, rows[i], NoRow)
      BY <1>5 DEF DeleteEntry
  <2> QED BY <1>1, <2>1, <2>2, DecidesKeeps
<1> QED BY <1>2, <1>3, <1>4, <1>5 DEF Entering

-----------------------------------------------------------------------------
(* Writing                                                                 *)

(* A request that ends, with what it wrote.                                *)
LEMMA EndsWith ==
    ASSUME AccessInv, NEW w \in Workers, Ends(w),
           UNCHANGED <<database, profiles, alive, requests>>, assigner' \in Subjects,
           rows' \in [1 .. Entries -> Rows \cup {NoRow}],
           drawn' \in 0 .. Entries, drawn <= drawn',
           stale \subseteq stale', stale' \subseteq 1 .. Entries,
           \A i \in 1 .. Entries : rows'[i] # NoRow /\ rows'[i] # rows[i] =>
               i <= drawn' /\ (AdmitsAnonymous(rows'[i]) => i \in stale')
    PROVE  AccessInv'
<1> USE DEF AccessInv
<1>1. Idle \in Requests /\ Idle.kind = "idle"
    BY DEF Requests, Idle
<1>2. /\ request' \in [Workers -> Requests] /\ request'[w] = Idle
      /\ \A x \in Workers : x # w => request'[x] = request[x]
    BY <1>1 DEF Ends, TypeOK
<1>3. \A i \in 1 .. Entries : rows'[i] # NoRow => i <= drawn'
    BY AccessAssumption DEF TypeOK, Holds
<1>4. TypeOK'
    BY <1>2, <1>3 DEF TypeOK, Holds
<1>5. RequestOf(w)'
    BY <1>1, <1>2 DEF RequestOf, KindOf
<1>6. ASSUME NEW x \in Workers, x # w PROVE RequestOf(x)'
  <2>1. 1 .. drawn \subseteq 1 .. drawn'
      BY AccessAssumption DEF TypeOK
  <2> QED BY <1>2, <1>6, <2>1 DEF RequestsInv, RequestOf, KindOf
<1>7. OnlyStaleWritesAdmitAnonymous'
    BY DEF OnlyStaleWritesAdmitAnonymous, Holds
<1> QED BY <1>4, <1>5, <1>6, <1>7 DEF RequestsInv

LEMMA MarkedRequests ==
    ASSUME NEW q \in Requests, q.kind # "idle", NEW row \in Rows \cup {NoRow}
    PROVE  /\ LET p == [q EXCEPT !.found = TRUE, !.old = row]
              IN  p \in Requests /\ p.kind = q.kind /\ p.old = row /\ p.id = q.id /\ p.new = q.new
           /\ LET p == [q EXCEPT !.kind = "restore"]
              IN  p \in Requests /\ p.kind = "restore" /\ p.id = q.id /\ p.new = q.new
<1> DEFINE Deciding ==
        [kind : {"insert", "seed", "update", "delete", "restore"}, found : BOOLEAN,
         admin : BOOLEAN, id : 0 .. Entries, old : Rows \cup {NoRow}, new : Rows \cup {NoRow}]
<1>1. q \in Deciding
    BY DEF Requests, Idle
<1>2. LET p == [q EXCEPT !.found = TRUE, !.old = row]
      IN  p \in Deciding /\ p.kind = q.kind /\ p.old = row /\ p.id = q.id /\ p.new = q.new
    BY <1>1
<1>3. LET p == [q EXCEPT !.kind = "restore"]
      IN  p \in Deciding /\ p.kind = "restore" /\ p.id = q.id /\ p.new = q.new
    BY <1>1
<1>4. Deciding \subseteq Requests
    BY DEF Requests
<1> HIDE DEF Deciding
<1> QED BY <1>2, <1>3, <1>4

LEMMA WritingKeeps ==
    ASSUME AccessInv, NEW w \in Workers, Writing(w)
    PROVE  AccessInv'
<1> DEFINE q == request[w]
<1>0. assigner' \in Subjects
    BY AssignerIs DEF Next
<1>1. /\ Entries \in Nat /\ drawn \in 0 .. Entries /\ rows \in [1 .. Entries -> Rows \cup {NoRow}]
      /\ \A i \in 1 .. Entries : Holds(i) => i <= drawn
      /\ stale \subseteq 1 .. Entries
    BY AccessAssumption DEF AccessInv, TypeOK
<1>2. q \in Requests /\ RequestOf(w) /\ q.kind = KindOf(w)
    BY DEF AccessInv, TypeOK, RequestsInv, KindOf
<1>3. CASE SelectAgain(w)
  <2>1. /\ q.kind \in {"update", "delete"} /\ ~ q.found
        /\ request' = [request EXCEPT ![w] =
               IF rows[q.id] # NoRow THEN [q EXCEPT !.found = TRUE, !.old = rows[q.id]]
               ELSE IF q.kind = "update" THEN [q EXCEPT !.kind = "restore"]
               ELSE Idle]
        /\ UNCHANGED <<database, rows, drawn, profiles, alive, requests, stale>>
      BY <1>3 DEF SelectAgain
  <2>2. q.id \in 1 .. drawn /\ q.id \in 1 .. Entries /\ database # "MySQL"
      BY <1>1, <1>2, <2>1 DEF RequestOf
  <2>3. PICK p \in Requests :
          /\ request' = [request EXCEPT ![w] = p]
          /\ \/ /\ rows[q.id] # NoRow /\ p.kind = q.kind /\ p.old = rows[q.id]
                /\ p.id = q.id /\ p.new = q.new
             \/ q.kind = "update" /\ p.kind = "restore" /\ p.id = q.id /\ p.new = q.new
             \/ p.kind = "idle"
    <3>1. CASE rows[q.id] # NoRow
      <4> DEFINE p == [q EXCEPT !.found = TRUE, !.old = rows[q.id]]
      <4>1. p \in Requests /\ p.kind = q.kind /\ p.old = rows[q.id] /\ p.id = q.id /\ p.new = q.new
          BY <1>1, <1>2, <2>1, <2>2, MarkedRequests
      <4> QED BY <2>1, <3>1, <4>1
    <3>2. CASE rows[q.id] = NoRow /\ q.kind = "update"
      <4> DEFINE p == [q EXCEPT !.kind = "restore"]
      <4>1. p \in Requests /\ p.kind = "restore" /\ p.id = q.id /\ p.new = q.new
          BY <1>1, <1>2, <2>1, <2>2, MarkedRequests
      <4> QED BY <2>1, <3>2, <4>1
    <3>3. CASE rows[q.id] = NoRow /\ q.kind # "update"
      <4>1. Idle \in Requests /\ Idle.kind = "idle"
          BY DEF Requests, Idle
      <4>2. request' = [request EXCEPT ![w] = Idle]
          BY <2>1, <3>3
      <4> QED BY <4>1, <4>2
    <3> QED BY <3>1, <3>2, <3>3
  <2>4. /\ request' \in [Workers -> Requests] /\ request'[w] = p
        /\ \A x \in Workers : x # w => request'[x] = request[x]
      BY <2>3 DEF AccessInv, TypeOK
  <2>5. TypeOK'
      BY <1>0, <2>1, <2>4 DEF AccessInv, TypeOK, Holds
  <2>6. RequestOf(w)'
      BY <1>1, <1>2, <2>1, <2>2, <2>3, <2>4 DEF RequestOf, KindOf
  <2>7. \A x \in Workers : x # w => RequestOf(x)'
      BY <2>1, <2>4 DEF AccessInv, RequestsInv, RequestOf, KindOf
  <2>8. OnlyStaleWritesAdmitAnonymous'
      BY <2>1 DEF AccessInv, OnlyStaleWritesAdmitAnonymous, Holds
  <2> QED BY <2>5, <2>6, <2>7, <2>8 DEF AccessInv, RequestsInv
<1>4. CASE Insert(w)
  <2>1. /\ q.kind = "insert" /\ drawn < Entries /\ drawn' = drawn + 1
        /\ rows' = [rows EXCEPT ![drawn + 1] = q.new]
        /\ Ends(w) /\ UNCHANGED <<database, profiles, alive, requests, stale>>
      BY <1>4 DEF Insert
  <2>2. q.new \in Rows /\ ~ AdmitsAnonymous(q.new)
      BY <1>2, <2>1 DEF RequestOf
  <2> HIDE DEF q
  <2>3. /\ rows' \in [1 .. Entries -> Rows \cup {NoRow}]
        /\ \A i \in 1 .. Entries : rows'[i] = IF i = drawn + 1 THEN q.new ELSE rows[i]
      BY <1>1, <2>1, <2>2
  <2>4. drawn' \in 0 .. Entries /\ drawn <= drawn'
      BY <1>1, <2>1
  <2>5. \A i \in 1 .. Entries : rows'[i] # NoRow /\ rows'[i] # rows[i] =>
            i <= drawn' /\ (AdmitsAnonymous(rows'[i]) => i \in stale')
      BY <1>1, <2>1, <2>2, <2>3
  <2> QED BY <1>0, <1>1, <2>1, <2>3, <2>4, <2>5, EndsWith
<1>5. CASE InsertDefaults(w)
  <2>1. /\ drawn + Len(Defaults) <= Entries /\ drawn' = drawn + Len(Defaults)
        /\ rows' = [i \in 1 .. Entries |->
               IF i \in drawn + 1 .. drawn + Len(Defaults) THEN Defaults[i - drawn] ELSE rows[i]]
        /\ Ends(w) /\ UNCHANGED <<database, profiles, alive, requests, stale>>
      BY <1>5 DEF InsertDefaults
  <2>2. Len(Defaults) \in Nat /\ DOMAIN Defaults = 1 .. Len(Defaults)
      BY DefaultsAssumption
  <2>3. ASSUME NEW i \in drawn + 1 .. drawn + Len(Defaults)
        PROVE  Defaults[i - drawn] \in Rows /\ ~ AdmitsAnonymous(Defaults[i - drawn])
    <3>1. i - drawn \in 1 .. Len(Defaults)
        BY <1>1, <2>2
    <3> QED BY <2>2, <3>1, DefaultsAssumption
  <2>4. /\ rows' \in [1 .. Entries -> Rows \cup {NoRow}]
        /\ \A i \in 1 .. Entries : rows'[i] # rows[i] =>
               /\ i \in drawn + 1 .. drawn + Len(Defaults)
               /\ ~ AdmitsAnonymous(rows'[i])
      BY <1>1, <2>1, <2>3
  <2>5. drawn' \in 0 .. Entries /\ drawn <= drawn'
      BY <1>1, <2>1, <2>2
  <2>6. \A i \in 1 .. Entries : rows'[i] # NoRow /\ rows'[i] # rows[i] =>
            i <= drawn' /\ (AdmitsAnonymous(rows'[i]) => i \in stale')
      BY <1>1, <2>1, <2>2, <2>4
  <2> QED BY <1>0, <1>1, <2>1, <2>4, <2>5, <2>6, EndsWith
<1>6. CASE Update(w)
  <2>1. /\ q.kind = "update"
        /\ rows' = [rows EXCEPT ![q.id] = Updated(q)]
        /\ stale' = IF rows[q.id] \in {q.old, NoRow} THEN stale ELSE stale \cup {q.id}
        /\ Ends(w) /\ UNCHANGED <<database, drawn, profiles, alive, requests>>
      BY <1>6 DEF Update
  <2>2. /\ q.new \in Rows /\ ~ AdmitsAnonymous(q.new) /\ q.old \in Rows
        /\ q.id \in 1 .. drawn /\ q.id \in 1 .. Entries
      BY <1>1, <1>2, <2>1 DEF RequestOf
  <2> DEFINE new == Updated(q)
  <2>3. /\ new \in Rows \cup {NoRow}
        /\ new # NoRow => rows[q.id] # NoRow
        /\ new # NoRow /\ rows[q.id] = q.old => new = q.new
    <3>1. CASE rows[q.id] = NoRow
        BY <3>1 DEF Updated, Holds
    <3>2. CASE rows[q.id] # NoRow
      <4>1. rows[q.id] \in Rows
          BY <1>1, <2>2, <3>2
      <4>2. new = Merged(rows[q.id], q.old, q.new)
          BY <3>2 DEF Updated, Holds
      <4> QED BY <2>2, <3>2, <4>1, <4>2, MergedRow
    <3> QED BY <3>1, <3>2
  <2> HIDE DEF q, new
  <2>4. /\ rows' \in [1 .. Entries -> Rows \cup {NoRow}]
        /\ \A i \in 1 .. Entries : rows'[i] = IF i = q.id THEN new ELSE rows[i]
      BY <1>1, <2>1, <2>2, <2>3 DEF new
  <2>5. stale \subseteq stale' /\ stale' \subseteq 1 .. Entries
      BY <1>1, <2>1, <2>2
  <2>6. \A i \in 1 .. Entries : rows'[i] # NoRow /\ rows'[i] # rows[i] =>
            i <= drawn' /\ (AdmitsAnonymous(rows'[i]) => i \in stale')
      BY <1>1, <2>1, <2>2, <2>3, <2>4
  <2> QED BY <1>0, <1>1, <2>1, <2>4, <2>5, <2>6, EndsWith
<1>7. CASE Resurrect(w)
  <2>1. /\ q.kind = "restore" /\ rows' = [rows EXCEPT ![q.id] = q.new]
        /\ Ends(w) /\ UNCHANGED <<database, drawn, profiles, alive, requests, stale>>
      BY <1>7 DEF Resurrect
  <2>2. /\ q.new \in Rows /\ ~ AdmitsAnonymous(q.new)
        /\ q.id \in 1 .. drawn /\ q.id \in 1 .. Entries
      BY <1>1, <1>2, <2>1 DEF RequestOf
  <2> HIDE DEF q
  <2>3. /\ rows' \in [1 .. Entries -> Rows \cup {NoRow}]
        /\ \A i \in 1 .. Entries : rows'[i] = IF i = q.id THEN q.new ELSE rows[i]
      BY <1>1, <2>1, <2>2
  <2>4. \A i \in 1 .. Entries : rows'[i] # NoRow /\ rows'[i] # rows[i] =>
            i <= drawn' /\ (AdmitsAnonymous(rows'[i]) => i \in stale')
      BY <1>1, <2>1, <2>2, <2>3
  <2> QED BY <1>0, <1>1, <2>1, <2>3, <2>4, EndsWith
<1>8. CASE Delete(w)
  <2>1. /\ rows' = [rows EXCEPT ![q.id] = NoRow]
        /\ Ends(w) /\ UNCHANGED <<database, drawn, profiles, alive, requests, stale>>
      BY <1>8 DEF Delete
  <2> HIDE DEF q
  <2>2. /\ rows' \in [1 .. Entries -> Rows \cup {NoRow}]
        /\ \A i \in 1 .. Entries : rows'[i] = NoRow \/ rows'[i] = rows[i]
      BY <1>1, <2>1
  <2> QED BY <1>0, <1>1, <2>1, <2>2, EndsWith
<1> QED BY <1>3, <1>4, <1>5, <1>6, <1>7, <1>8 DEF Writing

-----------------------------------------------------------------------------
(* People and resources                                                    *)

(* Entries are taken away, and at most one is added, of the creator.       *)
LEMMA AdministersWith ==
    ASSUME AccessInv, UNCHANGED <<database, request, requests, stale>>, assigner' \in Subjects,
           profiles' \in [Persons -> Profiles \cup {NoProfile}], alive' \subseteq Concrete,
           rows' \in [1 .. Entries -> Rows \cup {NoRow}],
           drawn' \in 0 .. Entries, drawn <= drawn',
           \A i \in 1 .. Entries : rows'[i] # NoRow /\ rows'[i] # rows[i] =>
               i <= drawn' /\ ~ AdmitsAnonymous(rows'[i])
    PROVE  AccessInv'
<1> USE DEF AccessInv
<1>1. \A i \in 1 .. Entries : rows'[i] # NoRow => i <= drawn'
    BY AccessAssumption DEF TypeOK, Holds
<1>2. TypeOK'
    BY <1>1 DEF TypeOK, Holds
<1>3. ASSUME NEW x \in Workers PROVE RequestOf(x)'
  <2>1. 1 .. drawn \subseteq 1 .. drawn'
      BY AccessAssumption DEF TypeOK
  <2> QED BY <2>1 DEF RequestsInv, RequestOf, KindOf
<1>4. OnlyStaleWritesAdmitAnonymous'
    BY DEF OnlyStaleWritesAdmitAnonymous, Holds
<1> QED BY <1>2, <1>3, <1>4 DEF RequestsInv

LEMMA AdministeringKeeps ==
    ASSUME AccessInv, Administering
    PROVE  AccessInv'
<1>0. assigner' \in Subjects
    BY AssignerIs DEF Next
<1>1. /\ Entries \in Nat /\ drawn \in 0 .. Entries /\ rows \in [1 .. Entries -> Rows \cup {NoRow}]
      /\ profiles \in [Persons -> Profiles \cup {NoProfile}] /\ alive \subseteq Concrete
    BY AccessAssumption DEF AccessInv, TypeOK
<1>2. Anonymous \in Profiles /\ NewProfiles \subseteq Profiles
  <2>1. {"public"} = {} \cup {"public"} /\ {} \in SUBSET {"ops"}
      OBVIOUS
  <2>2. {"public"} \in {g \cup {"public"} : g \in SUBSET {"ops"}}
      BY <2>1
  <2>3. AnonLevel \in Levels
      BY AccessAssumption DEF Levels
  <2> QED BY <2>2, <2>3, AccessAssumption DEF Anonymous, Profiles
<1>3. PICK s \in Operators :
          \/ \E p \in Persons :
                \/ AddPerson(s, p) \/ RemovePerson(s, p)
                \/ \E profile \in NewProfiles : SetAclProfile(s, p, profile)
          \/ \E r \in Concrete : CreateResource(s, r) \/ DeleteResource(s, r)
    BY DEF Administering
<1>4. ASSUME NEW p \in Persons, AddPerson(s, p) PROVE AccessInv'
    BY <1>0, <1>1, <1>2, <1>4, AdministersWith DEF AddPerson
<1>5. ASSUME NEW p \in Persons, NEW profile \in NewProfiles, SetAclProfile(s, p, profile)
      PROVE  AccessInv'
    BY <1>0, <1>1, <1>2, <1>5, AdministersWith DEF SetAclProfile
<1>6. ASSUME NEW p \in Persons, RemovePerson(s, p) PROVE AccessInv'
  <2>1. /\ profiles' = [profiles EXCEPT ![p] = NoProfile]
        /\ UNCHANGED <<database, drawn, alive, request, requests, stale>>
        /\ rows' = [i \in 1 .. Entries |-> IF Holds(i) /\ rows[i].subject = p THEN NoRow ELSE rows[i]]
      BY <1>6 DEF RemovePerson, WithoutRows
  <2>2. /\ rows' \in [1 .. Entries -> Rows \cup {NoRow}]
        /\ \A i \in 1 .. Entries : rows'[i] = NoRow \/ rows'[i] = rows[i]
      BY <1>1, <2>1
  <2> QED BY <1>0, <1>1, <2>1, <2>2, AdministersWith
<1>7. ASSUME NEW r \in Concrete, CreateResource(s, r) PROVE AccessInv'
  <2>1. /\ s # Anyone /\ drawn < Entries /\ drawn' = drawn + 1
        /\ alive' \subseteq alive \cup Below(r)
        /\ rows' = [rows EXCEPT ![drawn + 1] = SeedEntry(r, s)]
        /\ UNCHANGED <<database, profiles, request, requests, stale>>
      BY <1>7 DEF CreateResource
  <2>2. s \in Persons /\ Below(r) \subseteq Concrete
      BY <2>1 DEF Operators, Below
  <2>3. SeedEntry(r, s) \in Rows /\ ~ AdmitsAnonymous(SeedEntry(r, s))
      BY <2>2, SeedRow
  <2>4. /\ rows' \in [1 .. Entries -> Rows \cup {NoRow}]
        /\ \A i \in 1 .. Entries : rows'[i] = IF i = drawn + 1 THEN SeedEntry(r, s) ELSE rows[i]
      BY <1>1, <2>1, <2>3
  <2>5. drawn' \in 0 .. Entries /\ drawn <= drawn' /\ alive' \subseteq Concrete
      BY <1>1, <2>1, <2>2
  <2>6. \A i \in 1 .. Entries : rows'[i] # NoRow /\ rows'[i] # rows[i] =>
            i <= drawn' /\ ~ AdmitsAnonymous(rows'[i])
      BY <1>1, <2>1, <2>3, <2>4
  <2> QED BY <1>0, <1>1, <2>1, <2>4, <2>5, <2>6, AdministersWith
<1>8. ASSUME NEW r \in Concrete, DeleteResource(s, r) PROVE AccessInv'
  <2>1. /\ alive' \subseteq alive
        /\ UNCHANGED <<database, profiles, drawn, request, requests, stale>>
        /\ rows' = [i \in 1 .. Entries |->
               IF Holds(i) /\ rows[i].resource \in Below(r)
                           /\ rows[i].resource[1] \in {"MISSION", "ASSIGNMENT"}
               THEN NoRow ELSE rows[i]]
      BY <1>8 DEF DeleteResource, WithoutRows
  <2>2. /\ rows' \in [1 .. Entries -> Rows \cup {NoRow}]
        /\ \A i \in 1 .. Entries : rows'[i] = NoRow \/ rows'[i] = rows[i]
      BY <1>1, <2>1
  <2> QED BY <1>0, <1>1, <2>1, <2>2, AdministersWith
<1> QED BY <1>3, <1>4, <1>5, <1>6, <1>7, <1>8

-----------------------------------------------------------------------------
LEMMA AccessInvStep == AccessInv /\ [Next]_vars => AccessInv'
<1> SUFFICES ASSUME AccessInv, [Next]_vars PROVE AccessInv'
    OBVIOUS
<1>1. CASE Administering
    BY <1>1, AdministeringKeeps
<1>2. ASSUME NEW w \in Workers, Entering(w) \/ Writing(w) PROVE AccessInv'
    BY <1>2, EnteringKeeps, WritingKeeps
<1>3. CASE UNCHANGED vars
  <2> USE DEF AccessInv
  <2>1. UNCHANGED <<database, rows, drawn, profiles, alive, request, requests, stale, assigner>>
      BY <1>3 DEF vars
  <2>2. TypeOK'
      BY <2>1 DEF TypeOK, Holds
  <2>3. RequestsInv' /\ OnlyStaleWritesAdmitAnonymous'
      BY <2>1 DEF RequestsInv, RequestOf, KindOf, OnlyStaleWritesAdmitAnonymous, Holds
  <2> QED BY <2>2, <2>3
<1> QED BY <1>1, <1>2, <1>3 DEF Next

(* The invariant of the rules and of those who change them.                *)
THEOREM AccessCorrect == Spec => []AccessInv
    BY AccessInvInit, AccessInvStep, PTL DEF Spec

(* The types of AccessControl: entries have rows only once they are drawn. *)
THEOREM AccessTypeCorrect == Spec => []TypeOK
<1>1. AccessInv => TypeOK
    BY DEF AccessInv
<1> QED BY <1>1, AccessCorrect, PTL

(* INV-2: no entry lets an anonymous caller change anything, unless it was *)
(* written over a row that had changed since it was read. Both requests    *)
(* had validated what they meant to write; the columns of both had not     *)
(* been.                                                                   *)
THEOREM OnlyStaleAdmits == Spec => []OnlyStaleWritesAdmitAnonymous
<1>1. AccessInv => OnlyStaleWritesAdmitAnonymous
    BY DEF AccessInv
<1> QED BY <1>1, AccessCorrect, PTL

(* On MySQL an entry that was deleted has no row ever again: no request    *)
(* there restores what another one deleted, and identifiers are new.       *)
THEOREM RevokedForGood == Spec => RevokedStaysRevoked
<1> DEFINE Gone(i) == i <= drawn /\ ~ Holds(i)
           Stays == database = "MySQL" => \A i \in 1 .. Entries : Gone(i) => ~ Holds(i)'
<1>1. AccessInv /\ [Next]_vars => [Stays]_vars
  <2> SUFFICES ASSUME AccessInv, Next, database = "MySQL",
                      NEW i \in 1 .. Entries, i <= drawn, rows[i] = NoRow
               PROVE  rows'[i] = NoRow
      BY DEF Holds
  <2>1. /\ Entries \in Nat /\ drawn \in 0 .. Entries /\ rows \in [1 .. Entries -> Rows \cup {NoRow}]
      BY AccessAssumption DEF AccessInv, TypeOK
  <2>2. CASE Administering
    <3>1. PICK s \in Operators :
              \/ \E p \in Persons :
                    \/ AddPerson(s, p) \/ RemovePerson(s, p)
                    \/ \E profile \in NewProfiles : SetAclProfile(s, p, profile)
              \/ \E r \in Concrete : CreateResource(s, r) \/ DeleteResource(s, r)
        BY <2>2 DEF Administering
    <3>2. ASSUME NEW p \in Persons, NEW profile, AddPerson(s, p) \/ SetAclProfile(s, p, profile)
          PROVE  rows'[i] = NoRow
        BY <3>2 DEF AddPerson, SetAclProfile
    <3>3. ASSUME NEW p \in Persons, RemovePerson(s, p) PROVE rows'[i] = NoRow
        BY <3>3 DEF RemovePerson, WithoutRows
    <3>4. ASSUME NEW r \in Concrete, CreateResource(s, r) PROVE rows'[i] = NoRow
        BY <2>1, <3>4 DEF CreateResource
    <3>5. ASSUME NEW r \in Concrete, DeleteResource(s, r) PROVE rows'[i] = NoRow
        BY <3>5 DEF DeleteResource, WithoutRows
    <3> QED BY <3>1, <3>2, <3>3, <3>4, <3>5
  <2>3. ASSUME NEW w \in Workers, Entering(w) PROVE rows'[i] = NoRow
      BY <2>3 DEF Entering, EnsureBootstrapEntries, CreateEntry, UpdateEntry, DeleteEntry, Decides
  <2>4. ASSUME NEW w \in Workers, Writing(w) PROVE rows'[i] = NoRow
    <3>1. request[w].kind # "restore"
        BY DEF AccessInv, RequestsInv, RequestOf, KindOf
    <3>2. CASE SelectAgain(w)
        BY <3>2 DEF SelectAgain
    <3>3. CASE Insert(w)
        BY <2>1, <3>3 DEF Insert
    <3>4. CASE InsertDefaults(w)
        BY <2>1, <3>4 DEF InsertDefaults
    <3>5. CASE Update(w)
      <4>1. rows' = [rows EXCEPT ![request[w].id] = Updated(request[w])]
          BY <3>5 DEF Update
      <4>2. CASE request[w].id = i
          BY <2>1, <4>1, <4>2 DEF Updated, Holds
      <4>3. CASE request[w].id # i
          BY <2>1, <4>1, <4>3
      <4> QED BY <4>2, <4>3
    <3>6. CASE Delete(w)
        BY <2>1, <3>6 DEF Delete
    <3> QED BY <2>4, <3>1, <3>2, <3>3, <3>4, <3>5, <3>6 DEF Writing, Resurrect
  <2> QED BY <2>2, <2>3, <2>4 DEF Next
<1>2. Spec => [][Stays]_vars
    BY <1>1, AccessCorrect, PTL DEF Spec
<1> QED BY <1>2 DEF RevokedStaysRevoked
-----------------------------------------------------------------------------
(* Who manages the whole system                                            *)

(* Updates, deletions and restorations name an entry: what they hold of it *)
(* has its resource, whoever wrote it since.  Only a request of somebody   *)
(* who managed the whole system names or adds entries of anything but      *)
(* concrete resources.                                                     *)
Naming == {"update", "delete", "restore"}

TargetOf(w) == IF KindOf(w) = "delete" THEN request[w].old.resource ELSE request[w].new.resource

(* What a local manager may manage.                                        *)
Own(r) == r \notin Roots \cup {System}

Targets(w) ==
    /\ KindOf(w) = "update" => request[w].old.resource = request[w].new.resource
    /\ KindOf(w) \in Naming /\ Holds(request[w].id) => rows[request[w].id].resource = TargetOf(w)
    /\ KindOf(w) \in Naming \cup {"insert"} /\ ~ request[w].admin => Own(TargetOf(w))
    /\ KindOf(w) = "seed" => request[w].admin

Agree(w, x) ==
    KindOf(w) \in Naming /\ KindOf(x) \in Naming /\ request[w].id = request[x].id
        => TargetOf(w) = TargetOf(x)

TargetsInv ==
    /\ \A w \in Workers : Targets(w)
    /\ \A w, x \in Workers : Agree(w, x)

ManagersInv == AccessInv /\ TargetsInv

LEMMA TargetsInit == Init => TargetsInv
    BY DEF Init, TargetsInv, Targets, Agree, KindOf, Idle, Naming

LEMMA ConcreteOwn == \A r \in Concrete : Own(r)
BY AccessAssumption DEF Own, Roots, Types

(* The request of one worker changes, the rows do not.                     *)
LEMMA TargetsKept ==
    ASSUME TargetsInv, NEW w \in Workers, UNCHANGED rows,
           \A x \in Workers : x # w => request'[x] = request[x],
           Targets(w)',
           \A x \in Workers : x # w => Agree(w, x)'
    PROVE  TargetsInv'
<1>1. ASSUME NEW x \in Workers, x # w PROVE Targets(x)'
  <2>1. Targets(x)
      BY DEF TargetsInv
  <2> QED BY <1>1, <2>1 DEF Targets, KindOf, TargetOf, Holds
<1>2. ASSUME NEW x \in Workers, NEW y \in Workers PROVE Agree(x, y)'
  <2>1. CASE x # w /\ y # w
    <3>1. Agree(x, y)
        BY DEF TargetsInv
    <3> QED BY <2>1, <3>1 DEF Agree, KindOf, TargetOf
  <2>2. CASE x = w /\ y # w
      BY <2>2
  <2>3. CASE x # w /\ y = w
    <3>1. Agree(w, x)'
        BY <2>3
    <3> QED BY <2>3, <3>1 DEF Agree
  <2>4. CASE x = w /\ y = w
      BY <2>4 DEF Agree
  <2> QED BY <2>1, <2>2, <2>3, <2>4
<1> QED BY <1>1, <1>2 DEF TargetsInv

(* A decision about an entry holds the resource of its row.                *)
LEMMA DecidesTargets ==
    ASSUME ManagersInv, NEW w \in Workers,
           NEW kind \in {"insert", "seed", "update", "delete"},
           NEW s, NEW i \in 0 .. Entries, NEW old, NEW new,
           Decides(w, kind, s, i, old, new),
           kind = "insert" => EnsureCanManage(s, new.resource),
           kind \in {"update", "delete"} =>
               i \in 1 .. Entries /\ Holds(i) /\ old = rows[i] /\ EnsureCanManage(s, old.resource),
           kind = "update" => new.resource = old.resource
    PROVE  TargetsInv'
<1> USE DEF ManagersInv, AccessInv
<1> DEFINE admin == kind = "seed" \/ HasGlobalManage(s)
           q == [kind |-> kind, found |-> database = "MySQL", admin |-> admin,
                 id |-> i, old |-> old, new |-> new]
<1>1. request' = [request EXCEPT ![w] = q] /\ UNCHANGED rows
    BY DEF Decides
<1>2. ~ admin => kind # "seed" /\ ~ HasGlobalManage(s)
    OBVIOUS
<1> HIDE DEF admin
<1>3. q.kind = kind /\ q.id = i /\ q.old = old /\ q.new = new /\ q.admin = admin
    OBVIOUS
<1> HIDE DEF q
<1>4. request'[w] = q /\ \A x \in Workers : x # w => request'[x] = request[x]
    BY <1>1 DEF TypeOK
<1>5. kind = "seed" => admin
    BY DEF admin
<1>6. Targets(w)'
    BY <1>1, <1>2, <1>3, <1>4, <1>5 DEF Targets, KindOf, TargetOf, Naming, EnsureCanManage, Holds, Own
<1>7. ASSUME NEW x \in Workers, x # w PROVE Agree(w, x)'
  <2>1. Targets(x)
      BY DEF TargetsInv
  <2> QED BY <1>1, <1>3, <1>4, <1>7, <2>1 DEF Targets, Agree, KindOf, TargetOf, Naming, Holds
<1> QED BY <1>1, <1>4, <1>6, <1>7, TargetsKept

LEMMA EnteringTargets ==
    ASSUME ManagersInv, NEW w \in Workers, Entering(w)
    PROVE  TargetsInv'
<1>1. Entries \in Nat /\ rows \in [1 .. Entries -> Rows \cup {NoRow}]
    BY AccessAssumption DEF ManagersInv, AccessInv, TypeOK
<1>2. CASE EnsureBootstrapEntries(w)
  <2>1. Decides(w, "seed", Anyone, 0, NoRow, NoRow)
      BY <1>2 DEF EnsureBootstrapEntries
  <2> QED BY <1>1, <2>1, DecidesTargets
<1>3. ASSUME NEW s \in Operators, NEW input \in Inputs, CreateEntry(w, s, input)
      PROVE  TargetsInv'
  <2>1. /\ Decides(w, "insert", s, 0, NoRow, EntryFromInput(input))
        /\ EnsureCanManage(s, EntryFromInput(input).resource)
      BY <1>3 DEF CreateEntry
  <2> QED BY <1>1, <2>1, DecidesTargets
<1>4. ASSUME NEW s \in Operators, NEW i \in Named, NEW body \in Bodies, UpdateEntry(w, s, i, body)
      PROVE  TargetsInv'
  <2>1. i \in 1 .. Entries /\ Holds(i) /\ rows[i] \in Rows /\ EnsureCanManage(s, rows[i].resource)
      BY <1>1, <1>4, AccessAssumption DEF UpdateEntry, Holds
  <2>2. PatchedEntry(rows[i], body).resource = rows[i].resource
      BY <2>1, RowFields, AccessAssumption DEF PatchedEntry, Columns
  <2>3. Decides(w, "update", s, i, rows[i], PatchedEntry(rows[i], body))
      BY <1>4 DEF UpdateEntry
  <2> QED BY <1>1, <2>1, <2>2, <2>3, DecidesTargets
<1>5. ASSUME NEW s \in Operators, NEW i \in Named, DeleteEntry(w, s, i)
      PROVE  TargetsInv'
  <2>1. i \in 1 .. Entries /\ Holds(i) /\ EnsureCanManage(s, rows[i].resource)
      BY <1>5, AccessAssumption DEF DeleteEntry
  <2>2. Decides(w, "delete", s, i, rows[i], NoRow)
      BY <1>5 DEF DeleteEntry
  <2> QED BY <1>1, <2>1, <2>2, DecidesTargets
<1> QED BY <1>2, <1>3, <1>4, <1>5 DEF Entering

(* save() and delete() may find a row somebody else has written since: it  *)
(* is about the same resource.                                             *)
LEMMA SelectTargets ==
    ASSUME ManagersInv, NEW w \in Workers, SelectAgain(w)
    PROVE  TargetsInv'
<1> USE DEF ManagersInv
<1>1. PICK q \in Requests : q = request[w]
    BY DEF AccessInv, TypeOK
<1>2. /\ q.kind \in {"update", "delete"}
      /\ request' = [request EXCEPT ![w] =
             IF rows[q.id] # NoRow THEN [q EXCEPT !.found = TRUE, !.old = rows[q.id]]
             ELSE IF q.kind = "update" THEN [q EXCEPT !.kind = "restore"]
             ELSE Idle]
      /\ UNCHANGED rows
    BY <1>1 DEF SelectAgain
<1>3. q.id \in 1 .. Entries /\ rows[q.id] \in Rows \cup {NoRow}
  <2>1. q.id \in 1 .. drawn
      BY <1>1, <1>2 DEF AccessInv, RequestsInv, RequestOf, KindOf
  <2> QED BY <2>1, AccessAssumption DEF AccessInv, TypeOK
<1>4. /\ Targets(w) /\ TargetOf(w) = IF q.kind = "delete" THEN q.old.resource ELSE q.new.resource
      /\ KindOf(w) = q.kind
    BY <1>1 DEF TargetsInv, TargetOf, KindOf
<1>5. \A x \in Workers : x # w => request'[x] = request[x]
    BY <1>2 DEF AccessInv, TypeOK
<1>6. /\ KindOf(w)' = "idle"
         \/ /\ KindOf(w)' \in Naming /\ request'[w].id = q.id /\ request'[w].admin = q.admin
            /\ TargetOf(w)' = TargetOf(w)
      /\ KindOf(w)' = "update" => request'[w].old.resource = request'[w].new.resource
  <2>1. CASE rows[q.id] # NoRow
    <3>1. PICK p \in Requests :
              /\ request' = [request EXCEPT ![w] = p]
              /\ p.kind = q.kind /\ p.old = rows[q.id] /\ p.id = q.id /\ p.new = q.new
              /\ p.admin = q.admin
      <4>1. q \in Requests \ {Idle}
          BY <1>1, <1>2 DEF Idle
      <4>2. LET p == [q EXCEPT !.found = TRUE, !.old = rows[q.id]]
            IN  /\ p \in Requests /\ p.kind = q.kind /\ p.old = rows[q.id] /\ p.id = q.id
                /\ p.new = q.new
          BY <1>2, <1>3, MarkedRequests
      <4>3. [q EXCEPT !.found = TRUE, !.old = rows[q.id]].admin = q.admin
          BY <4>1 DEF Requests
      <4> QED BY <1>2, <2>1, <4>2, <4>3
    <3>2. request'[w] = p
        BY <3>1 DEF AccessInv, TypeOK
    <3>3. rows[q.id].resource = TargetOf(w)
        BY <1>1, <1>2, <1>4, <2>1 DEF Targets, Holds, Naming
    <3> QED BY <1>2, <1>4, <3>1, <3>2, <3>3 DEF KindOf, TargetOf, Naming
  <2>2. CASE rows[q.id] = NoRow /\ q.kind = "update"
    <3>1. /\ request'[w] = [q EXCEPT !.kind = "restore"]
        BY <1>2, <2>2 DEF AccessInv, TypeOK
    <3>2. q \in Requests \ {Idle}
        BY <1>1, <1>2 DEF Idle
    <3>3. LET p == [q EXCEPT !.kind = "restore"]
          IN  p.kind = "restore" /\ p.id = q.id /\ p.new = q.new /\ p.admin = q.admin
        BY <3>2 DEF Requests
    <3> QED BY <1>4, <2>2, <3>1, <3>3 DEF KindOf, TargetOf, Naming
  <2>3. CASE rows[q.id] = NoRow /\ q.kind # "update"
    <3>1. request'[w] = Idle
        BY <1>2, <2>3 DEF AccessInv, TypeOK
    <3> QED BY <3>1 DEF KindOf, Idle
  <2> QED BY <2>1, <2>2, <2>3
<1>7. Targets(w)'
  <2>1. q.kind \in Naming /\ request[w].id = q.id /\ request[w].admin = q.admin
      BY <1>1, <1>2 DEF Naming
  <2>2. Holds(q.id)' = Holds(q.id) /\ rows' = rows
      BY <1>2 DEF Holds
  <2>3. /\ Holds(q.id) => rows[q.id].resource = TargetOf(w)
        /\ ~ q.admin => Own(TargetOf(w))
      BY <1>4, <2>1 DEF Targets
  <2> QED BY <1>6, <2>2, <2>3 DEF Targets, Naming, Holds
<1>8. ASSUME NEW x \in Workers, x # w PROVE Agree(w, x)'
  <2>1. Agree(w, x) /\ request'[x] = request[x] /\ KindOf(x)' = KindOf(x) /\ TargetOf(x)' = TargetOf(x)
      BY <1>5, <1>8 DEF TargetsInv, KindOf, TargetOf
  <2>2. KindOf(w) \in Naming /\ request[w].id = q.id
      BY <1>1, <1>2, <1>4 DEF Naming
  <2> QED BY <1>6, <2>1, <2>2 DEF Agree, Naming
<1> QED BY <1>2, <1>5, <1>7, <1>8, TargetsKept

(* What a statement leaves in the table.                                   *)
LEMMA WriteEffect ==
    ASSUME ManagersInv, NEW w \in Workers, Writing(w), ~ SelectAgain(w)
    PROVE  /\ Ends(w) /\ KindOf(w) # "idle" /\ UNCHANGED profiles
           /\ \A i \in 1 .. Entries : rows'[i] # rows[i] =>
                 \/ /\ i > drawn
                    /\ request[w].admin \/ Own(rows'[i].resource)
                 \/ /\ KindOf(w) \in Naming /\ i = request[w].id
                    /\ rows'[i] = NoRow \/ rows'[i].resource = TargetOf(w)
<1> USE DEF ManagersInv
<1>1. /\ drawn \in 0 .. Entries /\ Entries \in Nat
      /\ rows \in [1 .. Entries -> Rows \cup {NoRow}]
    BY AccessAssumption DEF AccessInv, TypeOK
<1>2. PICK q : q = request[w]
    OBVIOUS
<1>3. Targets(w) /\ RequestOf(w) /\ KindOf(w) = q.kind
    BY <1>2 DEF TargetsInv, AccessInv, RequestsInv, KindOf
<1>4. CASE Insert(w)
  <2>1. q.kind = "insert" /\ rows' = [rows EXCEPT ![drawn + 1] = q.new] /\ UNCHANGED profiles /\ Ends(w)
      BY <1>2, <1>4 DEF Insert
  <2>2. q.admin \/ Own(q.new.resource)
      BY <1>2, <1>3, <2>1 DEF Targets, TargetOf
  <2>3. \A i \in 1 .. Entries : rows'[i] # rows[i] => i = drawn + 1 /\ rows'[i] = q.new
      BY <1>1, <2>1
  <2> QED BY <1>1, <1>2, <1>3, <2>1, <2>2, <2>3
<1>5. CASE InsertDefaults(w)
  <2>1. /\ q.kind = "seed" /\ UNCHANGED profiles /\ Ends(w)
        /\ rows' = [i \in 1 .. Entries |->
               IF i \in drawn + 1 .. drawn + Len(Defaults) THEN Defaults[i - drawn] ELSE rows[i]]
      BY <1>2, <1>5 DEF InsertDefaults
  <2>2. Len(Defaults) \in Nat
      BY DefaultsAssumption
  <2>3. \A i \in 1 .. Entries : rows'[i] # rows[i] => i > drawn
      BY <1>1, <2>1, <2>2
  <2> QED BY <1>2, <1>3, <2>1, <2>3 DEF Targets
<1>6. CASE Update(w)
  <2>1. /\ q.kind = "update" /\ UNCHANGED profiles /\ Ends(w)
        /\ rows' = [rows EXCEPT ![q.id] = Updated(q)]
      BY <1>2, <1>6 DEF Update
  <2>2. /\ q.id \in 1 .. Entries /\ rows[q.id] \in Rows \cup {NoRow}
        /\ q.old.resource = q.new.resource /\ q.id = request[w].id
        /\ Holds(q.id) => rows[q.id].resource = TargetOf(w)
      BY <1>1, <1>2, <1>3, <2>1 DEF Targets, RequestOf, Naming
  <2>3. Updated(q) = NoRow \/ Updated(q).resource = TargetOf(w)
    <3>1. CASE ~ Holds(q.id)
        BY <3>1 DEF Updated
    <3>2. CASE Holds(q.id)
      <4>1. rows[q.id] \in Rows /\ DOMAIN rows[q.id] = Columns
          BY <2>2, <3>2, RowFields DEF Holds
      <4>2. Updated(q).resource = rows[q.id].resource
          BY <2>2, <3>2, <4>1 DEF Updated, Merged, Columns
      <4> QED BY <2>2, <3>2, <4>2
    <3> QED BY <3>1, <3>2
  <2>4. \A i \in 1 .. Entries : rows'[i] # rows[i] => i = q.id /\ rows'[i] = Updated(q)
      BY <1>1, <2>1
  <2> QED BY <1>3, <2>1, <2>2, <2>3, <2>4 DEF Naming
<1>7. CASE Resurrect(w)
  <2>1. /\ q.kind = "restore" /\ UNCHANGED profiles /\ Ends(w)
        /\ rows' = [rows EXCEPT ![q.id] = q.new]
      BY <1>2, <1>7 DEF Resurrect
  <2>2. q.new.resource = TargetOf(w) /\ q.id = request[w].id
      BY <1>2, <1>3, <2>1 DEF TargetOf
  <2>3. \A i \in 1 .. Entries : rows'[i] # rows[i] => i = q.id /\ rows'[i] = q.new
      BY <1>1, <2>1
  <2> QED BY <1>3, <2>1, <2>2, <2>3 DEF Naming
<1>8. CASE Delete(w)
  <2>1. /\ q.kind = "delete" /\ UNCHANGED profiles /\ Ends(w)
        /\ rows' = [rows EXCEPT ![q.id] = NoRow]
      BY <1>2, <1>8 DEF Delete
  <2>2. \A i \in 1 .. Entries : rows'[i] # rows[i] => i = q.id /\ rows'[i] = NoRow
      BY <1>1, <2>1
  <2> QED BY <1>2, <1>3, <2>1, <2>2 DEF Naming
<1> QED BY <1>4, <1>5, <1>6, <1>7, <1>8 DEF Writing

LEMMA WritingTargets ==
    ASSUME ManagersInv, NEW w \in Workers, Writing(w)
    PROVE  TargetsInv'
<1> USE DEF ManagersInv
<1>1. CASE SelectAgain(w)
    BY <1>1, SelectTargets
<1>2. CASE ~ SelectAgain(w)
  <2>1. /\ Ends(w) /\ drawn \in Nat /\ Entries \in Nat /\ drawn <= Entries
      BY <1>2, WriteEffect, AccessAssumption DEF AccessInv, TypeOK
  <2>2. request'[w] = Idle /\ \A x \in Workers : x # w => request'[x] = request[x]
      BY <2>1 DEF Ends, AccessInv, TypeOK
  <2>3. ASSUME NEW x \in Workers PROVE Targets(x)'
    <3>1. CASE x = w
        BY <2>2, <3>1 DEF Targets, KindOf, Idle, Naming
    <3>2. CASE x # w
      <4>1. Targets(x) /\ Agree(w, x) /\ RequestOf(x) /\ request'[x] = request[x]
            /\ TargetOf(x)' = TargetOf(x) /\ KindOf(x)' = KindOf(x)
          BY <2>2, <3>2 DEF TargetsInv, AccessInv, RequestsInv, TargetOf, KindOf
      <4>2. ASSUME KindOf(x) \in Naming, rows'[request[x].id] # NoRow
            PROVE  rows'[request[x].id].resource = TargetOf(x)
        <5> DEFINE i == request[x].id
        <5>1. i \in 1 .. drawn /\ i \in 1 .. Entries
            BY <2>1, <4>1, <4>2 DEF RequestOf, Naming
        <5>2. CASE rows'[i] = rows[i]
            BY <4>1, <4>2, <5>2 DEF Targets, Holds
        <5>3. CASE rows'[i] # rows[i]
          <6>1. ~ (i > drawn)
              BY <2>1, <5>1
          <6>2. KindOf(w) \in Naming /\ i = request[w].id /\ rows'[i].resource = TargetOf(w)
              BY <1>2, <4>2, <5>1, <5>3, <6>1, WriteEffect
          <6> QED BY <4>1, <4>2, <6>2 DEF Agree
        <5> QED BY <5>2, <5>3
      <4> QED BY <4>1, <4>2 DEF Targets, Holds
    <3> QED BY <3>1, <3>2
  <2>4. ASSUME NEW x \in Workers, NEW y \in Workers PROVE Agree(x, y)'
    <3>1. CASE x = w \/ y = w
        BY <2>2, <3>1 DEF Agree, KindOf, Idle, Naming
    <3>2. CASE x # w /\ y # w
      <4>1. Agree(x, y)
          BY DEF TargetsInv
      <4> QED BY <2>2, <3>2, <4>1 DEF Agree, KindOf, TargetOf
    <3> QED BY <3>1, <3>2
  <2> QED BY <2>3, <2>4 DEF TargetsInv
<1> QED BY <1>1, <1>2

(* People and resources take rows away or add one under a new identifier.  *)
LEMMA AdministeringEffect ==
    ASSUME ManagersInv, Administering
    PROVE  /\ UNCHANGED request
           /\ \A i \in 1 .. Entries : rows'[i] = rows[i] \/ rows'[i] = NoRow \/ i > drawn
<1> USE DEF ManagersInv
<1>1. /\ drawn \in 0 .. Entries /\ Entries \in Nat
      /\ rows \in [1 .. Entries -> Rows \cup {NoRow}]
    BY AccessAssumption DEF AccessInv, TypeOK
<1>2. PICK s \in Operators :
          \/ \E p \in Persons :
                \/ AddPerson(s, p) \/ RemovePerson(s, p)
                \/ \E profile \in NewProfiles : SetAclProfile(s, p, profile)
          \/ \E r \in Concrete : CreateResource(s, r) \/ DeleteResource(s, r)
    BY DEF Administering
<1>3. ASSUME NEW p \in Persons, NEW profile, AddPerson(s, p) \/ SetAclProfile(s, p, profile)
      PROVE  UNCHANGED <<rows, request>>
    BY <1>3 DEF AddPerson, SetAclProfile
<1>4. ASSUME NEW p \in Persons, RemovePerson(s, p)
      PROVE  UNCHANGED request /\ \A i \in 1 .. Entries : rows'[i] = rows[i] \/ rows'[i] = NoRow
    BY <1>4 DEF RemovePerson, WithoutRows
<1>5. ASSUME NEW r \in Concrete, CreateResource(s, r)
      PROVE  UNCHANGED request /\ \A i \in 1 .. Entries : rows'[i] = rows[i] \/ i > drawn
    BY <1>1, <1>5 DEF CreateResource
<1>6. ASSUME NEW r \in Concrete, DeleteResource(s, r)
      PROVE  UNCHANGED request /\ \A i \in 1 .. Entries : rows'[i] = rows[i] \/ rows'[i] = NoRow
    BY <1>6 DEF DeleteResource, WithoutRows
<1> QED BY <1>2, <1>3, <1>4, <1>5, <1>6

LEMMA ManagersStep == ManagersInv /\ [Next]_vars => ManagersInv'
<1> SUFFICES ASSUME ManagersInv, [Next]_vars PROVE ManagersInv'
    OBVIOUS
<1> USE DEF ManagersInv
<1>1. AccessInv'
    BY AccessInvStep
<1>2. CASE Administering
  <2>1. drawn \in Nat /\ Entries \in Nat /\ drawn <= Entries
      BY AccessAssumption DEF AccessInv, TypeOK
  <2>2. ASSUME NEW x \in Workers PROVE Targets(x)'
    <3>1. Targets(x) /\ RequestOf(x) /\ UNCHANGED request
        BY <1>2, AdministeringEffect DEF TargetsInv, AccessInv, RequestsInv
    <3>2. KindOf(x) \in Naming => request[x].id \in 1 .. drawn
        BY <3>1 DEF RequestOf, Naming
    <3>3. KindOf(x) \in Naming /\ Holds(request[x].id)' => rows'[request[x].id] = rows[request[x].id]
        BY <1>2, <2>1, <3>1, <3>2, AdministeringEffect DEF Holds
    <3> QED BY <3>1, <3>3 DEF Targets, KindOf, TargetOf, Holds
  <2>3. \A x, y \in Workers : Agree(x, y)'
      BY <1>2, AdministeringEffect DEF TargetsInv, Agree, KindOf, TargetOf
  <2> QED BY <1>1, <2>2, <2>3 DEF TargetsInv
<1>3. ASSUME NEW w \in Workers, Entering(w) \/ Writing(w) PROVE TargetsInv'
    BY <1>3, EnteringTargets, WritingTargets
<1>4. CASE UNCHANGED vars
    BY <1>1, <1>4 DEF vars, TargetsInv, Targets, Agree, KindOf, TargetOf, Holds
<1> QED BY <1>1, <1>2, <1>3, <1>4 DEF Next

-----------------------------------------------------------------------------
(* The decision on the whole system looks at its own entries alone.        *)
Guards == EntriesFor(System, "MANAGE_ACL")

LEMMA GlobalManage ==
    ASSUME NEW s
    PROVE  /\ HasGlobalManage(s) <=> Resolves(Guards, s)
           /\ HasGlobalManage(s)' <=> Resolves(Guards, s)'
<1>1. Visited(System, "MANAGE_ACL") = {0} /\ Up(System, 0) = System /\ Up(System, 0)' = System
    BY DEF Visited, NonInheritable, Up
<1>2. HasGlobalManage(s) <=> Resolves(Guards, s)
    BY <1>1 DEF HasGlobalManage, Allowed, Guards
<1>3. HasGlobalManage(s)' <=> Resolves(Guards, s)'
    BY <1>1 DEF HasGlobalManage, Allowed, Guards
<1> QED BY <1>2, <1>3

(* The rows that change are of other resources.                            *)
LEMMA GuardsSame ==
    ASSUME \A i \in 1 .. Entries : rows'[i] # rows[i] =>
               /\ rows[i] = NoRow \/ Own(rows[i].resource)
               /\ rows'[i] = NoRow \/ Own(rows'[i].resource)
    PROVE  Guards' = Guards
<1>1. ~ Own(System)
    BY DEF Own
<1>2. ASSUME NEW e PROVE e \in Guards' <=> e \in Guards
    BY <1>1 DEF Guards, EntriesFor
<1> QED BY <1>2

LEMMA SameDecision ==
    ASSUME NEW p \in Persons, profiles'[p] = profiles[p], Guards' = Guards
    PROVE  HasGlobalManage(p)' <=> HasGlobalManage(p)
<1>1. ProfileOf(p)' = ProfileOf(p)
    BY DEF ProfileOf
<1>2. Resolves(Guards, p)' <=> Resolves(Guards, p)
    BY <1>1 DEF Resolves
<1> QED BY <1>2, GlobalManage

(* A person nobody has named is admitted to what everybody is admitted to. *)
LEMMA NewcomerIsAnyone ==
    ASSUME AccessInv, NEW p \in Persons, UNCHANGED rows,
           \A e \in Guards : e.subject # p,
           profiles'[p] = Anonymous, HasGlobalManage(p)'
    PROVE  Manages(Anyone) /\ stale # {}
<1>1. ProfileOf(p)' = Anonymous /\ ProfileOf(Anyone) = Anonymous
    BY AccessAssumption DEF ProfileOf
<1>2. Guards' = Guards
    BY GuardsSame
<1>3. \A e \in Guards : EntryMatches(e, p, Anonymous) <=> EntryMatches(e, Anyone, Anonymous)
    BY DEF EntryMatches, SubjectMatches
<1>4. Resolves(Guards, p)'
    BY GlobalManage
<1>5. Resolves(Guards, Anyone)
    BY <1>1, <1>2, <1>3, <1>4 DEF Resolves
<1>6. PICK e \in Guards : e.permission = "ALLOW" /\ EntryMatches(e, Anyone, Anonymous)
    BY <1>1, <1>5 DEF Resolves
<1>7. PICK i \in 1 .. Entries : rows[i] = e /\ e # NoRow /\ e.operation = "MANAGE_ACL"
    BY DEF Guards, EntriesFor
<1>8. i \in stale
    BY <1>6, <1>7 DEF AccessInv, OnlyStaleWritesAdmitAnonymous, AdmitsAnonymous, Holds, ReadOnly
<1> QED BY <1>5, <1>8, GlobalManage DEF Manages, Operators

LEMMA ManagersChange ==
    ASSUME ManagersInv, Next, NEW p \in Persons, ~ Manages(p), Manages(p)'
    PROVE  IF profiles'[p] # profiles[p]
           THEN \/ IsAllowed(assigner', "MANAGE_PROFILES", System)
                \/ Manages(Anyone) /\ stale # {}
           ELSE \/ \E w \in Workers : /\ request[w] # Idle /\ request'[w] = Idle
                                      /\ request[w].admin
                \/ DenyWentWithPerson
<1> USE DEF ManagersInv
<1>1. /\ drawn \in 0 .. Entries /\ Entries \in Nat
      /\ rows \in [1 .. Entries -> Rows \cup {NoRow}]
      /\ \A i \in 1 .. Entries : rows[i] # NoRow => i <= drawn
      /\ profiles \in [Persons -> Profiles \cup {NoProfile}]
    BY AccessAssumption DEF AccessInv, TypeOK, Holds
<1>2. p # Anyone /\ profiles'[p] # NoProfile /\ HasGlobalManage(p)'
    BY AccessAssumption DEF Manages, Operators
<1>3. profiles'[p] = profiles[p] => ~ HasGlobalManage(p)
    BY <1>2 DEF Manages, Operators
<1>4. Guards' = Guards => profiles'[p] # profiles[p]
    BY <1>2, <1>3, SameDecision
<1>5. CASE Administering
  <2>1. PICK s \in Operators :
            \/ \E q \in Persons :
                  \/ AddPerson(s, q) \/ RemovePerson(s, q)
                  \/ \E profile \in NewProfiles : SetAclProfile(s, q, profile)
            \/ \E r \in Concrete : CreateResource(s, r) \/ DeleteResource(s, r)
      BY <1>5 DEF Administering
  <2>2. ASSUME NEW q \in Persons, AddPerson(s, q)
        PROVE  profiles'[p] # profiles[p] /\ Manages(Anyone) /\ stale # {}
    <3>1. profiles' = [profiles EXCEPT ![q] = Anonymous] /\ UNCHANGED rows /\ Unnamed(q)
        BY <2>2 DEF AddPerson
    <3>2. profiles'[p] # profiles[p]
        BY <1>4, <3>1, GuardsSame
    <3>3. p = q /\ profiles'[p] = Anonymous
        BY <1>1, <3>1, <3>2
    <3>4. \A e \in Guards : e.subject # p
        BY <3>1, <3>3 DEF Guards, EntriesFor, Unnamed, Holds
    <3> QED BY <1>2, <3>1, <3>2, <3>3, <3>4, NewcomerIsAnyone
  <2>3. ASSUME NEW q \in Persons, NEW profile \in NewProfiles, SetAclProfile(s, q, profile)
        PROVE  profiles'[p] # profiles[p] /\ IsAllowed(assigner', "MANAGE_PROFILES", System)
    <3>1. /\ profiles' = [profiles EXCEPT ![q] = profile] /\ UNCHANGED rows
          /\ assigner' = IF profiles[q] # profile THEN s ELSE Anyone
          /\ IsAllowed(s, "MANAGE_PROFILES", System)
        BY <2>3 DEF SetAclProfile, ProfileRight
    <3>2. profiles'[p] # profiles[p]
        BY <1>4, <3>1, GuardsSame
    <3>3. assigner' = s
        BY <1>1, <3>1, <3>2
    <3> QED BY <3>1, <3>2, <3>3
  <2>4. ASSUME NEW q \in Persons, RemovePerson(s, q)
        PROVE  profiles'[p] = profiles[p] /\ DenyWentWithPerson
    <3>1. /\ profiles[q] # NoProfile /\ profiles' = [profiles EXCEPT ![q] = NoProfile]
          /\ rows' = [i \in 1 .. Entries |->
                 IF rows[i] # NoRow /\ rows[i].subject = q THEN NoRow ELSE rows[i]]
        BY <2>4 DEF RemovePerson, WithoutRows, Holds
    <3>2. p # q /\ profiles'[p] = profiles[p] /\ profiles'[q] = NoProfile
        BY <1>1, <1>2, <3>1
    <3>3. Guards' = {e \in Guards : e.subject # q}
      <4>1. ASSUME NEW e PROVE e \in Guards' <=> e \in Guards /\ e.subject # q
          BY <3>1 DEF Guards, EntriesFor
      <4> QED BY <4>1
    <3>4. ProfileOf(p)' = ProfileOf(p)
        BY <3>2 DEF ProfileOf
    <3>5. Resolves(Guards, p)' /\ ~ Resolves(Guards, p)
        BY <1>2, <1>3, <3>2, GlobalManage
    <3>6. PICK d \in Guards : /\ d \notin Guards' /\ d.permission = "DENY"
                              /\ EntryMatches(d, p, ProfileOf(p))
        BY <3>3, <3>4, <3>5 DEF Resolves
    <3>7. d.subject = q
        BY <3>3, <3>6
    <3>8. d.subject_join # "AND"
      <4>1. d.subject # Anyone /\ d.subject # p
          BY <3>2, <3>7, AccessAssumption
      <4> QED BY <3>6, <4>1 DEF EntryMatches, SubjectMatches
    <3>9. d.subject_join = "OR"
      <4>1. d \in Rows
          BY <1>1 DEF Guards, EntriesFor
      <4> QED BY <3>8, <4>1, RowFields
    <3> QED BY <3>1, <3>2, <3>6, <3>7, <3>9 DEF DenyWentWithPerson, Guards
  <2>5. ASSUME NEW r \in Concrete, CreateResource(s, r) PROVE FALSE
    <3>1. /\ drawn < Entries /\ rows' = [rows EXCEPT ![drawn + 1] = SeedEntry(r, s)]
          /\ UNCHANGED profiles
        BY <2>5 DEF CreateResource
    <3>2. \A i \in 1 .. Entries : rows'[i] # rows[i] =>
              rows[i] = NoRow /\ Own(rows'[i].resource)
        BY <1>1, <3>1, ConcreteOwn DEF SeedEntry
    <3> QED BY <1>4, <3>1, <3>2, GuardsSame
  <2>6. ASSUME NEW r \in Concrete, DeleteResource(s, r) PROVE FALSE
    <3>1. /\ UNCHANGED profiles
          /\ rows' = [i \in 1 .. Entries |->
                 IF rows[i] # NoRow /\ rows[i].resource \in Below(r)
                        /\ rows[i].resource[1] \in {"MISSION", "ASSIGNMENT"}
                 THEN NoRow ELSE rows[i]]
        BY <2>6 DEF DeleteResource, WithoutRows, Holds
    <3>2. Below(r) \subseteq Concrete
        BY DEF Below
    <3>3. \A i \in 1 .. Entries : rows'[i] # rows[i] =>
              rows'[i] = NoRow /\ Own(rows[i].resource)
        BY <3>1, <3>2, ConcreteOwn
    <3> QED BY <1>4, <3>1, <3>3, GuardsSame
  <2> QED BY <2>1, <2>2, <2>3, <2>4, <2>5, <2>6
<1>6. ASSUME NEW w \in Workers, Entering(w) PROVE FALSE
  <2>1. UNCHANGED <<rows, profiles>>
      BY <1>6 DEF Entering, EnsureBootstrapEntries, CreateEntry, UpdateEntry, DeleteEntry, Decides
  <2> QED BY <1>4, <2>1, GuardsSame
<1>7. ASSUME NEW w \in Workers, SelectAgain(w) PROVE FALSE
  <2>1. UNCHANGED <<rows, profiles>>
      BY <1>7 DEF SelectAgain
  <2> QED BY <1>4, <2>1, GuardsSame
<1>8. ASSUME NEW w \in Workers, Writing(w), ~ SelectAgain(w)
      PROVE  /\ profiles'[p] = profiles[p]
             /\ request[w] # Idle /\ request'[w] = Idle /\ request[w].admin
  <2>1. /\ UNCHANGED profiles /\ request[w] # Idle /\ request'[w] = Idle
      BY <1>8, WriteEffect DEF Ends, KindOf, Idle, AccessInv, TypeOK
  <2>2. ASSUME ~ request[w].admin PROVE FALSE
    <3>1. Targets(w)
        BY DEF TargetsInv
    <3>2. ASSUME NEW i \in 1 .. Entries, rows'[i] # rows[i]
          PROVE  /\ rows[i] = NoRow \/ Own(rows[i].resource)
                 /\ rows'[i] = NoRow \/ Own(rows'[i].resource)
      <4>1. CASE i > drawn
          BY <1>1, <1>8, <2>2, <3>1, <3>2, <4>1, WriteEffect DEF Targets, Naming
      <4>2. CASE ~ (i > drawn)
        <5>1. /\ KindOf(w) \in Naming /\ i = request[w].id
              /\ rows'[i] = NoRow \/ rows'[i].resource = TargetOf(w)
            BY <1>8, <3>2, <4>2, WriteEffect
        <5> QED BY <2>2, <3>1, <5>1 DEF Targets, Holds
      <4> QED BY <4>1, <4>2
    <3> QED BY <1>4, <2>1, <3>2, GuardsSame
  <2> QED BY <2>1, <2>2
<1> QED BY <1>5, <1>6, <1>7, <1>8 DEF Next

(* Nobody comes to manage the whole system but through somebody who did    *)
(* when the request that has just ended was decided, through the operator  *)
(* who has just changed his profile and may assign profiles, through the   *)
(* bootstrap, or because a DENY went with the person it was about,         *)
(* whatever requests overlap.                                              *)
THEOREM ManagersFromManagers == Spec => ManagersComeFromManagers
<1> DEFINE Grants == \A p \in Persons : ~ Manages(p) /\ Manages(p)' =>
                IF profiles'[p] # profiles[p]
                THEN \/ IsAllowed(assigner', "MANAGE_PROFILES", System)
                     \/ Manages(Anyone) /\ stale # {}
                ELSE \/ \E w \in Workers : request[w] # Idle /\ request'[w] = Idle
                                           /\ request[w].admin
                     \/ DenyWentWithPerson
<1>1. ManagersInv /\ [Next]_vars => [Grants]_vars
    BY ManagersChange
<1>2. Init => ManagersInv
    BY AccessInvInit, TargetsInit DEF ManagersInv
<1>3. Spec => [][Grants]_vars
    BY <1>1, <1>2, ManagersStep, PTL DEF Spec
<1> QED BY <1>3 DEF ManagersComeFromManagers

(* Rights come from rights, and on MySQL what was revoked stays revoked.   *)
THEOREM RulesFromManagers == Spec => RulesComeFromManagers
    BY ManagersFromManagers, RevokedForGood DEF RulesComeFromManagers
=============================================================================
