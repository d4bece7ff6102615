--------------------------- MODULE DirectoryProofs ---------------------------
(***************************************************************************)
(* Proofs about the people of the identity provider, for any accounts,     *)
(* requests, processes, levels and bounds.                                 *)
(*                                                                         *)
(* DirectoryAccounts: accounts, bindings and people fit together           *)
(* (AccountsSound) and an identifier is never bound anew (IdentityFixed).  *)
(* Neither is inductive: a request under way holds an identifier it has    *)
(* made and not stored yet, rows it has written and not committed, and a   *)
(* snapshot that may be old.  DirectoryInv says that the identifiers are   *)
(* nobody else's (ReservedOK, Apart), that a snapshot shows what was once  *)
(* so (Was), and how far each request has come (Shape).                    *)
(*                                                                         *)
(* DirectoryCache: what a cache serves is fresh.  CachedInv adds that an   *)
(* answer under way is no older than its way (AnswersAreRecent) and that   *)
(* no two processes refer to one Person (Separate).                        *)
(*                                                                         *)
(* The last part is about local accounts, accounts at the provider and its *)
(* cache run together: a step is one of one of the three (IdentityComposes), *)
(* so what holds of each holds of all.                                     *)
(***************************************************************************)
EXTENDS AccountsProofs, MCIdentity, FiniteSetTheorems

-----------------------------------------------------------------------------
(* Accounts                                                                *)

Snapshots == [bound : [Externals -> Ids \cup {NoId}], locals : [Ids -> AclLevels \cup {Nobody}]]
Bindings  == UNION {[S -> Ids \cup {NoId}] : S \in SUBSET Externals}

(* Where each request can be.                                              *)
Place(op, step) ==
    \/ op = "none" /\ step = "none"
    \/ op = "list" /\ step \in {"lookup", "inserting", "resolved"}
    \/ op = "setup" /\ step \in {"lookup", "inserting", "resolved", "vacant"}
    \/ op = "add" /\ step \in {"posting", "binding", "inserting", "resolved"}
    \/ op = "create" /\ step \in {"posting", "binding", "inserting", "resolved", "securing",
                                  "compensating", "reading"}
    \/ op = "remove" /\ step \in {"deleting", "deleted"}
    \/ op = "login" /\ step \in {"lookup", "inserting", "resolved", "provisioning", "provisioned"}

Ops   == {"none", "list", "setup", "add", "create", "remove", "login"}
Steps == {"none", "lookup", "inserting", "resolved", "vacant", "posting", "binding", "securing",
          "compensating", "reading", "deleting", "deleted", "provisioning", "provisioned"}

VisitRecords ==
    [op : Ops, step : Steps, ext : Externals \cup {Unborn}, id : Ids \cup {NoId},
     rows : SUBSET Externals, wrote : Bindings, level : AclLevels \cup {Nobody},
     claim : AclLevels \cup {Nobody}, seen : Snapshots \cup {NothingSeen}]

Placed(r) ==
    /\ Place(r.op, r.step)
    /\ backend = "local" => r.op \in {"none", "login"}
    /\ backend = "oidc" => r.step \notin {"provisioning", "provisioned"}

VisitsOK ==
    /\ visit \in [Visitors -> VisitRecords]
    /\ \A t \in Visitors : Placed(visit[t])

(* An account has been made for the request.                               *)
Maker(r) == r.op \in {"add", "create"} /\ r.step # "posting"

Shape(r) ==
    /\ r.step \in {"none", "lookup", "inserting", "vacant", "posting", "binding", "deleting"} =>
           DOMAIN r.wrote = {}
    /\ r.level # Nobody <=> r.step = "provisioned"
    /\ r.step = "posting" => r.ext = Unborn
    /\ Maker(r) \/ r.op \in {"login", "remove"} => r.ext \in Externals
    /\ r.op \in {"add", "create", "login"} /\ r.step \in {"lookup", "inserting"} => r.rows = {r.ext}
    /\ isolation = "mysql" /\ r.op # "none" /\ r.step \notin {"lookup", "vacant"} => r.seen \in Snapshots
    /\ r.op \in {"add", "create"} =>
           r.id \in Ids /\ \A e \in DOMAIN r.wrote : e = r.ext /\ r.wrote[e] = r.id
    /\ r.op = "remove" => \A e \in DOMAIN r.wrote : r.wrote[e] = NoId
    /\ r.op \in {"list", "setup", "login"} =>
           /\ \A e \in DOMAIN r.wrote : r.wrote[e] # NoId
           /\ \A d, e \in DOMAIN r.wrote : d # e => r.wrote[d] # r.wrote[e]

(* Identifiers that are bound or were, and those that new rows will hold.  *)
Used == ({bound[e] : e \in Externals} \ {NoId}) \cup gone
Reserved(r) ==
    ({r.wrote[e] : e \in DOMAIN r.wrote} \ {NoId}) \cup (IF r.op \in {"add", "create"} THEN {r.id} ELSE {})

ReservedOK(r) == \A i \in Reserved(r) : i \notin Used /\ locals[i] = Nobody

(* What a snapshot shows was so, and was consistent.                       *)
Was(s) ==
    /\ \A e \in Externals : s.bound[e] # NoId =>
          /\ s.bound[e] \in Used
          /\ backend = "local" => s.locals[s.bound[e]] # Nobody
          /\ backend = "oidc" => account[e] # Unborn
    /\ \A i \in Ids : s.locals[i] # Nobody => locals[i] # Nobody \/ i \in gone

SeenOK(r) ==
    /\ r.seen \in Snapshots => Was(r.seen)
    /\ isolation = "mysql" /\ Maker(r) => r.seen.bound[r.ext] = NoId

(* Who a sign-in takes the subject for.                                    *)
SignInOK(r) ==
    r.op = "login" /\ r.step \in {"resolved", "provisioning", "provisioned"} =>
        /\ r.id \in Ids
        /\ DOMAIN r.wrote = {} =>
              /\ r.id \in Used
              /\ isolation = "mysql" => r.id = r.seen.bound[r.ext] /\ r.step = "resolved"
        /\ DOMAIN r.wrote # {} => DOMAIN r.wrote = {r.ext} /\ r.wrote[r.ext] = r.id

(* What the rows about to be committed replace.                            *)
RowsOK(r) ==
    /\ \A e \in DOMAIN r.wrote : bound[e] # NoId /\ r.wrote[e] # NoId =>
           isolation = "postgres" /\ r.op \in {"add", "create"} /\ r.ext = e
    /\ backend = "oidc" =>
           /\ \A e \in r.rows \cup DOMAIN r.wrote : account[e] # Unborn
           /\ Maker(r) => account[r.ext] # Unborn

(* The administrator the setup is making.                                  *)
AdminOK(r) ==
    r.op = "create" =>
        /\ r.step \in {"binding", "inserting", "resolved"} /\ Exists(r.ext) => account[r.ext].level # "admin"
        /\ r.step = "reading" /\ Exists(r.ext) => account[r.ext].password

Sound(r) == Shape(r) /\ ReservedOK(r) /\ SeenOK(r) /\ SignInOK(r) /\ RowsOK(r) /\ AdminOK(r)

Apart(r, q) ==
    /\ DOMAIN r.wrote \cap DOMAIN q.wrote = {}
    /\ Reserved(r) \cap Reserved(q) = {}
    /\ Maker(r) /\ Maker(q) => r.ext # q.ext

(* Only the provider has people: none is local; only accounts that were    *)
(* made are bound.                                                         *)
StoresOK ==
    backend = "oidc" =>
        /\ \A i \in Ids : locals[i] = Nobody
        /\ \A e \in Externals : bound[e] # NoId => account[e] # Unborn

DirectoryInv ==
    /\ AccountsTypeOK /\ AccountsSound /\ StoresOK
    /\ VisitsOK
    /\ \A t \in Visitors : Sound(visit[t])
    /\ \A t, u \in Visitors : t # u => Apart(visit[t], visit[u])

-----------------------------------------------------------------------------
(* Records                                                                 *)

LEMMA Names == NoId \notin Ids /\ Nobody \notin AclLevels /\ Ids \subseteq Nat
BY ProviderAssumption DEF Ids, NoId, Nobody, AclLevels

LEMMA RestIsSound ==
    /\ AtRest \in VisitRecords /\ Place(AtRest.op, AtRest.step) /\ Reserved(AtRest) = {}
    /\ AtRest.op = "none" /\ AtRest.step = "none" /\ AtRest.level = Nobody
    /\ DOMAIN AtRest.wrote = {} /\ AtRest.rows = {} /\ ~ Maker(AtRest) /\ AtRest.seen = NothingSeen
<1>1. AtRest.wrote \in [{} -> Ids \cup {NoId}] /\ {} \in SUBSET Externals
    BY DEF AtRest
<1>2. AtRest.wrote \in Bindings
    BY <1>1 DEF Bindings
<1>3. AtRest \in VisitRecords
    BY <1>2 DEF AtRest, VisitRecords, Ops, Steps
<1>4. /\ AtRest.op = "none" /\ AtRest.step = "none" /\ AtRest.level = Nobody
      /\ DOMAIN AtRest.wrote = {} /\ AtRest.rows = {} /\ AtRest.seen = NothingSeen
    BY DEF AtRest
<1> QED BY <1>3, <1>4 DEF Place, Reserved, Maker

(* A snapshot of nothing shows nothing.                                    *)
LEMMA NothingWas ==
    ASSUME NothingSeen \in Snapshots
    PROVE  Externals = {} /\ Ids = {}
<1>1. NothingSeen.bound \in [Externals -> Ids \cup {NoId}] /\ NothingSeen.locals \in [Ids -> AclLevels \cup {Nobody}]
    BY DEF Snapshots
<1>2. DOMAIN NothingSeen.bound = {} /\ DOMAIN NothingSeen.locals = {}
    BY DEF NothingSeen
<1> QED BY <1>1, <1>2

(* Whoever rests, and whoever found the setup open, is where nothing can   *)
(* go wrong.                                                               *)
LEMMA IdleIsSound ==
    ASSUME NEW r \in VisitRecords, Place(r.op, r.step), r.step \in {"none", "vacant"},
           DOMAIN r.wrote = {}, r.rows = {}, r.level = Nobody, r.seen = NothingSeen
    PROVE  Sound(r) /\ Reserved(r) = {} /\ ~ Maker(r)
<1>1. Reserved(r) = {} /\ ~ Maker(r)
    BY DEF Reserved, Maker, Place
<1>2. Shape(r)
    BY <1>1 DEF Shape, Place
<1>3. SeenOK(r)
    BY <1>1, NothingWas DEF SeenOK, Was
<1>4. ReservedOK(r) /\ SignInOK(r) /\ AdminOK(r)
    BY <1>1 DEF ReservedOK, SignInOK, AdminOK, Place
<1>5. RowsOK(r)
    BY <1>1 DEF RowsOK
<1> QED BY <1>1, <1>2, <1>3, <1>4, <1>5 DEF Sound

LEMMA TypesOf ==
    ASSUME DirectoryInv, NEW t \in Visitors
    PROVE  /\ visit[t] \in VisitRecords /\ Placed(visit[t]) /\ Sound(visit[t])
           /\ \A q : Puts(t, q) => visit'[t] = q /\ \A u \in Visitors \ {t} : visit'[u] = visit[u]
           /\ \A q \in VisitRecords : Puts(t, q) => visit' \in [Visitors -> VisitRecords]
BY DEF DirectoryInv, VisitsOK, Puts

(* Puts with no request that keeps its place.                              *)
LEMMA OthersKeep ==
    ASSUME NEW r \in VisitRecords, Sound(r), UNCHANGED Setting,
           \A e \in Externals : account[e] # Unborn => account'[e] # Unborn,
           r.op = "create" /\ Maker(r) => account'[r.ext] \in {account[r.ext], Dropped},
           Used \subseteq Used', gone \subseteq gone',
           \A i \in Ids : locals[i] # Nobody => locals'[i] # Nobody \/ i \in gone',
           \A i \in Reserved(r) : i \notin Used' /\ locals'[i] = Nobody,
           \A e \in DOMAIN r.wrote : bound'[e] \in {bound[e], NoId}
    PROVE  Sound(r)'
<1>0. isolation' = isolation /\ backend' = backend
    BY DEF Setting
<1>1. Shape(r)'
    BY <1>0 DEF Sound, Shape, Maker
<1>2. ReservedOK(r)'
    BY DEF Sound, ReservedOK, Reserved
<1>3. SeenOK(r)'
  <2>1. r.seen \in Snapshots => Was(r.seen)'
      BY <1>0 DEF Sound, SeenOK, Was
  <2> QED BY <2>1, <1>0 DEF Sound, SeenOK, Maker
<1>4. SignInOK(r)'
    BY <1>0 DEF Sound, SignInOK
<1>5. RowsOK(r)'
  <2>1. \A e \in DOMAIN r.wrote : bound'[e] # NoId => bound[e] # NoId
      OBVIOUS
  <2>2. r.rows \cup DOMAIN r.wrote \subseteq Externals
      BY DEF VisitRecords, Bindings
  <2>3. Maker(r) => r.ext \in Externals
      BY DEF Sound, Shape
  <2> QED BY <1>0, <2>1, <2>2, <2>3 DEF Sound, RowsOK, Maker
<1>6. AdminOK(r)'
  <2>1. account'[r.ext] \in {account[r.ext], Dropped} => (Exists(r.ext)' => Exists(r.ext) /\ account'[r.ext] = account[r.ext])
      BY DEF Exists
  <2> SUFFICES ASSUME r.op = "create", r.step \in {"binding", "inserting", "resolved", "reading"}
               PROVE  AdminOK(r)'
      BY DEF AdminOK
  <2>2. Maker(r)
      BY DEF Maker
  <2> QED BY <2>1, <2>2 DEF Sound, AdminOK
<1> QED BY <1>1, <1>2, <1>3, <1>4, <1>5, <1>6 DEF Sound

(* A request that goes on and holds no more rows, identifiers and accounts *)
(* than it did stays apart from the others.                                *)
LEMMA Narrower ==
    ASSUME NEW r, NEW q, NEW p, Apart(r, p), DOMAIN q.wrote \subseteq DOMAIN r.wrote,
           Reserved(q) \subseteq Reserved(r), Maker(q) => Maker(r) /\ q.ext = r.ext
    PROVE  Apart(q, p)
BY DEF Apart

LEMMA ApartBothWays == \A r, q : Apart(r, q) <=> Apart(q, r)
BY DEF Apart

(* An administrator without a password.                                    *)
Unsecured(e) == Exists(e) /\ account[e].level = "admin" /\ ~ account[e].password

LEMMA OneVisit ==
    ASSUME DirectoryInv, NEW t \in Visitors, NEW q \in VisitRecords, Puts(t, q), Placed(q), Sound(q)',
           UNCHANGED <<Setting, Database>>, visits' \in 0 .. MaxVisits,
           mishaps \subseteq mishaps', mishaps' \subseteq Externals,
           account' \in [Externals -> Accounts \cup {Unborn, Dropped}],
           \A e \in Externals :
               \/ account'[e] \in {account[e], Dropped}
               \/ account[e] = Unborn /\ account'[e] # Unborn
               \/ Maker(visit[t]) /\ visit[t].ext = e /\ account'[e] # Unborn,
           \A u \in Visitors \ {t} : Apart(q, visit[u]),
           \A e \in Externals : Unsecured(e)' =>
               \/ e \in mishaps'
               \/ q.ext = e /\ q.op = "create"
               \/ Unsecured(e) /\ ~ (visit[t].ext = e /\ visit[t].op = "create")
    PROVE  DirectoryInv'
<1>0. isolation' = isolation /\ backend' = backend /\ bound' = bound /\ locals' = locals /\ gone' = gone
    BY DEF Setting, Database
<1>1. /\ visit' \in [Visitors -> VisitRecords] /\ visit'[t] = q
      /\ \A u \in Visitors \ {t} : visit'[u] = visit[u]
    BY TypesOf
<1>2. \A e \in Externals : account[e] # Unborn => account'[e] # Unborn
    BY ProviderAssumption
<1>3. \A u \in Visitors \ {t} : Sound(visit[u])'
  <2> SUFFICES ASSUME NEW u \in Visitors \ {t} PROVE Sound(visit[u])'
      OBVIOUS
  <2> PICK r \in VisitRecords : r = visit[u]
      BY TypesOf
  <2>1. Sound(r) /\ Placed(r) /\ Apart(visit[t], r)
      BY TypesOf DEF DirectoryInv
  <2>2. Maker(r) => r.ext \in Externals /\ account[r.ext] # Unborn
    <3>1. Maker(r) => backend = "oidc" /\ r.ext \in Externals
        BY <2>1 DEF Sound, Shape, Maker, Placed, DirectoryInv, AccountsTypeOK
    <3> QED BY <2>1, <3>1 DEF Sound, RowsOK
  <2>3. Maker(r) => account'[r.ext] \in {account[r.ext], Dropped}
      BY <2>1, <2>2 DEF Apart
  <2>4. Used' = Used
      BY <1>0 DEF Used
  <2>5. \A i \in Reserved(r) : i \notin Used /\ locals[i] = Nobody
      BY <2>1 DEF Sound, ReservedOK
  <2>6. Sound(r)'
      BY <1>0, <1>2, <2>1, <2>3, <2>4, <2>5, OthersKeep
  <2> QED BY <2>6, <1>1
<1>4. \A u, v \in Visitors : u # v => Apart(visit[u], visit[v])'
  <2> SUFFICES ASSUME NEW u \in Visitors, NEW v \in Visitors, u # v
               PROVE  Apart(visit'[u], visit'[v])
      BY DEF Apart, Reserved, Maker
  <2>1. Apart(visit[u], visit[v])
      BY DEF DirectoryInv
  <2> QED BY <1>1, <2>1, ApartBothWays
<1>5. VisitsOK'
  <2>1. \A u \in Visitors : Placed(visit[u])
      BY TypesOf
  <2> QED BY <1>0, <1>1, <2>1 DEF VisitsOK, Placed
<1>6. AccountsTypeOK'
  <2>1. \A u, v \in Visitors : u # v => DOMAIN visit'[u].wrote \cap DOMAIN visit'[v].wrote = {}
      BY <1>4 DEF Apart
  <2> QED BY <1>0, <2>1 DEF DirectoryInv, AccountsTypeOK
<1>7. SetupAdminsHavePasswords'
  <2> SUFFICES ASSUME NEW e \in Externals, Unsecured(e)', e \notin mishaps'
               PROVE  \E u \in Visitors : visit'[u].ext = e /\ visit'[u].op = "create"
      BY DEF SetupAdminsHavePasswords, Unsecured
  <2>1. CASE q.ext = e /\ q.op = "create"
      BY <1>1, <2>1
  <2>2. CASE Unsecured(e) /\ ~ (visit[t].ext = e /\ visit[t].op = "create")
    <3>1. PICK u \in Visitors : visit[u].ext = e /\ visit[u].op = "create"
        BY <2>2 DEF DirectoryInv, AccountsSound, SetupAdminsHavePasswords, Unsecured
    <3> QED BY <1>1, <2>2, <3>1
  <2> QED BY <2>1, <2>2
<1>8. (LoginsLeadToPeople /\ RemovedStayAway /\ StoresOK)'
    BY <1>0, <1>2 DEF DirectoryInv, AccountsSound, LoginsLeadToPeople, RemovedStayAway, StoresOK
<1>9. \A u \in Visitors : Sound(visit[u])'
    BY <1>1, <1>3
<1> QED BY <1>4, <1>5, <1>6, <1>7, <1>8, <1>9 DEF DirectoryInv, AccountsSound

(* The steps of a request that leave the stores alone.                     *)
LEMMA QuietStep ==
    ASSUME DirectoryInv, NEW t \in Visitors, NEW q \in VisitRecords, Puts(t, q), Placed(q), Sound(q),
           UNCHANGED <<account, mishaps, Setting, Database>>, visits' \in 0 .. MaxVisits,
           \A u \in Visitors \ {t} : Apart(q, visit[u]),
           visit[t].op = "create" => q.op = "create" /\ q.ext = visit[t].ext
    PROVE  DirectoryInv'
<1>0. isolation' = isolation /\ backend' = backend /\ bound' = bound /\ locals' = locals /\ gone' = gone
    BY DEF Setting, Database
<1>1. Used' = Used
    BY <1>0 DEF Used
<1>2. Sound(q)'
    BY <1>0, <1>1, OthersKeep DEF Sound, ReservedOK
<1>3. \A e \in Externals : Unsecured(e)' => Unsecured(e)
    BY DEF Unsecured, Exists
<1>4. \A e \in Externals : Unsecured(e)' =>
               \/ e \in mishaps'
               \/ q.ext = e /\ q.op = "create"
               \/ Unsecured(e) /\ ~ (visit[t].ext = e /\ visit[t].op = "create")
    BY <1>3
<1>5. account \in [Externals -> Accounts \cup {Unborn, Dropped}] /\ mishaps \subseteq Externals
    BY DEF DirectoryInv, AccountsTypeOK
<1> QED BY <1>2, <1>4, <1>5, OneVisit

-----------------------------------------------------------------------------
(* Transactions                                                            *)

(* What a sign-in would make a person of is nobody yet, in the database    *)
(* and in its snapshot.                                                    *)
LEMMA NewcomersAreUnknown ==
    ASSUME DirectoryInv, NEW r \in VisitRecords, Sound(r), Placed(r), r.op = "login", backend = "local",
           r.step \in {"resolved", "provisioning", "provisioned"}, DOMAIN r.wrote # {}
    PROVE  r.id \in Reserved(r) /\ View(r).locals[r.id] = Nobody
<1>1. r.id \in Ids /\ r.id # NoId /\ r.ext \in DOMAIN r.wrote /\ r.wrote[r.ext] = r.id
    BY Names DEF Sound, SignInOK
<1>2. r.id \in Reserved(r)
    BY <1>1 DEF Reserved
<1>3. locals[r.id] = Nobody /\ r.id \notin gone
    BY <1>2 DEF Sound, ReservedOK, Used
<1>4. isolation = "mysql" => r.seen.locals[r.id] = Nobody
    BY <1>1, <1>3 DEF Sound, Shape, SeenOK, Was
<1> QED BY <1>2, <1>3, <1>4 DEF View, Committed

(* The rows of a transaction, when they are committed.                     *)
LEMMA Commitment ==
    ASSUME DirectoryInv, NEW t \in Visitors, NEW q, Commits(t, q),
           NEW r \in VisitRecords, r = visit[t]
    PROVE  /\ bound' \in [Externals -> Ids \cup {NoId}]
           /\ \A e \in Externals : bound'[e] = IF e \in DOMAIN r.wrote THEN r.wrote[e] ELSE bound[e]
           /\ \A e \in Externals : bound'[e] \in Reserved(r) \cup {NoId, bound[e]}
           /\ \A d, e \in Externals : d # e /\ bound'[d] = bound'[e] => bound'[d] = NoId
           /\ gone' \subseteq Ids /\ gone \subseteq gone' /\ Used \subseteq Used'
           /\ Used' \subseteq Used \cup Reserved(r)
           /\ \A e \in Externals : bound'[e] \notin gone'
           /\ (\A e \in Externals : bound'[e] = bound[e] \/ bound[e] = NoId) => gone' = gone
<1>1. /\ bound \in [Externals -> Ids \cup {NoId}] /\ gone \subseteq Ids
      /\ \A d, e \in Externals : d # e /\ bound[d] = bound[e] => bound[d] = NoId
      /\ \A e \in Externals : bound[e] \notin gone
    BY DEF DirectoryInv, AccountsTypeOK, AccountsSound, RemovedStayAway
<1>2. r.wrote \in [DOMAIN r.wrote -> Ids \cup {NoId}] /\ DOMAIN r.wrote \subseteq Externals
    BY DEF VisitRecords, Bindings
<1>3. /\ bound' = [e \in Externals |-> IF e \in DOMAIN r.wrote THEN r.wrote[e] ELSE bound[e]]
      /\ gone' = gone \cup ({bound[e] : e \in Externals} \ ({NoId} \cup {bound'[e] : e \in Externals}))
    BY DEF Commits, Written
<1>4. /\ bound' \in [Externals -> Ids \cup {NoId}]
      /\ \A e \in Externals : bound'[e] = IF e \in DOMAIN r.wrote THEN r.wrote[e] ELSE bound[e]
    BY <1>1, <1>2, <1>3
<1>5. \A e \in Externals : bound'[e] \in Reserved(r) \cup {NoId, bound[e]}
    BY <1>4 DEF Reserved
<1>6. Sound(r)
    BY TypesOf
<1>7. \A d, e \in DOMAIN r.wrote : d # e /\ r.wrote[d] = r.wrote[e] => r.wrote[d] = NoId
    BY <1>6, TypesOf DEF Sound, Shape, Placed, Place
<1>8. \A e \in Externals, i \in Reserved(r) : bound[e] = i => i = NoId
    BY <1>6 DEF Sound, ReservedOK, Used
<1>9. \A d, e \in Externals : d # e /\ bound'[d] = bound'[e] => bound'[d] = NoId
  <2> SUFFICES ASSUME NEW d \in Externals, NEW e \in Externals, d # e, bound'[d] = bound'[e], bound'[d] # NoId
               PROVE  FALSE
      OBVIOUS
  <2>1. CASE d \in DOMAIN r.wrote /\ e \in DOMAIN r.wrote
      BY <1>4, <1>7, <2>1
  <2>2. CASE d \in DOMAIN r.wrote /\ e \notin DOMAIN r.wrote
    <3>1. r.wrote[d] \in Reserved(r)
        BY <1>4, <2>2 DEF Reserved
    <3> QED BY <1>4, <1>8, <2>2, <3>1
  <2>3. CASE d \notin DOMAIN r.wrote /\ e \in DOMAIN r.wrote
    <3>1. r.wrote[e] \in Reserved(r)
        BY <1>4, <2>3 DEF Reserved
    <3> QED BY <1>4, <1>8, <2>3, <3>1
  <2>4. CASE d \notin DOMAIN r.wrote /\ e \notin DOMAIN r.wrote
      BY <1>1, <1>4, <2>4
  <2> QED BY <2>1, <2>2, <2>3, <2>4
<1>10. gone' \subseteq Ids /\ gone \subseteq gone'
    BY <1>1, <1>3
<1>11. Used \subseteq Used'
  <2> SUFFICES ASSUME NEW i \in Used PROVE i \in gone' \/ i \in {bound'[e] : e \in Externals} \ {NoId}
      BY DEF Used
  <2>1. CASE i \in gone
      BY <1>10, <2>1
  <2>2. CASE i \in {bound[e] : e \in Externals} \ {NoId}
      BY <1>3, <2>2
  <2> QED BY <2>1, <2>2 DEF Used
<1>12. Used' \subseteq Used \cup Reserved(r)
  <2> SUFFICES ASSUME NEW i \in Used' PROVE i \in Used \cup Reserved(r)
      OBVIOUS
  <2>1. i \in gone' \/ \E e \in Externals : i = bound'[e] /\ i # NoId
      BY DEF Used
  <2>2. CASE i \in gone'
      BY <1>3, <2>2 DEF Used
  <2>3. CASE \E e \in Externals : i = bound'[e] /\ i # NoId
      BY <1>5, <2>3 DEF Used
  <2> QED BY <2>1, <2>2, <2>3
<1>13. \A e \in Externals : bound'[e] \notin gone'
  <2> SUFFICES ASSUME NEW e \in Externals, bound'[e] \in gone' PROVE FALSE
      OBVIOUS
  <2>1. bound'[e] \in gone /\ bound'[e] \in Ids
      BY <1>3, <1>10
  <2>2. bound'[e] # bound[e] /\ bound'[e] # NoId
      BY <1>1, <2>1, Names
  <2>3. bound'[e] \in Reserved(r)
      BY <1>5, <2>2
  <2> QED BY <1>6, <2>1, <2>3 DEF Sound, ReservedOK, Used
<1>14. (\A e \in Externals : bound'[e] = bound[e] \/ bound[e] = NoId) => gone' = gone
    BY <1>3
<1> QED BY <1>4, <1>5, <1>9, <1>10, <1>11, <1>12, <1>13, <1>14

LEMMA CommitStep ==
    ASSUME DirectoryInv, NEW t \in Visitors, NEW q \in VisitRecords, Commits(t, q),
           NEW r \in VisitRecords, r = visit[t],
           Placed(q), q.step \in {"none", "vacant"}, DOMAIN q.wrote = {}, q.rows = {},
           q.level = Nobody, q.seen = NothingSeen,
           UNCHANGED <<account, mishaps, Setting, visits>>,
           r.op = "create" => r.step = "reading",
           r.op = "login" => \/ r.step = "resolved" /\ IsKnown(r)
                             \/ r.step = "provisioned" /\ locals[r.id] = Nobody
    PROVE  DirectoryInv'
<1>0. isolation' = isolation /\ backend' = backend /\ account' = account /\ mishaps' = mishaps
    BY DEF Setting
<1>1. Sound(r) /\ Placed(r)
    BY TypesOf
<1>2. /\ visit' \in [Visitors -> VisitRecords] /\ visit'[t] = q
      /\ \A u \in Visitors \ {t} : visit'[u] = visit[u]
    BY TypesOf DEF Commits
<1>3. locals' = IF r.level = Nobody THEN locals ELSE [locals EXCEPT ![r.id] = r.level]
    BY DEF Commits
<1>4. r.level # Nobody => /\ r.step = "provisioned" /\ r.op = "login" /\ backend = "local"
                          /\ r.id \in Ids /\ locals[r.id] = Nobody /\ r.id \in Used \cup Reserved(r)
  <2> SUFFICES ASSUME r.level # Nobody
               PROVE  /\ r.step = "provisioned" /\ r.op = "login" /\ backend = "local"
                      /\ r.id \in Ids /\ locals[r.id] = Nobody /\ r.id \in Used \cup Reserved(r)
      OBVIOUS
  <2>1. r.step = "provisioned"
      BY <1>1 DEF Sound, Shape
  <2>2. r.op = "login" /\ backend = "local"
      BY <1>1, <2>1 DEF Placed, Place, DirectoryInv, AccountsTypeOK
  <2>3. r.id \in Ids /\ locals[r.id] = Nobody
      BY <1>1, <2>1, <2>2 DEF Sound, SignInOK
  <2>4. r.id \in Used \cup Reserved(r)
      BY <1>1, <2>1, <2>2, NewcomersAreUnknown DEF Sound, SignInOK
  <2> QED BY <2>1, <2>2, <2>3, <2>4
<1>5. locals \in [Ids -> AclLevels \cup {Nobody}] /\ r.level \in AclLevels \cup {Nobody}
    BY DEF DirectoryInv, AccountsTypeOK, VisitRecords
<1>6. /\ locals' \in [Ids -> AclLevels \cup {Nobody}]
      /\ \A i \in Ids : locals'[i] = locals[i] \/ (r.level # Nobody /\ i = r.id /\ locals'[i] = r.level)
    BY <1>3, <1>4, <1>5
<1>7. \A i \in Ids : locals[i] # Nobody => locals'[i] # Nobody
    BY <1>6
<1>8. \A u \in Visitors \ {t} : Sound(visit[u])'
  <2> SUFFICES ASSUME NEW u \in Visitors \ {t} PROVE Sound(visit[u])'
      OBVIOUS
  <2> PICK p \in VisitRecords : p = visit[u]
      BY TypesOf
  <2>1. Sound(p) /\ Apart(r, p)
      BY TypesOf DEF DirectoryInv
  <2>2. \A i \in Reserved(p) : i \notin Used /\ i \notin Reserved(r) /\ locals[i] = Nobody
      BY <2>1 DEF Sound, ReservedOK, Apart
  <2>3. \A i \in Reserved(p) : i \notin Used' /\ locals'[i] = Nobody
    <3>1. Reserved(p) \subseteq Ids
        BY <2>1 DEF Sound, Shape, Reserved, VisitRecords, Bindings
    <3> QED BY <1>4, <1>6, <2>2, <3>1, Commitment
  <2>4. \A e \in DOMAIN p.wrote : bound'[e] = bound[e]
    <3>1. DOMAIN p.wrote \subseteq Externals /\ DOMAIN p.wrote \cap DOMAIN r.wrote = {}
        BY <2>1 DEF Apart, VisitRecords, Bindings
    <3> QED BY <3>1, Commitment
  <2>5. Used \subseteq Used' /\ gone \subseteq gone'
      BY Commitment
  <2>6. Sound(p)'
      BY <1>0, <1>7, <2>1, <2>3, <2>4, <2>5, OthersKeep
  <2> QED BY <2>6, <1>2
<1>9. Sound(q)' /\ Reserved(q) = {} /\ ~ Maker(q)
  <2>1. Sound(q) /\ Reserved(q) = {} /\ ~ Maker(q)
      BY IdleIsSound DEF Placed
  <2>2. Used \subseteq Used' /\ gone \subseteq gone'
      BY Commitment
  <2>3. q.op # "create"
      BY DEF Placed, Place
  <2> QED BY <1>0, <1>7, <2>1, <2>2, <2>3, OthersKeep
<1>10. \A u \in Visitors : Sound(visit[u])'
    BY <1>2, <1>8, <1>9
<1>11. \A u, v \in Visitors : u # v => Apart(visit[u], visit[v])'
  <2> SUFFICES ASSUME NEW u \in Visitors, NEW v \in Visitors, u # v
               PROVE  Apart(visit'[u], visit'[v])
      BY DEF Apart, Reserved, Maker
  <2>1. Apart(visit[u], visit[v])
      BY DEF DirectoryInv
  <2>2. \A p : Apart(q, p)
      BY <1>9 DEF Apart
  <2> QED BY <1>2, <2>1, <2>2, ApartBothWays
<1>12. VisitsOK'
  <2>1. \A u \in Visitors : Placed(visit[u])
      BY TypesOf
  <2> QED BY <1>0, <1>2, <2>1 DEF VisitsOK, Placed
<1>13. AccountsTypeOK'
  <2>1. \A u, v \in Visitors : u # v => DOMAIN visit'[u].wrote \cap DOMAIN visit'[v].wrote = {}
      BY <1>11 DEF Apart
  <2>2. /\ bound' \in [Externals -> Ids \cup {NoId}] /\ gone' \subseteq Ids
        /\ \A d, e \in Externals : d # e /\ bound'[d] = bound'[e] => bound'[d] = NoId
      BY Commitment
  <2> QED BY <1>0, <1>6, <2>1, <2>2 DEF DirectoryInv, AccountsTypeOK
<1>14. SetupAdminsHavePasswords'
  <2> SUFFICES ASSUME NEW e \in Externals, Unsecured(e)', e \notin mishaps'
               PROVE  \E u \in Visitors : visit'[u].ext = e /\ visit'[u].op = "create"
      BY DEF SetupAdminsHavePasswords, Unsecured
  <2>1. Unsecured(e)
      BY <1>0 DEF Unsecured, Exists
  <2>2. PICK u \in Visitors : visit[u].ext = e /\ visit[u].op = "create"
      BY <1>0, <2>1 DEF DirectoryInv, AccountsSound, SetupAdminsHavePasswords, Unsecured
  <2>3. u # t
      BY <1>1, <2>1, <2>2 DEF Sound, AdminOK, Unsecured
  <2> QED BY <1>2, <2>2, <2>3
<1>15. StoresOK'
  <2> SUFFICES ASSUME backend = "oidc"
               PROVE  /\ \A i \in Ids : locals'[i] = Nobody
                      /\ \A e \in Externals : bound'[e] # NoId => account[e] # Unborn
      BY <1>0 DEF StoresOK
  <2>1. \A i \in Ids : locals'[i] = Nobody
      BY <1>4, <1>6 DEF DirectoryInv, StoresOK
  <2>2. \A e \in Externals : bound'[e] # NoId => account[e] # Unborn
      BY <1>1, Commitment DEF DirectoryInv, StoresOK, Sound, RowsOK
  <2> QED BY <2>1, <2>2
<1>16. backend = "local" => gone' = gone
  <2> SUFFICES ASSUME backend = "local", NEW e \in Externals, bound[e] # NoId PROVE bound'[e] = bound[e]
      BY Commitment
  <2>1. CASE e \notin DOMAIN r.wrote
      BY <2>1, Commitment
  <2>2. CASE e \in DOMAIN r.wrote
    <3>1. r.op \in {"none", "login"}
        BY <1>1 DEF Placed
    <3>2. r.wrote[e] # NoId
        BY <1>1, <2>2, <3>1 DEF Sound, Shape, Placed, Place
    <3> QED BY <1>1, <2>2, <3>1, <3>2 DEF Sound, RowsOK
  <2> QED BY <2>1, <2>2
<1>17. RemovedStayAway'
  <2>1. \A e \in Externals : bound'[e] \notin gone'
      BY Commitment
  <2>2. ASSUME isolation = "mysql", NEW i \in gone' PROVE locals'[i] = Nobody
    <3>1. i \in Ids
        BY Commitment
    <3>2. CASE backend = "oidc"
        BY <1>0, <1>15, <3>1, <3>2 DEF StoresOK
    <3>3. CASE backend = "local"
      <4>1. i \in gone /\ locals[i] = Nobody
          BY <1>16, <2>2, <3>3 DEF DirectoryInv, AccountsSound, RemovedStayAway
      <4>2. r.level # Nobody => DOMAIN r.wrote # {}
          BY <1>1, <1>4, <2>2 DEF Sound, SignInOK
      <4>3. r.level # Nobody => r.id \notin gone
          BY <1>1, <1>4, <4>2, <3>3, NewcomersAreUnknown DEF Sound, ReservedOK, Used
      <4> QED BY <1>6, <3>1, <4>1, <4>3
    <3> QED BY <3>2, <3>3 DEF DirectoryInv, AccountsTypeOK
  <2> QED BY <1>0, <2>1, <2>2 DEF RemovedStayAway
<1>18. LoginsLeadToPeople'
  <2> SUFFICES ASSUME backend = "local", NEW e \in Externals, bound'[e] # NoId
               PROVE  locals'[bound'[e]] # Nobody
      BY <1>0 DEF LoginsLeadToPeople
  <2>0. bound'[e] \in Ids
      BY Commitment
  <2>1. CASE e \notin DOMAIN r.wrote
    <3>1. bound'[e] = bound[e]
        BY <2>1, Commitment
    <3>2. locals[bound'[e]] # Nobody
        BY <3>1 DEF DirectoryInv, AccountsSound, LoginsLeadToPeople
    <3> QED BY <1>7, <2>0, <3>2
  <2>2. CASE e \in DOMAIN r.wrote
    <3>1. r.op = "login"
        BY <1>1, <2>2 DEF Placed, Place, Sound, Shape
    <3>2. DOMAIN r.wrote = {r.ext} /\ r.wrote[r.ext] = r.id /\ bound'[e] = r.id
        BY <1>1, <2>2, <3>1, Commitment DEF Sound, SignInOK
    <3>3. View(r).locals[r.id] = Nobody
        BY <1>1, <2>2, <3>1, NewcomersAreUnknown
    <3>4. r.step = "provisioned"
        BY <3>1, <3>3 DEF IsKnown
    <3>5. r.level # Nobody
        BY <1>1, <3>4 DEF Sound, Shape
    <3> QED BY <1>3, <1>4, <1>5, <3>2, <3>5
  <2> QED BY <2>1, <2>2
<1> QED BY <1>10, <1>11, <1>12, <1>13, <1>14, <1>15, <1>17, <1>18 DEF DirectoryInv, AccountsSound

(* A request that gives up.                                                *)
LEMMA RollBackStep ==
    ASSUME DirectoryInv, NEW t \in Visitors, RollsBack(t), UNCHANGED <<Setting, visits>>,
           mishaps \subseteq mishaps', mishaps' \subseteq Externals,
           account' \in [Externals -> Accounts \cup {Unborn, Dropped}],
           \A e \in Externals :
               \/ account'[e] \in {account[e], Dropped}
               \/ account[e] = Unborn /\ account'[e] # Unborn
               \/ Maker(visit[t]) /\ visit[t].ext = e /\ account'[e] # Unborn,
           \A e \in Externals : Unsecured(e)' =>
               \/ e \in mishaps'
               \/ Unsecured(e) /\ ~ (visit[t].ext = e /\ visit[t].op = "create")
    PROVE  DirectoryInv'
<1> PICK q \in VisitRecords : q = AtRest
    BY RestIsSound
<1>1. Puts(t, q) /\ UNCHANGED Database /\ visits' \in 0 .. MaxVisits
    BY DEF RollsBack, Database, DirectoryInv, AccountsTypeOK
<1>2. Placed(q) /\ q.step = "none" /\ q.op = "none"
    BY RestIsSound DEF Placed
<1>3. Sound(q)' /\ Reserved(q) = {} /\ ~ Maker(q) /\ DOMAIN q.wrote = {}
  <2>1. Sound(q) /\ Reserved(q) = {} /\ ~ Maker(q) /\ DOMAIN q.wrote = {}
      BY IdleIsSound, RestIsSound DEF Placed
  <2>2. bound' = bound /\ locals' = locals /\ gone' = gone
      BY <1>1 DEF Database
  <2>3. Used' = Used
      BY <2>2 DEF Used
  <2>4. \A e \in Externals : account[e] # Unborn => account'[e] # Unborn
      BY ProviderAssumption
  <2> QED BY <1>2, <2>1, <2>2, <2>3, <2>4, OthersKeep
<1>4. \A u \in Visitors \ {t} : Apart(q, visit[u])
    BY <1>3 DEF Apart
<1>5. \A e \in Externals : Unsecured(e)' =>
               \/ e \in mishaps'
               \/ q.ext = e /\ q.op = "create"
               \/ Unsecured(e) /\ ~ (visit[t].ext = e /\ visit[t].op = "create")
    OBVIOUS
<1> QED BY <1>1, <1>2, <1>3, <1>4, <1>5, OneVisit

LEMMA PlainRollBack ==
    ASSUME DirectoryInv, NEW t \in Visitors, RollsBack(t), UNCHANGED <<Setting, visits, account>>,
           mishaps \subseteq mishaps', mishaps' \subseteq Externals,
           visit[t].op = "create" =>
               visit[t].ext \in mishaps' \/ ~ (visit[t].ext \in Externals /\ Unsecured(visit[t].ext))
    PROVE  DirectoryInv'
<1>1. \A e \in Externals : Unsecured(e)' => Unsecured(e)
    BY DEF Unsecured, Exists
<1>2. account \in [Externals -> Accounts \cup {Unborn, Dropped}]
    BY DEF DirectoryInv, AccountsTypeOK
<1>3. \A e \in Externals : Unsecured(e)' =>
               \/ e \in mishaps'
               \/ Unsecured(e) /\ ~ (visit[t].ext = e /\ visit[t].op = "create")
  <2> SUFFICES ASSUME NEW e \in Externals, Unsecured(e)', visit[t].ext = e, visit[t].op = "create"
               PROVE  e \in mishaps'
      BY <1>1
  <2>1. Unsecured(visit[t].ext)
      BY <1>1 DEF Unsecured, Exists
  <2> QED BY <2>1
<1> QED BY <1>2, <1>3, RollBackStep

-----------------------------------------------------------------------------
(* Requests                                                                *)

LEMMA DirectoryInvInit == AccountsInit => DirectoryInv
<1> SUFFICES ASSUME AccountsInit PROVE DirectoryInv
    OBVIOUS
<1>1. /\ account = [e \in Externals |-> Unborn] /\ bound = [e \in Externals |-> NoId]
      /\ locals = [i \in Ids |-> Nobody] /\ visit = [t \in Visitors |-> AtRest]
      /\ visits = 0 /\ gone = {} /\ mishaps = {}
      /\ backend \in {"oidc", "local"} /\ isolation \in {"mysql", "postgres"}
    BY DEF AccountsInit
<1>2. Placed(AtRest) /\ Sound(AtRest) /\ Reserved(AtRest) = {} /\ ~ Maker(AtRest)
    BY RestIsSound, IdleIsSound DEF Placed
<1>3. VisitsOK
    BY <1>1, <1>2, RestIsSound DEF VisitsOK
<1>4. \A t, u \in Visitors : t # u => Apart(visit[t], visit[u])
    BY <1>1, <1>2, RestIsSound DEF Apart
<1>5. AccountsTypeOK
    BY <1>1, RestIsSound, ProviderAssumption DEF AccountsTypeOK
<1>6. AccountsSound /\ StoresOK
    BY <1>1 DEF AccountsSound, SetupAdminsHavePasswords, LoginsLeadToPeople, RemovedStayAway, StoresOK, Exists
<1> QED BY <1>1, <1>2, <1>3, <1>4, <1>5, <1>6 DEF DirectoryInv

(* A request that begins holds nothing yet.                                *)
LEMMA BeginStep ==
    ASSUME DirectoryInv, NEW t \in Visitors, NEW q \in VisitRecords, Begins(t, q), Placed(q), Sound(q),
           DOMAIN q.wrote = {}, Reserved(q) = {}, ~ Maker(q),
           UNCHANGED <<account, mishaps, Database, Setting>>
    PROVE  DirectoryInv'
<1>1. Puts(t, q) /\ visits' \in 0 .. MaxVisits /\ visit[t] = AtRest
    BY ProviderAssumption DEF Begins, DirectoryInv, AccountsTypeOK
<1>2. \A u \in Visitors \ {t} : Apart(q, visit[u])
    BY DEF Apart
<1>3. visit[t].op # "create"
    BY <1>1, RestIsSound
<1> QED BY <1>1, <1>2, <1>3, QuietStep

LEMMA StartListStep ==
    ASSUME DirectoryInv, NEW t \in Visitors, NEW op \in {"list", "setup"}, StartList(t, op)
    PROVE  DirectoryInv'
<1> DEFINE rows == {e \in Externals : Exists(e)}
           claim == IF InitialAdminExists THEN "admin" ELSE Nobody
           s == [AtRest EXCEPT !.op = op, !.step = "lookup", !.rows = rows, !.claim = claim]
<1>1. /\ s \in VisitRecords /\ s.op = op /\ s.step = "lookup" /\ s.rows = rows /\ s.wrote = AtRest.wrote
      /\ s.level = Nobody /\ s.seen = NothingSeen
  <2>1. rows \in SUBSET Externals /\ claim \in AclLevels \cup {Nobody}
      BY DEF AclLevels
  <2> HIDE DEF rows, claim
  <2> QED BY <2>1, RestIsSound DEF VisitRecords, Ops, Steps
<1> PICK q \in VisitRecords : q = s
    BY <1>1
<1>2. Begins(t, q) /\ backend = "oidc" /\ UNCHANGED <<account, mishaps, Database, Setting>>
    BY DEF StartList
<1> HIDE DEF s
<1>3. Placed(q)
    BY <1>1, <1>2 DEF Placed, Place
<1>4. DOMAIN q.wrote = {} /\ Reserved(q) = {} /\ ~ Maker(q)
    BY <1>1, RestIsSound DEF Reserved, Maker
<1>5. Sound(q)
  <2>1. Shape(q) /\ ReservedOK(q) /\ SignInOK(q) /\ AdminOK(q)
      BY <1>1, <1>4 DEF Shape, ReservedOK, SignInOK, AdminOK
  <2>2. SeenOK(q)
      BY <1>1, <1>4, NothingWas DEF SeenOK, Was
  <2>3. RowsOK(q)
      BY <1>1, <1>4 DEF RowsOK, Exists
  <2> QED BY <2>1, <2>2, <2>3 DEF Sound
<1> QED BY <1>2, <1>3, <1>4, <1>5, BeginStep

LEMMA StartLoginStep ==
    ASSUME DirectoryInv, NEW t \in Visitors, NEW e \in Externals, NEW claim \in AclLevels \cup {Nobody},
           StartLogin(t, e, claim)
    PROVE  DirectoryInv'
<1> DEFINE s == [AtRest EXCEPT !.op = "login", !.step = "lookup", !.ext = e, !.rows = {e}, !.claim = claim]
<1>1. /\ s \in VisitRecords /\ s.op = "login" /\ s.step = "lookup" /\ s.rows = {e} /\ s.ext = e
      /\ s.wrote = AtRest.wrote /\ s.level = Nobody /\ s.seen = NothingSeen
    BY RestIsSound DEF VisitRecords, Ops, Steps
<1> PICK q \in VisitRecords : q = s
    BY <1>1
<1>2. /\ Begins(t, q) /\ UNCHANGED <<account, mishaps, Database, Setting>>
      /\ backend = "oidc" => Exists(e)
    BY DEF StartLogin
<1> HIDE DEF s
<1>3. Placed(q)
    BY <1>1, <1>2 DEF Placed, Place
<1>4. DOMAIN q.wrote = {} /\ Reserved(q) = {} /\ ~ Maker(q)
    BY <1>1, RestIsSound DEF Reserved, Maker
<1>5. Sound(q)
  <2>1. Shape(q) /\ ReservedOK(q) /\ SignInOK(q) /\ AdminOK(q)
      BY <1>1, <1>4 DEF Shape, ReservedOK, SignInOK, AdminOK
  <2>2. SeenOK(q)
      BY <1>1, <1>4, NothingWas DEF SeenOK, Was
  <2>3. RowsOK(q)
      BY <1>1, <1>2, <1>4 DEF RowsOK, Exists
  <2> QED BY <2>1, <2>2, <2>3 DEF Sound
<1> QED BY <1>2, <1>3, <1>4, <1>5, BeginStep

(* What a request sees first is what is committed.                         *)
LEMMA SeeingIsSound ==
    ASSUME DirectoryInv, NEW r \in VisitRecords
    PROVE  /\ Seeing(r) \in VisitRecords
           /\ \A f \in {"op", "step", "ext", "id", "rows", "wrote", "level", "claim"} : Seeing(r)[f] = r[f]
           /\ View(Seeing(r)) = Committed /\ Committed.bound = bound /\ Committed.locals = locals
           /\ Seeing(r).seen \in Snapshots => Was(Seeing(r).seen)
           /\ isolation = "mysql" => Seeing(r).seen = Committed /\ Seeing(r).seen \in Snapshots
<1> DEFINE s == IF isolation = "mysql" THEN Committed ELSE NothingSeen
<1>1. Committed \in Snapshots /\ Committed.bound = bound /\ Committed.locals = locals
    BY DEF DirectoryInv, AccountsTypeOK, Committed, Snapshots
<1>2. s \in Snapshots \cup {NothingSeen}
    BY <1>1
<1>3. Seeing(r) = [r EXCEPT !.seen = s]
    BY DEF Seeing
<1>4. s \in Snapshots => Was(s)
  <2>1. Was(Committed)
      BY <1>1 DEF Was, DirectoryInv, AccountsSound, LoginsLeadToPeople, StoresOK, Used
  <2>2. NothingSeen \in Snapshots => Was(NothingSeen)
      BY NothingWas DEF Was
  <2> QED BY <2>1, <2>2
<1>5. Seeing(r) \in VisitRecords /\ Seeing(r).seen = s
      /\ \A f \in {"op", "step", "ext", "id", "rows", "wrote", "level", "claim"} : Seeing(r)[f] = r[f]
  <2> HIDE DEF s
  <2> QED BY <1>2, <1>3 DEF VisitRecords
<1>6. View(Seeing(r)) = Committed
    BY <1>5 DEF View
<1> QED BY <1>1, <1>4, <1>5, <1>6

LEMMA FreshAreFree ==
    ASSUME DirectoryInv
    PROVE  /\ FreshIds \subseteq Ids
           /\ \A i \in FreshIds : i \notin Used /\ locals[i] = Nobody
           /\ \A i \in FreshIds, t \in Visitors : i \notin Reserved(visit[t])
<1>1. FreshIds \subseteq Ids
    BY DEF FreshIds
<1>2. ASSUME NEW i \in FreshIds PROVE i \notin Used /\ locals[i] = Nobody
    BY <1>1, <1>2 DEF FreshIds, Taken, Used
<1>3. ASSUME NEW i \in FreshIds, NEW t \in Visitors PROVE i \notin Reserved(visit[t])
  <2>1. i # visit[t].id /\ i \notin {visit[t].wrote[e] : e \in DOMAIN visit[t].wrote}
      BY <1>3 DEF FreshIds, Taken
  <2> QED BY <2>1 DEF Reserved
<1> QED BY <1>1, <1>2, <1>3

(* The identifier of a person about to be added.                           *)
LEMMA CreatesIsSound ==
    ASSUME DirectoryInv, FreshIds # {}, NEW op \in {"add", "create"}, NEW t \in Visitors, backend = "oidc"
    PROVE  \E q \in VisitRecords :
              /\ q = Creates(AtRest, op) /\ q.op = op /\ Placed(q) /\ Sound(q) /\ ~ Maker(q)
              /\ \A u \in Visitors \ {t} : Apart(q, visit[u])
              /\ q.ext = Unborn
<1> DEFINE c == Seeing(AtRest)
<1> PICK id \in FreshIds : id = CHOOSE i \in FreshIds : TRUE
    OBVIOUS
<1>1. /\ c \in VisitRecords /\ c.ext = Unborn /\ c.rows = {} /\ DOMAIN c.wrote = {} /\ c.level = Nobody
      /\ c.seen \in Snapshots => Was(c.seen)
      /\ isolation = "mysql" => c.seen \in Snapshots
    BY SeeingIsSound, RestIsSound DEF AtRest
<1>2. Creates(AtRest, op) = [c EXCEPT !.op = op, !.step = "posting", !.id = id]
    BY DEF Creates
<1>3. id \in Ids
    BY FreshAreFree
<1> PICK r \in VisitRecords : r = c
    BY <1>1
<1> HIDE DEF c
<1> DEFINE s == [r EXCEPT !.op = op, !.step = "posting", !.id = id]
<1>4. /\ s \in VisitRecords /\ s.op = op /\ s.step = "posting" /\ s.id = id
      /\ s.ext = r.ext /\ s.rows = r.rows /\ s.wrote = r.wrote /\ s.level = r.level /\ s.seen = r.seen
    BY <1>3 DEF VisitRecords, Ops, Steps
<1> PICK q \in VisitRecords : q = s
    BY <1>4
<1> HIDE DEF s
<1>5. ~ Maker(q) /\ Placed(q) /\ Reserved(q) = {id}
    BY <1>1, <1>4 DEF Maker, Placed, Place, Reserved
<1>6. \A u \in Visitors \ {t} : Apart(q, visit[u])
    BY <1>1, <1>4, <1>5, FreshAreFree DEF Apart
<1>7. Sound(q)
  <2>1. Shape(q) /\ SignInOK(q) /\ AdminOK(q)
      BY <1>1, <1>3, <1>4, <1>5 DEF Shape, SignInOK, AdminOK
  <2>2. ReservedOK(q)
      BY <1>5, FreshAreFree DEF ReservedOK
  <2>3. SeenOK(q)
      BY <1>1, <1>4, <1>5 DEF SeenOK
  <2>4. RowsOK(q)
      BY <1>1, <1>4, <1>5 DEF RowsOK
  <2> QED BY <2>1, <2>2, <2>3, <2>4 DEF Sound
<1>8. q = Creates(AtRest, op)
    BY <1>2 DEF s
<1> QED BY <1>1, <1>4, <1>5, <1>6, <1>7, <1>8

LEMMA StartAddStep ==
    ASSUME DirectoryInv, NEW t \in Visitors, StartAdd(t)
    PROVE  DirectoryInv'
<1>1. backend = "oidc" /\ FreshIds # {}
    BY DEF StartAdd
<1> PICK q \in VisitRecords :
              /\ q = Creates(AtRest, "add") /\ q.op = "add" /\ Placed(q) /\ Sound(q) /\ ~ Maker(q)
              /\ \A u \in Visitors \ {t} : Apart(q, visit[u])
    BY <1>1, CreatesIsSound
<1>2. Begins(t, q) /\ UNCHANGED <<account, mishaps, Database, Setting>>
    BY DEF StartAdd
<1>3. Puts(t, q) /\ visits' \in 0 .. MaxVisits /\ visit[t] = AtRest
    BY <1>2, ProviderAssumption DEF Begins, DirectoryInv, AccountsTypeOK
<1>4. visit[t].op # "create"
    BY <1>3, RestIsSound
<1> QED BY <1>2, <1>3, <1>4, QuietStep

LEMMA CreateInitialOidcAdminStep ==
    ASSUME DirectoryInv, NEW t \in Visitors, CreateInitialOidcAdmin(t)
    PROVE  DirectoryInv'
<1>1. visit[t].step = "vacant" /\ FreshIds # {}
    BY DEF CreateInitialOidcAdmin, Step
<1>2. backend = "oidc" /\ visit[t].op = "setup"
    BY <1>1, TypesOf DEF Placed, Place, DirectoryInv, AccountsTypeOK
<1> PICK q \in VisitRecords :
              /\ q = Creates(AtRest, "create") /\ Placed(q) /\ Sound(q) /\ ~ Maker(q)
              /\ \A u \in Visitors \ {t} : Apart(q, visit[u])
    BY <1>1, <1>2, CreatesIsSound
<1>3. Puts(t, q) /\ UNCHANGED <<account, mishaps, Database, Setting, visits>>
    BY DEF CreateInitialOidcAdmin, Frame
<1>4. visits' \in 0 .. MaxVisits
    BY <1>3 DEF DirectoryInv, AccountsTypeOK
<1> QED BY <1>2, <1>3, <1>4, QuietStep

-----------------------------------------------------------------------------
(* Bindings                                                                *)

LEMMA LookupStep ==
    ASSUME DirectoryInv, NEW t \in Visitors, Lookup(t)
    PROVE  DirectoryInv'
<1> PICK r \in VisitRecords : r = visit[t] /\ Sound(r) /\ Placed(r)
    BY TypesOf
<1> DEFINE c0 == Seeing(r)
<1>1. r.step = "lookup" /\ r.op \in {"list", "setup", "login"}
    BY DEF Lookup, Step, Placed, Place
<1>2. /\ c0 \in VisitRecords /\ c0.op = r.op /\ c0.ext = r.ext /\ c0.id = r.id /\ c0.rows = r.rows
      /\ c0.wrote = r.wrote /\ c0.level = r.level
      /\ View(c0).bound = bound
      /\ c0.seen \in Snapshots => Was(c0.seen)
      /\ isolation = "mysql" => c0.seen \in Snapshots /\ c0.seen.bound = bound
    BY SeeingIsSound
<1> PICK c \in VisitRecords : c = c0
    BY <1>2
<1> DEFINE missing == {e \in r.rows : bound[e] = NoId}
           id == IF r.op = "login" THEN bound[r.ext] ELSE r.id
           step == IF missing = {} THEN "resolved" ELSE "inserting"
           s == [c EXCEPT !.rows = missing, !.id = id, !.step = step]
<1>3. Puts(t, s) /\ UNCHANGED <<account, mishaps, Database, Setting, visits>>
    BY <1>2 DEF Lookup, Missing, Frame
<1>4. r.op = "login" => r.ext \in Externals /\ r.rows = {r.ext}
    BY <1>1 DEF Sound, Shape
<1>5. missing \subseteq Externals /\ missing \subseteq r.rows /\ id \in Ids \cup {NoId} /\ step \in {"resolved", "inserting"}
    BY <1>4 DEF VisitRecords, DirectoryInv, AccountsTypeOK
<1>6. r.op = "login" => IF step = "inserting" THEN missing = {r.ext}
                        ELSE id = bound[r.ext] /\ id # NoId
    BY <1>4
<1> HIDE DEF c0, missing, id, step
<1>7. /\ s \in VisitRecords /\ s.op = r.op /\ s.step = step /\ s.ext = r.ext /\ s.id = id
      /\ s.rows = missing /\ s.wrote = r.wrote /\ s.level = r.level /\ s.seen = c.seen
    BY <1>2, <1>5 DEF VisitRecords, Steps
<1> PICK q \in VisitRecords : q = s
    BY <1>7
<1> HIDE DEF s
<1>8. DOMAIN r.wrote = {} /\ r.level = Nobody
    BY <1>1 DEF Sound, Shape
<1>9. ~ Maker(q) /\ Reserved(q) = {} /\ Placed(q)
    BY <1>1, <1>5, <1>7, <1>8 DEF Maker, Reserved, Placed, Place
<1>10. Sound(q)
  <2>1. Shape(q)
      BY <1>1, <1>2, <1>4, <1>5, <1>6, <1>7, <1>8, <1>9 DEF Shape
  <2>2. ReservedOK(q) /\ AdminOK(q)
      BY <1>1, <1>7, <1>9 DEF ReservedOK, AdminOK
  <2>3. SeenOK(q)
      BY <1>2, <1>7, <1>9 DEF SeenOK
  <2>4. SignInOK(q)
      BY <1>2, <1>4, <1>5, <1>6, <1>7, <1>8 DEF SignInOK, Used
  <2>5. RowsOK(q)
      BY <1>5, <1>7, <1>8, <1>9 DEF Sound, RowsOK
  <2> QED BY <2>1, <2>2, <2>3, <2>4, <2>5 DEF Sound
<1>11. \A u \in Visitors \ {t} : Apart(q, visit[u])
    BY <1>7, <1>8, <1>9 DEF Apart
<1>12. visits' \in 0 .. MaxVisits
    BY <1>3 DEF DirectoryInv, AccountsTypeOK
<1> QED BY <1>1, <1>3, <1>9, <1>10, <1>11, <1>12, QuietStep

(* There are enough fresh identifiers for the rows.                        *)
LEMMA NewRows ==
    ASSUME DirectoryInv, NEW r \in VisitRecords, r.op \notin {"add", "create"},
           Cardinality(FreshIds) >= Cardinality(r.rows)
    PROVE  /\ NewBindings(r) \in [r.rows -> FreshIds]
           /\ \A d, e \in r.rows : d # e => NewBindings(r)[d] # NewBindings(r)[e]
<1> DEFINE R == r.rows
           F == FreshIds
           n == Cardinality(R)
           m == Cardinality(F)
<1>1. IsFiniteSet(R) /\ IsFiniteSet(F)
  <2>1. R \in SUBSET Externals /\ IsFiniteSet(Externals)
      BY ProviderAssumption DEF VisitRecords
  <2>2. F \in SUBSET Ids /\ IsFiniteSet(Ids)
      BY ProviderAssumption, FS_Interval DEF FreshIds, Ids
  <2> QED BY <2>1, <2>2, FS_Subset
<1> HIDE DEF R, F
<1>2. n \in Nat /\ m \in Nat /\ n <= m
    BY <1>1, FS_CardinalityType DEF R, F
<1>3. PICK g : g \in Bijection(1 .. n, R)
    BY <1>1, FS_CardinalityType DEF ExistsBijection
<1>4. PICK h : h \in Bijection(1 .. m, F)
    BY <1>1, FS_CardinalityType DEF ExistsBijection
<1> HIDE DEF n, m
<1>5. /\ g \in [1 .. n -> R] /\ \A a, b \in 1 .. n : g[a] = g[b] => a = b
      /\ \A e \in R : \E a \in 1 .. n : g[a] = e
    BY <1>3 DEF Bijection, Injection, Surjection, IsInjective
<1>6. h \in [1 .. m -> F] /\ \A a, b \in 1 .. m : h[a] = h[b] => a = b
    BY <1>4 DEF Bijection, Injection, IsInjective
<1> DEFINE at == [e \in R |-> CHOOSE a \in 1 .. n : g[a] = e]
           f == [e \in R |-> h[at[e]]]
<1>7. \A e \in R : at[e] \in 1 .. n /\ g[at[e]] = e
    BY <1>5
<1> HIDE DEF at
<1>8. \A e \in R : at[e] \in 1 .. m
    BY <1>2, <1>7
<1>9. f \in [R -> F] /\ \A d, e \in R : d # e => f[d] # f[e]
  <2>1. f \in [R -> F]
      BY <1>6, <1>8
  <2>2. \A d, e \in R : f[d] = f[e] => at[d] = at[e]
      BY <1>6, <1>8
  <2>3. \A d, e \in R : at[d] = at[e] => d = e
      BY <1>7
  <2> QED BY <2>1, <2>2, <2>3
<1> HIDE DEF f
<1>10. NewBindings(r) = CHOOSE k \in [R -> F] : \A d, e \in R : d # e => k[d] # k[e]
    BY DEF NewBindings, R, F
<1> QED BY <1>9, <1>10 DEF R, F

LEMMA InsertStep ==
    ASSUME DirectoryInv, NEW t \in Visitors, Insert(t)
    PROVE  DirectoryInv'
<1> PICK r \in VisitRecords : r = visit[t] /\ Sound(r) /\ Placed(r)
    BY TypesOf
<1>1. /\ r.step = "inserting" /\ r.op \in {"list", "setup", "login", "add", "create"}
      /\ Cardinality(FreshIds) >= Cardinality(r.rows) /\ \A e \in r.rows : ~ Locked(t, e)
      /\ UNCHANGED <<account, mishaps, Setting, visits>>
    BY DEF Insert, Step, Placed, Place, Frame
<1>2. visits' \in 0 .. MaxVisits
    BY <1>1 DEF DirectoryInv, AccountsTypeOK
<1>3. CASE RollsBack(t)
  <2>1. r.op = "create" => ~ (r.ext \in Externals /\ Unsecured(r.ext))
      BY <1>1 DEF Sound, AdminOK, Unsecured
  <2>2. mishaps \subseteq mishaps' /\ mishaps' \subseteq Externals
      BY <1>1 DEF DirectoryInv, AccountsTypeOK
  <2> QED BY <1>1, <1>3, <2>1, <2>2, PlainRollBack
<1>4. CASE Puts(t, Bound(r)) /\ UNCHANGED Database /\ \A e \in r.rows : bound[e] = NoId
  <2> PICK f : f = NewBindings(r)
      OBVIOUS
  <2>1. r.rows \in SUBSET Externals /\ (r.op \in {"add", "create", "login"} => r.ext \in Externals /\ r.rows = {r.ext})
      BY <1>1 DEF VisitRecords, Sound, Shape, Maker
  <2>2. r.op \in {"add", "create"} => f = [e \in r.rows |-> r.id] /\ r.id \in Ids
      BY DEF NewBindings, Sound, Shape
  <2>3. r.op \notin {"add", "create"} =>
            f \in [r.rows -> FreshIds] /\ \A d, e \in r.rows : d # e => f[d] # f[e]
      BY <1>1, NewRows
  <2>4. f \in [r.rows -> Ids]
      BY <2>2, <2>3, FreshAreFree
  <2>5. f \in Bindings
    <3>1. f \in [r.rows -> Ids \cup {NoId}]
        BY <2>4
    <3> QED BY <2>1, <3>1 DEF Bindings
  <2> DEFINE id == IF r.op = "login" THEN f[r.ext] ELSE r.id
             s == [r EXCEPT !.wrote = f, !.step = "resolved", !.id = id]
  <2>6. id \in Ids \cup {NoId} /\ (r.op = "login" => id = f[r.ext] /\ id \in Ids)
        /\ (r.op # "login" => id = r.id)
      BY <2>1, <2>4 DEF VisitRecords
  <2>7. Puts(t, s)
      BY <1>4 DEF Bound
  <2> HIDE DEF id
  <2>8. /\ s \in VisitRecords /\ s.op = r.op /\ s.step = "resolved" /\ s.ext = r.ext /\ s.id = id
        /\ s.rows = r.rows /\ s.wrote = f /\ s.level = r.level /\ s.seen = r.seen
      BY <2>5, <2>6 DEF VisitRecords, Steps
  <2> PICK q \in VisitRecords : q = s
      BY <2>8
  <2> HIDE DEF s
  <2>9. Placed(q) /\ (Maker(q) <=> Maker(r))
      BY <1>1, <2>8 DEF Placed, Place, Maker
  <2>10. DOMAIN q.wrote = r.rows
      BY <2>4, <2>8
  <2>11. Reserved(q) \subseteq Reserved(r) \cup FreshIds
      BY <2>2, <2>3, <2>4, <2>6, <2>8, <2>10 DEF Reserved
  <2>12. Sound(q)
    <3>1. Shape(q)
      <4>1. /\ q.level = Nobody /\ q.step = "resolved" /\ q.op = r.op /\ q.ext = r.ext /\ q.wrote = f
            /\ q.op \in {"list", "setup", "login", "add", "create"}
            /\ isolation = "mysql" => q.seen \in Snapshots
            /\ q.op \in {"login", "add", "create"} => q.ext \in Externals
          BY <1>1, <2>1, <2>8 DEF Sound, Shape
      <4>2. q.op \in {"add", "create"} =>
                q.id \in Ids /\ \A e \in DOMAIN q.wrote : e = q.ext /\ q.wrote[e] = q.id
          BY <2>1, <2>2, <2>6, <2>8, <2>10
      <4>3. q.op \in {"list", "setup", "login"} =>
                /\ \A e \in DOMAIN q.wrote : q.wrote[e] # NoId
                /\ \A d, e \in DOMAIN q.wrote : d # e => q.wrote[d] # q.wrote[e]
          BY <2>3, <2>4, <2>8, <2>10, Names
      <4> QED BY <4>1, <4>2, <4>3 DEF Shape, Maker
    <3>2. ReservedOK(q)
        BY <2>11, FreshAreFree DEF Sound, ReservedOK
    <3>3. SeenOK(q)
        BY <2>8, <2>9 DEF Sound, SeenOK
    <3>4. SignInOK(q)
        BY <2>1, <2>6, <2>8, <2>10 DEF SignInOK
    <3>5. RowsOK(q)
        BY <1>4, <2>8, <2>9, <2>10 DEF Sound, RowsOK
    <3>6. AdminOK(q)
        BY <1>1, <2>8 DEF Sound, AdminOK
    <3> QED BY <3>1, <3>2, <3>3, <3>4, <3>5, <3>6 DEF Sound
  <2>13. \A u \in Visitors \ {t} : Apart(q, visit[u])
    <3> SUFFICES ASSUME NEW u \in Visitors \ {t} PROVE Apart(q, visit[u])
        OBVIOUS
    <3>1. Apart(r, visit[u])
        BY DEF DirectoryInv
    <3>2. DOMAIN q.wrote \cap DOMAIN visit[u].wrote = {}
        BY <1>1, <2>10 DEF Locked
    <3>3. Reserved(q) \cap Reserved(visit[u]) = {}
        BY <2>11, <3>1, FreshAreFree DEF Apart
    <3> QED BY <2>8, <2>9, <3>1, <3>2, <3>3 DEF Apart
  <2> QED BY <1>1, <1>2, <1>4, <2>7, <2>8, <2>9, <2>12, <2>13, QuietStep
<1> QED BY <1>3, <1>4 DEF Insert

LEMMA BindStep ==
    ASSUME DirectoryInv, NEW t \in Visitors, Bind(t)
    PROVE  DirectoryInv'
<1> PICK r \in VisitRecords : r = visit[t] /\ Sound(r) /\ Placed(r)
    BY TypesOf
<1>1. r.step = "binding" /\ r.op \in {"add", "create"} /\ Maker(r) /\ r.ext \in Externals /\ r.id \in Ids
    BY DEF Bind, Step, Placed, Place, Maker, Sound, Shape
<1>2. UNCHANGED <<account, mishaps, Database, Setting, visits>> /\ visits' \in 0 .. MaxVisits
    BY DEF Bind, Frame, DirectoryInv, AccountsTypeOK
<1>3. DOMAIN r.wrote = {} /\ r.level = Nobody /\ (isolation = "mysql" => r.seen \in Snapshots)
    BY <1>1 DEF Sound, Shape
<1>4. backend = "oidc" /\ account[r.ext] # Unborn
    BY <1>1 DEF Sound, RowsOK, Placed, DirectoryInv, AccountsTypeOK
<1>5. CASE View(r).bound[r.ext] = NoId
  <2> DEFINE s == [r EXCEPT !.rows = {r.ext}, !.step = "inserting"]
  <2>1. Puts(t, s)
      BY <1>5 DEF Bind
  <2>2. /\ s \in VisitRecords /\ s.op = r.op /\ s.step = "inserting" /\ s.ext = r.ext /\ s.id = r.id
        /\ s.rows = {r.ext} /\ s.wrote = r.wrote /\ s.level = r.level /\ s.seen = r.seen
      BY <1>1 DEF VisitRecords, Steps
  <2> PICK q \in VisitRecords : q = s
      BY <2>2
  <2> HIDE DEF s
  <2>3. Placed(q) /\ Maker(q) /\ Reserved(q) = Reserved(r)
      BY <1>1, <1>4, <2>2 DEF Placed, Place, Maker, Reserved
  <2>4. Sound(q)
    <3>1. Shape(q)
        BY <1>1, <1>3, <2>2, <2>3 DEF Shape
    <3>2. ReservedOK(q) /\ SeenOK(q)
        BY <1>1, <2>2, <2>3 DEF Sound, ReservedOK, SeenOK
    <3>3. SignInOK(q) /\ AdminOK(q)
        BY <1>1, <2>2 DEF Sound, SignInOK, AdminOK
    <3>4. RowsOK(q)
        BY <1>3, <1>4, <2>2 DEF RowsOK
    <3> QED BY <3>1, <3>2, <3>3, <3>4 DEF Sound
  <2>5. \A u \in Visitors \ {t} : Apart(q, visit[u])
      BY <1>1, <2>2, <2>3 DEF DirectoryInv, Apart
  <2> QED BY <1>2, <2>1, <2>2, <2>3, <2>4, <2>5, QuietStep
<1>6. CASE View(r).bound[r.ext] # NoId
  <2>1. isolation = "postgres"
      BY <1>1, <1>6 DEF View, Sound, SeenOK, DirectoryInv, AccountsTypeOK
  <2> DEFINE f == [e \in {r.ext} |-> r.id]
             s == [r EXCEPT !.wrote = f, !.step = "resolved"]
  <2>2. Puts(t, s) /\ ~ Locked(t, r.ext)
      BY <1>6 DEF Bind
  <2>3. f \in Bindings /\ DOMAIN f = {r.ext} /\ f[r.ext] = r.id
    <3>1. f \in [{r.ext} -> Ids \cup {NoId}] /\ {r.ext} \in SUBSET Externals
        BY <1>1
    <3> QED BY <3>1 DEF Bindings
  <2> HIDE DEF f
  <2>4. /\ s \in VisitRecords /\ s.op = r.op /\ s.step = "resolved" /\ s.ext = r.ext /\ s.id = r.id
        /\ s.rows = r.rows /\ s.wrote = f /\ s.level = r.level /\ s.seen = r.seen
      BY <2>3 DEF VisitRecords, Steps
  <2> PICK q \in VisitRecords : q = s
      BY <2>4
  <2> HIDE DEF s
  <2>5. Placed(q) /\ Maker(q) /\ Reserved(q) = Reserved(r)
    <3>1. Placed(q) /\ Maker(q)
        BY <1>1, <1>4, <2>4 DEF Placed, Place, Maker
    <3>2. Reserved(q) = {r.id} /\ Reserved(r) = {r.id}
        BY <1>1, <1>3, <2>3, <2>4 DEF Reserved
    <3> QED BY <3>1, <3>2
  <2>6. Sound(q)
    <3>1. Shape(q)
        BY <1>1, <1>3, <2>3, <2>4, <2>5 DEF Shape
    <3>2. ReservedOK(q) /\ SeenOK(q)
        BY <1>1, <2>4, <2>5 DEF Sound, ReservedOK, SeenOK
    <3>3. SignInOK(q) /\ AdminOK(q)
        BY <1>1, <2>4 DEF Sound, SignInOK, AdminOK
    <3>4. RowsOK(q)
        BY <1>1, <1>4, <2>1, <2>3, <2>4 DEF Sound, RowsOK
    <3> QED BY <3>1, <3>2, <3>3, <3>4 DEF Sound
  <2>7. \A u \in Visitors \ {t} : Apart(q, visit[u])
      BY <1>1, <2>2, <2>3, <2>4, <2>5 DEF DirectoryInv, Apart, Locked
  <2> QED BY <1>2, <2>2, <2>4, <2>5, <2>6, <2>7, QuietStep
<1> QED BY <1>5, <1>6

LEMMA EndListStep ==
    ASSUME DirectoryInv, NEW t \in Visitors, EndList(t)
    PROVE  DirectoryInv'
<1> PICK r \in VisitRecords : r = visit[t] /\ Placed(r)
    BY TypesOf
<1>1. /\ r.step = "resolved" /\ r.op \in {"list", "setup"}
      /\ UNCHANGED <<account, mishaps, Setting, visits>>
    BY DEF EndList, Step, Frame
<1>2. CASE Commits(t, AtRest)
    BY <1>1, <1>2, RestIsSound, CommitStep DEF Placed
<1>3. CASE Commits(t, [AtRest EXCEPT !.op = "setup", !.step = "vacant"]) /\ r.op = "setup"
  <2> DEFINE s == [AtRest EXCEPT !.op = "setup", !.step = "vacant"]
  <2>1. /\ s \in VisitRecords /\ s.op = "setup" /\ s.step = "vacant" /\ DOMAIN s.wrote = {}
        /\ s.rows = {} /\ s.level = Nobody /\ s.seen = NothingSeen
      BY RestIsSound DEF VisitRecords, Ops, Steps
  <2> PICK q \in VisitRecords : q = s
      BY <2>1
  <2>2. Commits(t, q)
      BY <1>3
  <2> HIDE DEF s
  <2>3. Placed(q)
      BY <1>3, <2>1 DEF Placed, Place
  <2> QED BY <1>1, <2>1, <2>2, <2>3, CommitStep
<1> QED BY <1>2, <1>3 DEF EndList

LEMMA EndAddStep ==
    ASSUME DirectoryInv, NEW t \in Visitors, EndAdd(t)
    PROVE  DirectoryInv'
<1> PICK r \in VisitRecords : r = visit[t]
    BY TypesOf
<1>1. r.op = "add" /\ Commits(t, AtRest) /\ UNCHANGED <<account, mishaps, Setting, visits>>
    BY DEF EndAdd, Frame
<1> QED BY <1>1, RestIsSound, CommitStep DEF Placed

-----------------------------------------------------------------------------
(* Calls to the provider                                                   *)

(* An account that is changed, and what the request does then.             *)
LEMMA Changed ==
    ASSUME DirectoryInv, NEW e \in Externals, NEW a \in Accounts \cup {Dropped},
           account' = [account EXCEPT ![e] = a]
    PROVE  /\ account' \in [Externals -> Accounts \cup {Unborn, Dropped}]
           /\ account'[e] = a /\ \A d \in Externals \ {e} : account'[d] = account[d]
           /\ a # Unborn /\ \A d \in Externals : account[d] # Unborn => account'[d] # Unborn
           /\ \A d \in Externals \ {e} : Unsecured(d)' => Unsecured(d)
           /\ Unsecured(e)' <=> a # Dropped /\ a.level = "admin" /\ ~ a.password
<1>1. account \in [Externals -> Accounts \cup {Unborn, Dropped}]
    BY DEF DirectoryInv, AccountsTypeOK
<1>2. a # Unborn
    BY ProviderAssumption
<1> QED BY <1>1, <1>2 DEF Unsecured, Exists

LEMMA PostStep ==
    ASSUME DirectoryInv, NEW t \in Visitors, Post(t)
    PROVE  DirectoryInv'
<1> PICK r \in VisitRecords : r = visit[t] /\ Sound(r) /\ Placed(r)
    BY TypesOf
<1>1. /\ r.step = "posting" /\ r.op \in {"add", "create"} /\ backend = "oidc" /\ ~ Maker(r)
      /\ r.ext \notin Externals
    BY ProviderAssumption DEF Post, Step, Placed, Place, Maker, DirectoryInv, AccountsTypeOK, Sound, Shape
<1>2. UNCHANGED <<Setting, visits>> /\ visits' \in 0 .. MaxVisits /\ mishaps \subseteq Externals
    BY DEF Post, Frame, DirectoryInv, AccountsTypeOK
<1>3. CASE Refused(t)
    BY <1>1, <1>2, <1>3, PlainRollBack DEF Refused
<1>4. ASSUME NEW e \in Externals, account[e] = Unborn,
             account' = [account EXCEPT ![e] =
                 [level |-> "user", password |-> FALSE,
                  maker |-> IF r.op = "create" THEN "setup" ELSE "add"]],
             \/ Puts(t, [r EXCEPT !.ext = e, !.step = "binding"]) /\ UNCHANGED <<mishaps, Database>>
             \/ Lost(t, e)
      PROVE  DirectoryInv'
  <2> DEFINE new == [level |-> "user", password |-> FALSE,
                     maker |-> IF r.op = "create" THEN "setup" ELSE "add"]
  <2>0. new \in Accounts /\ new.level = "user"
      BY DEF Accounts, AclLevels
  <2> PICK a \in Accounts : a = new
      BY <2>0
  <2>4. account' = [account EXCEPT ![e] = a]
      BY <1>4
  <2> HIDE DEF new
  <2>5. \A d \in Externals : Unsecured(d)' => Unsecured(d)
    <3>1. ~ Unsecured(e)'
        BY <2>0, <2>4, Changed
    <3> QED BY <2>4, <3>1, Changed
  <2>1. /\ account' \in [Externals -> Accounts \cup {Unborn, Dropped}]
        /\ \A d \in Externals : account'[d] = account[d] \/ (account[d] = Unborn /\ account'[d] # Unborn)
        /\ \A d \in Externals : Unsecured(d)' => Unsecured(d) /\ ~ (r.ext = d /\ r.op = "create")
        /\ account'[e] = a /\ account'[e] # Unborn
    <3>1. /\ account' \in [Externals -> Accounts \cup {Unborn, Dropped}]
          /\ account'[e] = a /\ a # Unborn /\ \A d \in Externals \ {e} : account'[d] = account[d]
        BY <2>4, Changed
    <3>2. \A d \in Externals : r.ext # d
        BY <1>1
    <3> QED BY <1>4, <2>5, <3>1, <3>2
  <2>2. CASE Lost(t, e)
      BY <1>2, <2>1, <2>2, RollBackStep DEF Lost
  <2>3. CASE Puts(t, [r EXCEPT !.ext = e, !.step = "binding"]) /\ UNCHANGED <<mishaps, Database>>
    <3> DEFINE s == [r EXCEPT !.ext = e, !.step = "binding"]
    <3>1. /\ s \in VisitRecords /\ s.op = r.op /\ s.step = "binding" /\ s.ext = e /\ s.id = r.id
          /\ s.rows = r.rows /\ s.wrote = r.wrote /\ s.level = r.level /\ s.seen = r.seen
        BY DEF VisitRecords, Steps
    <3> PICK q \in VisitRecords : q = s
        BY <3>1
    <3>2. Puts(t, q)
        BY <2>3
    <3> HIDE DEF s
    <3>3. Placed(q) /\ Maker(q) /\ Reserved(q) = Reserved(r) /\ DOMAIN r.wrote = {}
        BY <1>1, <3>1 DEF Placed, Place, Maker, Reserved, Sound, Shape
    <3>4. bound' = bound /\ locals' = locals /\ gone' = gone /\ backend' = backend /\ isolation' = isolation
        BY <1>2, <2>3 DEF Database, Setting
    <3>5. Used' = Used
        BY <3>4 DEF Used
    <3>6. Sound(q)'
      <4>1. Shape(q)'
          BY <1>1, <3>1, <3>3, <3>4 DEF Sound, Shape
      <4>2. ReservedOK(q)'
          BY <3>3, <3>4, <3>5 DEF Sound, ReservedOK, Reserved
      <4>3. SeenOK(q)'
        <5>1. r.seen \in Snapshots => Was(r.seen)'
            BY <2>1, <3>4, <3>5 DEF Sound, SeenOK, Was
        <5>2. isolation = "mysql" => r.seen \in Snapshots /\ r.seen.bound[e] = NoId
            BY <1>1, <1>4 DEF Sound, SeenOK, Shape, Was
        <5> QED BY <3>1, <3>4, <5>1, <5>2 DEF SeenOK
      <4>4. SignInOK(q)'
          BY <1>1, <3>1 DEF SignInOK
      <4>5. RowsOK(q)'
        <5>1. \A d \in r.rows : account'[d] # Unborn
            BY <1>1, <2>1 DEF Sound, RowsOK, VisitRecords
        <5> QED BY <2>1, <3>1, <3>3, <5>1 DEF RowsOK
      <4>6. AdminOK(q)'
          BY <2>0, <2>1, <3>1 DEF AdminOK
      <4> QED BY <4>1, <4>2, <4>3, <4>4, <4>5, <4>6 DEF Sound
    <3>7. \A u \in Visitors \ {t} : Apart(q, visit[u])
      <4> SUFFICES ASSUME NEW u \in Visitors \ {t} PROVE Apart(q, visit[u])
          OBVIOUS
      <4>1. Apart(r, visit[u]) /\ Sound(visit[u])
          BY DEF DirectoryInv
      <4>2. Maker(visit[u]) => visit[u].ext # e
          BY <1>1, <1>4, <4>1 DEF Sound, RowsOK
      <4> QED BY <3>1, <3>3, <4>1, <4>2 DEF Apart
    <3>8. \A d \in Externals : Unsecured(d)' =>
               \/ d \in mishaps'
               \/ q.ext = d /\ q.op = "create"
               \/ Unsecured(d) /\ ~ (visit[t].ext = d /\ visit[t].op = "create")
        BY <2>1
    <3>9. UNCHANGED Database /\ mishaps' = mishaps
        BY <2>3
    <3> QED BY <1>2, <2>1, <3>2, <3>3, <3>6, <3>7, <3>8, <3>9, OneVisit
  <2> QED BY <1>4, <2>2, <2>3
<1> QED BY <1>3, <1>4 DEF Post

(* The later calls of the setup move the request and change its account.   *)
LEMMA MakerStep ==
    ASSUME DirectoryInv, NEW t \in Visitors, NEW r \in VisitRecords, r = visit[t], r.op = "create",
           r.step \in {"resolved", "securing"}, NEW step \in {"securing", "reading", "compensating"},
           Puts(t, [r EXCEPT !.step = step]), UNCHANGED <<mishaps, Database, Setting, visits>>,
           account' \in [Externals -> Accounts \cup {Unborn, Dropped}],
           \A d \in Externals \ {r.ext} : account'[d] = account[d],
           account'[r.ext] # Unborn,
           step = "reading" => Exists(r.ext)' /\ account'[r.ext].password
    PROVE  DirectoryInv'
<1>1. Sound(r) /\ Placed(r)
    BY TypesOf
<1>2. Maker(r) /\ r.ext \in Externals /\ backend = "oidc"
    BY <1>1 DEF Maker, Sound, Shape, Placed, DirectoryInv, AccountsTypeOK
<1> DEFINE s == [r EXCEPT !.step = step]
<1>3. /\ s \in VisitRecords /\ s.op = r.op /\ s.step = step /\ s.ext = r.ext /\ s.id = r.id
      /\ s.rows = r.rows /\ s.wrote = r.wrote /\ s.level = r.level /\ s.seen = r.seen
    BY DEF VisitRecords, Steps
<1> PICK q \in VisitRecords : q = s
    BY <1>3
<1>4. Puts(t, q)
    OBVIOUS
<1> HIDE DEF s
<1>5. Placed(q) /\ Maker(q) /\ Reserved(q) = Reserved(r)
    BY <1>1, <1>2, <1>3 DEF Placed, Place, Maker, Reserved
<1>6. bound' = bound /\ locals' = locals /\ gone' = gone /\ backend' = backend /\ isolation' = isolation
    BY DEF Database, Setting
<1>7. Used' = Used
    BY <1>6 DEF Used
<1>8. \A d \in Externals : account[d] # Unborn => account'[d] # Unborn
    OBVIOUS
<1>9. Sound(q)'
  <2>1. Shape(q)'
      BY <1>1, <1>2, <1>3, <1>5, <1>6 DEF Sound, Shape
  <2>2. ReservedOK(q)'
      BY <1>1, <1>5, <1>6, <1>7 DEF Sound, ReservedOK, Reserved
  <2>3. SeenOK(q)'
    <3>1. r.seen \in Snapshots => Was(r.seen)'
        BY <1>1, <1>6, <1>7, <1>8 DEF Sound, SeenOK, Was
    <3> QED BY <1>1, <1>2, <1>3, <1>6, <3>1 DEF Sound, SeenOK
  <2>4. SignInOK(q)'
      BY <1>3 DEF SignInOK
  <2>5. RowsOK(q)'
    <3>1. r.rows \cup DOMAIN r.wrote \subseteq Externals
        BY DEF VisitRecords, Bindings
    <3> QED BY <1>1, <1>3, <1>6, <1>8, <3>1 DEF Sound, RowsOK
  <2>6. AdminOK(q)'
      BY <1>3 DEF AdminOK
  <2> QED BY <2>1, <2>2, <2>3, <2>4, <2>5, <2>6 DEF Sound
<1>10. \A u \in Visitors \ {t} : Apart(q, visit[u])
    BY <1>2, <1>3, <1>5 DEF DirectoryInv, Apart
<1>11. \A d \in Externals : Unsecured(d)' =>
               \/ d \in mishaps'
               \/ q.ext = d /\ q.op = "create"
               \/ Unsecured(d) /\ ~ (visit[t].ext = d /\ visit[t].op = "create")
    BY <1>3 DEF Unsecured, Exists
<1>12. /\ visits' \in 0 .. MaxVisits /\ mishaps \subseteq mishaps' /\ mishaps' \subseteq Externals
       /\ UNCHANGED <<Setting, Database>>
    BY DEF DirectoryInv, AccountsTypeOK
<1>13. \A e \in Externals :
               \/ account'[e] \in {account[e], Dropped}
               \/ account[e] = Unborn /\ account'[e] # Unborn
               \/ Maker(visit[t]) /\ visit[t].ext = e /\ account'[e] # Unborn
    BY <1>2
<1> QED BY <1>4, <1>5, <1>9, <1>10, <1>11, <1>12, <1>13, OneVisit

LEMMA PromoteStep ==
    ASSUME DirectoryInv, NEW t \in Visitors, Promote(t)
    PROVE  DirectoryInv'
<1> PICK r \in VisitRecords : r = visit[t] /\ Sound(r) /\ Placed(r)
    BY TypesOf
<1>1. r.step = "resolved" /\ r.op = "create" /\ r.ext \in Externals /\ Maker(r)
    BY DEF Promote, Step, Sound, Shape, Maker
<1>2. UNCHANGED <<Setting, visits>> /\ mishaps \subseteq Externals
    BY DEF Promote, Frame, DirectoryInv, AccountsTypeOK
<1>3. CASE Refused(t)
  <2>1. ~ Unsecured(r.ext)
      BY <1>1 DEF Sound, AdminOK, Unsecured
  <2> QED BY <1>2, <1>3, <2>1, PlainRollBack DEF Refused
<1>4. CASE /\ Exists(r.ext)
           /\ account' = [account EXCEPT ![r.ext].level = "admin"]
           /\ \/ Puts(t, [r EXCEPT !.step = "securing"]) /\ UNCHANGED <<mishaps, Database>>
              \/ Lost(t, r.ext)
  <2>1. account[r.ext] \in Accounts
      BY <1>1, <1>4 DEF DirectoryInv, AccountsTypeOK, Exists
  <2> PICK a \in Accounts : a = [account[r.ext] EXCEPT !.level = "admin"]
      BY <2>1 DEF Accounts, AclLevels
  <2>2. account' = [account EXCEPT ![r.ext] = a]
      BY <1>4
  <2>3. /\ account' \in [Externals -> Accounts \cup {Unborn, Dropped}]
        /\ account'[r.ext] = a /\ \A d \in Externals \ {r.ext} : account'[d] = account[d]
        /\ a # Unborn /\ \A d \in Externals \ {r.ext} : Unsecured(d)' => Unsecured(d)
      BY <1>1, <2>2, Changed
  <2>4. CASE Lost(t, r.ext)
    <3>1. \A d \in Externals : Unsecured(d)' =>
              \/ d \in mishaps'
              \/ Unsecured(d) /\ ~ (visit[t].ext = d /\ visit[t].op = "create")
        BY <2>3, <2>4 DEF Lost
    <3>2. \A e \in Externals :
               \/ account'[e] \in {account[e], Dropped}
               \/ account[e] = Unborn /\ account'[e] # Unborn
               \/ Maker(visit[t]) /\ visit[t].ext = e /\ account'[e] # Unborn
        BY <1>1, <2>3
    <3> QED BY <1>1, <1>2, <2>3, <2>4, <3>1, <3>2, RollBackStep DEF Lost
  <2>5. CASE Puts(t, [r EXCEPT !.step = "securing"]) /\ UNCHANGED <<mishaps, Database>>
      BY <1>1, <1>2, <2>3, <2>5, MakerStep
  <2> QED BY <1>4, <2>4, <2>5
<1> QED BY <1>3, <1>4 DEF Promote

LEMMA SetOidcPasswordStep ==
    ASSUME DirectoryInv, NEW t \in Visitors, SetOidcPassword(t)
    PROVE  DirectoryInv'
<1> PICK r \in VisitRecords : r = visit[t] /\ Sound(r) /\ Placed(r)
    BY TypesOf
<1>1. r.step = "securing" /\ r.op = "create" /\ r.ext \in Externals /\ Maker(r)
    BY DEF SetOidcPassword, Step, Sound, Shape, Maker, Placed, Place
<1>2. UNCHANGED <<mishaps, Database, Setting, visits>>
    BY DEF SetOidcPassword, Frame
<1>3. ASSUME NEW s \in {"reading", "compensating"}, Exists(r.ext),
             account' = [account EXCEPT ![r.ext].password = TRUE],
             Puts(t, [r EXCEPT !.step = s])
      PROVE  DirectoryInv'
  <2>1. account[r.ext] \in Accounts
      BY <1>1, <1>3 DEF DirectoryInv, AccountsTypeOK, Exists
  <2>0. [account[r.ext] EXCEPT !.password = TRUE] \in Accounts /\ [account[r.ext] EXCEPT !.password = TRUE].password = TRUE
      BY <2>1 DEF Accounts
  <2> PICK a \in Accounts : a = [account[r.ext] EXCEPT !.password = TRUE] /\ a.password = TRUE
      BY <2>0
  <2>2. account' = [account EXCEPT ![r.ext] = a]
      BY <1>3
  <2>3. /\ account' \in [Externals -> Accounts \cup {Unborn, Dropped}]
        /\ account'[r.ext] = a /\ \A d \in Externals \ {r.ext} : account'[d] = account[d]
        /\ a # Unborn /\ Exists(r.ext)'
      BY <1>1, <2>2, Changed, ProviderAssumption DEF Exists
  <2> QED BY <1>1, <1>2, <1>3, <2>3, MakerStep
<1>4. CASE Puts(t, [r EXCEPT !.step = "compensating"]) /\ UNCHANGED account
  <2>1. account[r.ext] # Unborn /\ account \in [Externals -> Accounts \cup {Unborn, Dropped}]
      BY <1>1 DEF Sound, RowsOK, Placed, DirectoryInv, AccountsTypeOK
  <2> QED BY <1>1, <1>2, <1>4, <2>1, MakerStep
<1> QED BY <1>3, <1>4 DEF SetOidcPassword

LEMMA CompensateStep ==
    ASSUME DirectoryInv, NEW t \in Visitors, Compensate(t)
    PROVE  DirectoryInv'
<1> PICK r \in VisitRecords : r = visit[t] /\ Sound(r) /\ Placed(r)
    BY TypesOf
<1>1. r.step = "compensating" /\ r.op = "create" /\ r.ext \in Externals
    BY DEF Compensate, Step, Sound, Shape, Maker, Placed, Place
<1>2. UNCHANGED <<Setting, visits>> /\ mishaps \subseteq Externals
    BY DEF Compensate, Frame, DirectoryInv, AccountsTypeOK
<1>3. CASE account' = [account EXCEPT ![r.ext] = Dropped] /\ RollsBack(t) /\ UNCHANGED mishaps
  <2>1. /\ account' \in [Externals -> Accounts \cup {Unborn, Dropped}]
        /\ account'[r.ext] = Dropped /\ \A d \in Externals \ {r.ext} : account'[d] = account[d]
        /\ \A d \in Externals : Unsecured(d)' => Unsecured(d) /\ d # r.ext
      BY <1>1, <1>3, Changed
  <2> QED BY <1>2, <1>3, <2>1, RollBackStep
<1>4. CASE Lost(t, r.ext) /\ UNCHANGED account
    BY <1>1, <1>2, <1>4, PlainRollBack DEF Lost
<1> QED BY <1>3, <1>4 DEF Compensate

LEMMA ReadBackStep ==
    ASSUME DirectoryInv, NEW t \in Visitors, ReadBack(t)
    PROVE  DirectoryInv'
<1> PICK r \in VisitRecords : r = visit[t] /\ Sound(r) /\ Placed(r)
    BY TypesOf
<1>1. r.step = "reading" /\ r.op = "create" /\ UNCHANGED <<account, mishaps, Setting, visits>>
    BY DEF ReadBack, Step, Frame, Placed, Place
<1>2. CASE Commits(t, AtRest)
    BY <1>1, <1>2, RestIsSound, CommitStep DEF Placed
<1>3. CASE RollsBack(t)
  <2>1. ~ Unsecured(r.ext) /\ mishaps \subseteq Externals
      BY <1>1 DEF Sound, AdminOK, Unsecured, DirectoryInv, AccountsTypeOK
  <2> QED BY <1>1, <1>3, <2>1, PlainRollBack
<1> QED BY <1>2, <1>3 DEF ReadBack

LEMMA StartRemoveStep ==
    ASSUME DirectoryInv, NEW t \in Visitors, NEW e \in Externals, StartRemove(t, e)
    PROVE  DirectoryInv'
<1> DEFINE c0 == Seeing(AtRest)
<1>1. /\ c0 \in VisitRecords /\ c0.rows = {} /\ DOMAIN c0.wrote = {} /\ c0.level = Nobody
      /\ c0.seen \in Snapshots => Was(c0.seen)
      /\ isolation = "mysql" => c0.seen \in Snapshots
    BY SeeingIsSound, RestIsSound DEF AtRest
<1> PICK c \in VisitRecords : c = c0
    BY <1>1
<1> DEFINE s == [c EXCEPT !.op = "remove", !.step = "deleting", !.ext = e]
<1>2. /\ Begins(t, s) /\ UNCHANGED <<account, mishaps, Database, Setting>> /\ backend = "oidc"
    BY DEF StartRemove
<1> HIDE DEF c0
<1>3. /\ s \in VisitRecords /\ s.op = "remove" /\ s.step = "deleting" /\ s.ext = e
      /\ s.rows = c.rows /\ s.wrote = c.wrote /\ s.level = c.level /\ s.seen = c.seen
    BY DEF VisitRecords, Ops, Steps
<1> PICK q \in VisitRecords : q = s
    BY <1>3
<1>4. Begins(t, q)
    BY <1>2
<1> HIDE DEF s
<1>5. Placed(q) /\ ~ Maker(q) /\ Reserved(q) = {} /\ DOMAIN q.wrote = {}
    BY <1>1, <1>2, <1>3 DEF Placed, Place, Maker, Reserved
<1>6. Sound(q)
  <2>1. Shape(q)
      BY <1>1, <1>3, <1>5 DEF Shape
  <2>2. ReservedOK(q) /\ SignInOK(q) /\ AdminOK(q)
      BY <1>3, <1>5 DEF ReservedOK, SignInOK, AdminOK
  <2>3. SeenOK(q) /\ RowsOK(q)
      BY <1>1, <1>3, <1>5 DEF SeenOK, RowsOK
  <2> QED BY <2>1, <2>2, <2>3 DEF Sound
<1> QED BY <1>2, <1>4, <1>5, <1>6, BeginStep

LEMMA DeleteStep ==
    ASSUME DirectoryInv, NEW t \in Visitors, Delete(t)
    PROVE  DirectoryInv'
<1> PICK r \in VisitRecords : r = visit[t] /\ Sound(r) /\ Placed(r)
    BY TypesOf
<1>1. /\ r.step = "deleting" /\ r.op = "remove" /\ r.ext \in Externals /\ ~ Locked(t, r.ext)
      /\ DOMAIN r.wrote = {} /\ backend = "oidc"
    BY DEF Delete, Step, Sound, Shape, Maker, Placed, Place, DirectoryInv, AccountsTypeOK
<1>2. UNCHANGED <<Setting, visits>> /\ mishaps \subseteq Externals /\ visits' \in 0 .. MaxVisits
    BY DEF Delete, Frame, DirectoryInv, AccountsTypeOK
<1>3. CASE Refused(t)
    BY <1>1, <1>2, <1>3, PlainRollBack DEF Refused
<1> DEFINE f == [e \in {r.ext} |-> NoId]
           s == [r EXCEPT !.step = "deleted", !.wrote = f]
<1>4. CASE /\ account' = [account EXCEPT ![r.ext] = Dropped]
           /\ Puts(t, s) /\ UNCHANGED <<mishaps, Database>>
  <2>1. /\ account' \in [Externals -> Accounts \cup {Unborn, Dropped}]
        /\ \A d \in Externals : account'[d] \in {account[d], Dropped}
        /\ \A d \in Externals : Unsecured(d)' => Unsecured(d)
        /\ \A d \in Externals : account[d] # Unborn => account'[d] # Unborn
        /\ account'[r.ext] # Unborn
      BY <1>1, <1>4, Changed
  <2>2. f \in Bindings /\ DOMAIN f = {r.ext} /\ f[r.ext] = NoId
    <3>1. f \in [{r.ext} -> Ids \cup {NoId}] /\ {r.ext} \in SUBSET Externals
        BY <1>1
    <3> QED BY <3>1 DEF Bindings
  <2> HIDE DEF f
  <2>3. /\ s \in VisitRecords /\ s.op = r.op /\ s.step = "deleted" /\ s.ext = r.ext
        /\ s.rows = r.rows /\ s.wrote = f /\ s.level = r.level /\ s.seen = r.seen
      BY <2>2 DEF VisitRecords, Steps
  <2> PICK q \in VisitRecords : q = s
      BY <2>3
  <2>4. Puts(t, q) /\ UNCHANGED <<mishaps, Database>>
      BY <1>4
  <2> HIDE DEF s
  <2>5. Placed(q) /\ ~ Maker(q) /\ Reserved(q) = {}
      BY <1>1, <2>2, <2>3 DEF Placed, Place, Maker, Reserved
  <2>6. bound' = bound /\ locals' = locals /\ gone' = gone /\ backend' = backend /\ isolation' = isolation
      BY <1>2, <2>4 DEF Database, Setting
  <2>7. Used' = Used
      BY <2>6 DEF Used
  <2>8. Sound(q)'
    <3>1. Shape(q)'
        BY <1>1, <2>2, <2>3, <2>5, <2>6 DEF Sound, Shape
    <3>2. ReservedOK(q)' /\ SignInOK(q)' /\ AdminOK(q)'
        BY <1>1, <2>3, <2>5 DEF ReservedOK, SignInOK, AdminOK
    <3>3. SeenOK(q)'
      <4>1. r.seen \in Snapshots => Was(r.seen)'
          BY <2>1, <2>6, <2>7 DEF Sound, SeenOK, Was
      <4> QED BY <2>3, <2>5, <2>6, <4>1 DEF SeenOK
    <3>4. RowsOK(q)'
      <4>1. r.rows \subseteq Externals
          BY DEF VisitRecords
      <4> QED BY <1>1, <2>1, <2>2, <2>3, <2>5, <4>1 DEF Sound, RowsOK
    <3> QED BY <3>1, <3>2, <3>3, <3>4 DEF Sound
  <2>9. \A u \in Visitors \ {t} : Apart(q, visit[u])
      BY <1>1, <2>2, <2>3, <2>5 DEF Apart, Locked
  <2>10. \A d \in Externals : Unsecured(d)' =>
               \/ d \in mishaps'
               \/ q.ext = d /\ q.op = "create"
               \/ Unsecured(d) /\ ~ (visit[t].ext = d /\ visit[t].op = "create")
      BY <1>1, <2>1
  <2> QED BY <1>2, <2>1, <2>4, <2>5, <2>8, <2>9, <2>10, OneVisit
<1> QED BY <1>3, <1>4 DEF Delete

LEMMA EndRemoveStep ==
    ASSUME DirectoryInv, NEW t \in Visitors, EndRemove(t)
    PROVE  DirectoryInv'
<1> PICK r \in VisitRecords : r = visit[t] /\ Placed(r)
    BY TypesOf
<1>1. r.op = "remove" /\ UNCHANGED <<account, mishaps, Setting, visits>> /\ mishaps \subseteq Externals
    BY DEF EndRemove, Step, Frame, Placed, Place, DirectoryInv, AccountsTypeOK
<1>2. CASE Commits(t, AtRest)
    BY <1>1, <1>2, RestIsSound, CommitStep DEF Placed
<1>3. CASE RollsBack(t)
    BY <1>1, <1>3, PlainRollBack
<1> QED BY <1>2, <1>3 DEF EndRemove

-----------------------------------------------------------------------------
(* Signing in                                                              *)

(* A sign-in that goes on keeps its row and its identifier.                *)
LEMMA SignInGoesOn ==
    ASSUME DirectoryInv, NEW t \in Visitors, NEW r \in VisitRecords, r = visit[t], r.op = "login",
           r.step \in {"resolved", "provisioning"}, backend = "local",
           NEW step \in {"provisioning", "provisioned"}, NEW level \in AclLevels \cup {Nobody},
           level # Nobody <=> step = "provisioned",
           isolation = "mysql" => DOMAIN r.wrote # {},
           Puts(t, [r EXCEPT !.level = level, !.step = step]),
           UNCHANGED <<account, mishaps, Database, Setting, visits>>
    PROVE  DirectoryInv'
<1>1. Sound(r) /\ Placed(r)
    BY TypesOf
<1> DEFINE s == [r EXCEPT !.level = level, !.step = step]
<1>2. /\ s \in VisitRecords /\ s.op = r.op /\ s.step = step /\ s.ext = r.ext /\ s.id = r.id
      /\ s.rows = r.rows /\ s.wrote = r.wrote /\ s.level = level /\ s.seen = r.seen
    BY DEF VisitRecords, Steps
<1> PICK q \in VisitRecords : q = s
    BY <1>2
<1>3. Puts(t, q)
    OBVIOUS
<1> HIDE DEF s
<1>4. Placed(q) /\ ~ Maker(q) /\ Reserved(q) = Reserved(r)
    BY <1>1, <1>2 DEF Placed, Place, Maker, Reserved
<1>5. Sound(q)
  <2>1. Shape(q)
      BY <1>1, <1>2, <1>4 DEF Sound, Shape
  <2>2. ReservedOK(q) /\ AdminOK(q)
      BY <1>1, <1>2, <1>4 DEF Sound, ReservedOK, AdminOK
  <2>3. SeenOK(q) /\ RowsOK(q)
      BY <1>1, <1>2, <1>4 DEF Sound, SeenOK, RowsOK
  <2>4. SignInOK(q)
      BY <1>1, <1>2 DEF Sound, SignInOK
  <2> QED BY <2>1, <2>2, <2>3, <2>4 DEF Sound
<1>6. \A u \in Visitors \ {t} : Apart(q, visit[u])
    BY <1>2, <1>4 DEF DirectoryInv, Apart
<1>7. visits' \in 0 .. MaxVisits
    BY DEF DirectoryInv, AccountsTypeOK
<1> QED BY <1>3, <1>4, <1>5, <1>6, <1>7, QuietStep

LEMMA FetchStep ==
    ASSUME DirectoryInv, NEW t \in Visitors, Fetch(t)
    PROVE  DirectoryInv'
<1> PICK r \in VisitRecords : r = visit[t] /\ Sound(r) /\ Placed(r)
    BY TypesOf
<1>1. /\ r.step = "resolved" /\ r.op = "login" /\ UNCHANGED <<account, mishaps, Setting, visits>>
      /\ mishaps \subseteq Externals
    BY DEF Fetch, Step, Frame, DirectoryInv, AccountsTypeOK
<1>2. CASE IsKnown(r) /\ Commits(t, AtRest)
    BY <1>1, <1>2, RestIsSound, CommitStep DEF Placed
<1>3. CASE RollsBack(t)
    BY <1>1, <1>3, PlainRollBack
<1>4. CASE /\ ~ IsKnown(r) /\ backend = "local"
           /\ Puts(t, [r EXCEPT !.step = "provisioning"]) /\ UNCHANGED Database
  <2>1. r.level = Nobody /\ [r EXCEPT !.step = "provisioning"] = [r EXCEPT !.level = Nobody, !.step = "provisioning"]
      BY <1>1 DEF Sound, Shape, VisitRecords
  <2>2. ASSUME isolation = "mysql", DOMAIN r.wrote = {} PROVE FALSE
    <3>1. r.id \in Ids /\ r.id = r.seen.bound[r.ext] /\ r.seen \in Snapshots /\ r.ext \in Externals
        BY <1>1, <2>2 DEF Sound, SignInOK, Shape
    <3>2. r.seen.locals[r.id] # Nobody
        BY <1>4, <3>1, Names DEF Sound, SeenOK, Was
    <3> QED BY <1>4, <2>2, <3>2 DEF IsKnown, View
  <2>3. Puts(t, [r EXCEPT !.level = Nobody, !.step = "provisioning"])
      BY <1>4, <2>1
  <2> QED BY <1>1, <1>4, <2>2, <2>3, SignInGoesOn
<1> QED BY <1>2, <1>3, <1>4 DEF Fetch

LEMMA ProvisionLocalStep ==
    ASSUME DirectoryInv, NEW t \in Visitors, ProvisionLocal(t)
    PROVE  DirectoryInv'
<1> PICK r \in VisitRecords : r = visit[t] /\ Sound(r) /\ Placed(r)
    BY TypesOf
<1>1. /\ r.step = "provisioning" /\ r.op = "login" /\ backend = "local"
      /\ UNCHANGED <<account, mishaps, Database, Setting, visits>>
    BY DEF ProvisionLocal, Step, Frame, Placed, Place, DirectoryInv, AccountsTypeOK
<1> PICK level : level = ProfileFor(r)
    OBVIOUS
<1>2. level \in AclLevels
    BY DEF ProfileFor, VisitRecords, AclLevels
<1>3. Puts(t, [r EXCEPT !.level = level, !.step = "provisioned"])
    BY DEF ProvisionLocal
<1>4. isolation = "mysql" => DOMAIN r.wrote # {}
    BY <1>1 DEF Sound, SignInOK
<1> QED BY <1>1, <1>2, <1>3, <1>4, Names, SignInGoesOn

LEMMA EndLoginStep ==
    ASSUME DirectoryInv, NEW t \in Visitors, EndLogin(t)
    PROVE  DirectoryInv'
<1> PICK r \in VisitRecords : r = visit[t] /\ Placed(r)
    BY TypesOf
<1>1. /\ r.step = "provisioned" /\ r.op = "login" /\ UNCHANGED <<account, mishaps, Setting, visits>>
      /\ mishaps \subseteq Externals
    BY DEF EndLogin, Step, Frame, Placed, Place, DirectoryInv, AccountsTypeOK
<1>2. CASE locals[r.id] = Nobody /\ Commits(t, AtRest)
    BY <1>1, <1>2, RestIsSound, CommitStep DEF Placed
<1>3. CASE RollsBack(t)
    BY <1>1, <1>3, PlainRollBack
<1> QED BY <1>2, <1>3 DEF EndLogin

LEMMA CrashStep ==
    ASSUME DirectoryInv, NEW t \in Visitors, Crash(t)
    PROVE  DirectoryInv'
<1>1. /\ RollsBack(t) /\ UNCHANGED <<account, Setting, visits>>
      /\ mishaps' = mishaps \cup ({visit[t].ext} \cap Externals) /\ mishaps \subseteq Externals
    BY DEF Crash, Frame, DirectoryInv, AccountsTypeOK
<1> QED BY <1>1, PlainRollBack

-----------------------------------------------------------------------------
(* What happens beside the requests                                        *)

(* The requests keep their places while people and accounts come and go.   *)
LEMMA BesideStep ==
    ASSUME DirectoryInv, UNCHANGED <<Setting, visit, mishaps, visits>>,
           account' \in [Externals -> Accounts \cup {Unborn, Dropped}],
           \A e \in Externals : account'[e] \in {account[e], Dropped} \/ (account[e] = Unborn /\ account'[e] # Unborn),
           \A e \in Externals : Unsecured(e)' => Unsecured(e),
           bound' \in [Externals -> Ids \cup {NoId}], \A e \in Externals : bound'[e] \in {bound[e], NoId},
           locals' \in [Ids -> AclLevels \cup {Nobody}], gone \subseteq gone', gone' \subseteq Ids,
           Used \subseteq Used', \A i \in Ids : locals[i] # Nobody => locals'[i] # Nobody \/ i \in gone',
           \A t \in Visitors : \A i \in Reserved(visit[t]) : i \notin Used' /\ locals'[i] = Nobody,
           LoginsLeadToPeople', RemovedStayAway', StoresOK'
    PROVE  DirectoryInv'
<1>0. isolation' = isolation /\ backend' = backend /\ visit' = visit /\ mishaps' = mishaps /\ visits' = visits
    BY DEF Setting
<1>1. \A t \in Visitors : Sound(visit[t])'
  <2> SUFFICES ASSUME NEW t \in Visitors PROVE Sound(visit[t])'
      OBVIOUS
  <2> PICK r \in VisitRecords : r = visit[t]
      BY TypesOf
  <2>1. Sound(r) /\ Placed(r)
      BY TypesOf
  <2>2. Maker(r) => r.ext \in Externals /\ account[r.ext] # Unborn
    <3>1. Maker(r) => backend = "oidc" /\ r.ext \in Externals
        BY <2>1 DEF Sound, Shape, Maker, Placed, DirectoryInv, AccountsTypeOK
    <3> QED BY <2>1, <3>1 DEF Sound, RowsOK
  <2>3. \A e \in Externals : account[e] # Unborn => account'[e] # Unborn
      BY ProviderAssumption
  <2>4. DOMAIN r.wrote \subseteq Externals
      BY DEF VisitRecords, Bindings
  <2>5. Sound(r)'
      BY <1>0, <2>1, <2>2, <2>3, <2>4, OthersKeep
  <2> QED BY <1>0, <2>5
<1>2. \A t, u \in Visitors : t # u => Apart(visit[t], visit[u])'
  <2> SUFFICES ASSUME NEW u \in Visitors, NEW v \in Visitors, u # v
               PROVE  Apart(visit'[u], visit'[v])
      BY DEF Apart, Reserved, Maker
  <2> QED BY <1>0 DEF DirectoryInv
<1>3. VisitsOK'
    BY <1>0 DEF DirectoryInv, VisitsOK, Placed
<1>4. AccountsTypeOK'
    BY <1>0 DEF DirectoryInv, AccountsTypeOK
<1>5. SetupAdminsHavePasswords'
    BY <1>0 DEF DirectoryInv, AccountsSound, SetupAdminsHavePasswords, Unsecured
<1> QED BY <1>1, <1>2, <1>3, <1>4, <1>5 DEF DirectoryInv, AccountsSound

LEMMA AddLocalStep ==
    ASSUME DirectoryInv, AddLocal
    PROVE  DirectoryInv'
<1> PICK i \in FreshIds : i = CHOOSE j \in FreshIds : TRUE
    BY DEF AddLocal
<1>1. /\ locals' = [locals EXCEPT ![i] = "user"] /\ backend = "local"
      /\ UNCHANGED <<Setting, visit, mishaps, visits, account, bound, gone>>
    BY DEF AddLocal, Frame
<1>2. i \in Ids /\ i \notin Used /\ \A t \in Visitors : i \notin Reserved(visit[t])
    BY FreshAreFree
<1>3. /\ locals \in [Ids -> AclLevels \cup {Nobody}] /\ bound \in [Externals -> Ids \cup {NoId}]
      /\ account \in [Externals -> Accounts \cup {Unborn, Dropped}] /\ gone \subseteq Ids
    BY DEF DirectoryInv, AccountsTypeOK
<1>4. /\ locals' \in [Ids -> AclLevels \cup {Nobody}] /\ locals'[i] # Nobody
      /\ \A j \in Ids \ {i} : locals'[j] = locals[j]
    BY <1>1, <1>2, <1>3 DEF AclLevels, Nobody
<1>5. Used' = Used
    BY <1>1 DEF Used
<1>6. \A t \in Visitors : \A j \in Reserved(visit[t]) : j \notin Used' /\ locals'[j] = Nobody
  <2> SUFFICES ASSUME NEW t \in Visitors, NEW j \in Reserved(visit[t])
               PROVE  j \notin Used /\ locals'[j] = Nobody
      BY <1>5
  <2> PICK r \in VisitRecords : r = visit[t] /\ Sound(r)
      BY TypesOf
  <2>1. j \in Ids
      BY DEF Reserved, Sound, Shape, VisitRecords, Bindings
  <2> QED BY <1>2, <1>4, <2>1 DEF Sound, ReservedOK
<1>7. \A e \in Externals : Unsecured(e)' => Unsecured(e)
    BY <1>1 DEF Unsecured, Exists
<1>8. LoginsLeadToPeople'
    BY <1>1, <1>3, <1>4 DEF DirectoryInv, AccountsSound, LoginsLeadToPeople, Setting
<1>9. RemovedStayAway' /\ StoresOK'
    BY <1>1, <1>2, <1>3, <1>4 DEF DirectoryInv, AccountsSound, RemovedStayAway, StoresOK, Setting, Used
<1> QED BY <1>1, <1>3, <1>4, <1>5, <1>6, <1>7, <1>8, <1>9, BesideStep

LEMMA RemoveLocalStep ==
    ASSUME DirectoryInv, NEW i \in Ids, RemoveLocal(i)
    PROVE  DirectoryInv'
<1>1. /\ locals' = [locals EXCEPT ![i] = Nobody] /\ backend = "local" /\ locals[i] # Nobody
      /\ bound' = [e \in Externals |-> IF bound[e] = i THEN NoId ELSE bound[e]]
      /\ gone' = gone \cup {i}
      /\ UNCHANGED <<Setting, visit, mishaps, visits, account>>
    BY DEF RemoveLocal, Frame
<1>3. /\ locals \in [Ids -> AclLevels \cup {Nobody}] /\ bound \in [Externals -> Ids \cup {NoId}]
      /\ account \in [Externals -> Accounts \cup {Unborn, Dropped}] /\ gone \subseteq Ids
    BY DEF DirectoryInv, AccountsTypeOK
<1>4. /\ locals' \in [Ids -> AclLevels \cup {Nobody}] /\ locals'[i] = Nobody
      /\ \A j \in Ids \ {i} : locals'[j] = locals[j]
    BY <1>1, <1>3
<1>5. /\ bound' \in [Externals -> Ids \cup {NoId}] /\ \A e \in Externals : bound'[e] \in {bound[e], NoId}
      /\ \A e \in Externals : bound'[e] # i /\ (bound[e] # i => bound'[e] = bound[e])
    BY <1>1, <1>3, Names
<1>6. Used' = Used \cup {i}
    BY <1>1, <1>5, Names DEF Used
<1>7. \A t \in Visitors : \A j \in Reserved(visit[t]) : j \notin Used' /\ locals'[j] = Nobody
  <2> SUFFICES ASSUME NEW t \in Visitors, NEW j \in Reserved(visit[t])
               PROVE  j \notin Used' /\ locals'[j] = Nobody
      OBVIOUS
  <2> PICK r \in VisitRecords : r = visit[t] /\ Sound(r)
      BY TypesOf
  <2>1. j \in Ids /\ j \notin Used /\ locals[j] = Nobody
      BY DEF Reserved, Sound, Shape, VisitRecords, Bindings, ReservedOK
  <2> QED BY <1>1, <1>4, <1>6, <2>1
<1>8. \A e \in Externals : Unsecured(e)' => Unsecured(e)
    BY <1>1 DEF Unsecured, Exists
<1>9. LoginsLeadToPeople'
    BY <1>1, <1>3, <1>4, <1>5 DEF DirectoryInv, AccountsSound, LoginsLeadToPeople, Setting
<1>10. RemovedStayAway'
    BY <1>1, <1>3, <1>4, <1>5, Names DEF DirectoryInv, AccountsSound, RemovedStayAway, Setting
<1>11. StoresOK'
    BY <1>1 DEF StoresOK, Setting
<1>12. /\ Used \subseteq Used' /\ gone \subseteq gone' /\ gone' \subseteq Ids
       /\ \A j \in Ids : locals[j] # Nobody => locals'[j] # Nobody \/ j \in gone'
       /\ \A e \in Externals : account'[e] \in {account[e], Dropped}
    BY <1>1, <1>3, <1>4, <1>6
<1> QED BY <1>1, <1>3, <1>4, <1>5, <1>7, <1>8, <1>9, <1>10, <1>11, <1>12, BesideStep

(* The provider's own administrators.                                      *)
LEMMA AdministeredStep ==
    ASSUME DirectoryInv, NEW e \in Externals, NEW a \in Accounts \cup {Dropped}, backend = "oidc",
           account' = [account EXCEPT ![e] = a], a = Dropped \/ (account[e] = Unborn /\ a.password),
           UNCHANGED <<Setting, visit, mishaps, visits, Database>>
    PROVE  DirectoryInv'
<1>1. /\ account' \in [Externals -> Accounts \cup {Unborn, Dropped}]
      /\ account'[e] = a /\ \A d \in Externals \ {e} : account'[d] = account[d]
      /\ a # Unborn /\ \A d \in Externals : Unsecured(d)' => Unsecured(d)
  <2>1. ~ Unsecured(e)'
      BY Changed
  <2> QED BY <2>1, Changed
<1>2. \A d \in Externals : \/ account'[d] \in {account[d], Dropped}
                           \/ account[d] = Unborn /\ account'[d] # Unborn
    BY <1>1
<1>3. bound' = bound /\ locals' = locals /\ gone' = gone
    BY DEF Database
<1>4. Used' = Used
    BY <1>3 DEF Used
<1>5. \A t \in Visitors : \A i \in Reserved(visit[t]) : i \notin Used' /\ locals'[i] = Nobody
    BY <1>3, <1>4, TypesOf DEF Sound, ReservedOK
<1>6. LoginsLeadToPeople' /\ RemovedStayAway' /\ StoresOK'
    BY <1>1, <1>2, <1>3, ProviderAssumption
       DEF Setting, DirectoryInv, AccountsSound, LoginsLeadToPeople, RemovedStayAway, StoresOK
<1>7. bound \in [Externals -> Ids \cup {NoId}] /\ locals \in [Ids -> AclLevels \cup {Nobody}] /\ gone \subseteq Ids
    BY DEF DirectoryInv, AccountsTypeOK
<1> QED BY <1>1, <1>2, <1>3, <1>4, <1>5, <1>6, <1>7, BesideStep

LEMMA RegistersStep ==
    ASSUME DirectoryInv, NEW e \in Externals, NEW level \in AclLevels, Registers(e, level)
    PROVE  DirectoryInv'
<1> DEFINE new == [level |-> level, password |-> TRUE, maker |-> "provider"]
<1>1. new \in Accounts /\ new.password
    BY DEF Accounts
<1>2. /\ account' = [account EXCEPT ![e] = new] /\ backend = "oidc" /\ account[e] = Unborn
      /\ UNCHANGED <<Setting, visit, mishaps, visits, Database>>
    BY DEF Registers, Frame
<1> HIDE DEF new
<1> QED BY <1>1, <1>2, AdministeredStep

LEMMA DropsStep ==
    ASSUME DirectoryInv, NEW e \in Externals, Drops(e)
    PROVE  DirectoryInv'
<1>1. /\ account' = [account EXCEPT ![e] = Dropped] /\ backend = "oidc"
      /\ UNCHANGED <<Setting, visit, mishaps, visits, Database>>
    BY DEF Drops, Frame
<1> QED BY <1>1, AdministeredStep

-----------------------------------------------------------------------------
(* The whole                                                               *)

LEMMA DirectoryNext ==
    ASSUME DirectoryInv, [AccountsNext]_accountVars
    PROVE  DirectoryInv'
<1>1. CASE UNCHANGED accountVars
  <2>1. UNCHANGED <<Setting, visit, mishaps, visits, Database, account>>
      BY <1>1 DEF accountVars, Setting, Database
  <2>2. \A e \in Externals : Unsecured(e)' => Unsecured(e)
      BY <2>1 DEF Unsecured, Exists
  <2>3. bound' = bound /\ locals' = locals /\ gone' = gone
      BY <2>1 DEF Database
  <2>4. Used' = Used
      BY <2>3 DEF Used
  <2>5. \A t \in Visitors : \A i \in Reserved(visit[t]) : i \notin Used' /\ locals'[i] = Nobody
      BY <2>3, <2>4, TypesOf DEF Sound, ReservedOK
  <2>6. LoginsLeadToPeople' /\ RemovedStayAway' /\ StoresOK'
      BY <2>1, <2>3 DEF Setting, DirectoryInv, AccountsSound, LoginsLeadToPeople, RemovedStayAway, StoresOK
  <2>7. /\ bound \in [Externals -> Ids \cup {NoId}] /\ locals \in [Ids -> AclLevels \cup {Nobody}]
        /\ gone \subseteq Ids /\ account \in [Externals -> Accounts \cup {Unborn, Dropped}]
      BY DEF DirectoryInv, AccountsTypeOK
  <2> QED BY <2>1, <2>2, <2>3, <2>4, <2>5, <2>6, <2>7, BesideStep
<1>2. ASSUME NEW t \in Visitors,
             \/ \E op \in {"list", "setup"} : StartList(t, op)
             \/ Lookup(t) \/ Insert(t) \/ Bind(t) \/ EndList(t)
             \/ CreateInitialOidcAdmin(t) \/ StartAdd(t) \/ Post(t) \/ EndAdd(t)
      PROVE  DirectoryInv'
    BY <1>2, StartListStep, LookupStep, InsertStep, BindStep, EndListStep,
       CreateInitialOidcAdminStep, StartAddStep, PostStep, EndAddStep
<1>3. ASSUME NEW t \in Visitors,
             \/ Promote(t) \/ SetOidcPassword(t) \/ Compensate(t) \/ ReadBack(t)
             \/ \E e \in Externals : StartRemove(t, e)
             \/ Delete(t) \/ EndRemove(t)
      PROVE  DirectoryInv'
    BY <1>3, PromoteStep, SetOidcPasswordStep, CompensateStep, ReadBackStep,
       StartRemoveStep, DeleteStep, EndRemoveStep
<1>4. ASSUME NEW t \in Visitors,
             \/ \E e \in Externals, claim \in AclLevels \cup {Nobody} : StartLogin(t, e, claim)
             \/ Fetch(t) \/ ProvisionLocal(t) \/ EndLogin(t) \/ Crash(t)
      PROVE  DirectoryInv'
    BY <1>4, StartLoginStep, FetchStep, ProvisionLocalStep, EndLoginStep, CrashStep
<1>5. ASSUME AddLocal \/ \E i \in Ids : RemoveLocal(i)
      PROVE  DirectoryInv'
    BY <1>5, AddLocalStep, RemoveLocalStep
<1>6. ASSUME \/ \E e \in Externals, level \in AclLevels : Registers(e, level)
             \/ \E e \in Externals : Drops(e)
      PROVE  DirectoryInv'
    BY <1>6, RegistersStep, DropsStep
<1> QED BY <1>1, <1>2, <1>3, <1>4, <1>5, <1>6 DEF AccountsNext

THEOREM DirectoryInvariant == AccountsSpec => []DirectoryInv
<1>1. DirectoryInv /\ [AccountsNext]_accountVars => DirectoryInv'
    BY DirectoryNext
<1> QED BY <1>1, DirectoryInvInit, PTL DEF AccountsSpec

(* The types: no two accounts are bound to one identifier, and no row is   *)
(* being written by two requests.                                          *)
THEOREM AccountTypes == AccountsSpec => []AccountsTypeOK
<1>1. DirectoryInv => AccountsTypeOK
    BY DEF DirectoryInv
<1> QED BY <1>1, DirectoryInvariant, PTL

(* Accounts, bindings and people fit together, for any number of requests  *)
(* and accounts: administrators made by the setup can sign in unless a     *)
(* call was lost, a sign-in leads to a person, and the identifier of a     *)
(* removed person stays unused.                                            *)
THEOREM AccountsHold == AccountsSpec => []AccountsSound
<1>1. DirectoryInv => AccountsSound
    BY DEF DirectoryInv
<1> QED BY <1>1, DirectoryInvariant, PTL

(* What a step writes over a binding.                                      *)
LEMMA BindingsKept ==
    ASSUME DirectoryInv, [AccountsNext]_accountVars, NEW e \in Externals,
           bound[e] # NoId, bound'[e] \notin {NoId, bound[e]}
    PROVE  /\ isolation = "postgres"
           /\ \E t \in Visitors : visit[t].ext = e /\ visit[t].op \in {"add", "create"}
<1>1. ASSUME NEW t \in Visitors, NEW q, Commits(t, q)
      PROVE  isolation = "postgres" /\ visit[t].ext = e /\ visit[t].op \in {"add", "create"}
  <2> PICK r \in VisitRecords : r = visit[t] /\ Sound(r)
      BY TypesOf
  <2>1. e \in DOMAIN r.wrote /\ bound'[e] = r.wrote[e]
      BY <1>1, Commitment
  <2> QED BY <2>1 DEF Sound, RowsOK
<1>2. bound' # bound
    OBVIOUS
<1>3. ASSUME NEW t \in Visitors,
             \/ \E op \in {"list", "setup"} : StartList(t, op)
             \/ Lookup(t) \/ Insert(t) \/ Bind(t) \/ EndList(t)
             \/ CreateInitialOidcAdmin(t) \/ StartAdd(t) \/ Post(t) \/ EndAdd(t)
      PROVE  \E q : Commits(t, q)
    BY <1>2, <1>3 DEF StartList, Lookup, Insert, Bind, EndList, CreateInitialOidcAdmin, StartAdd,
                      Post, EndAdd, RollsBack, Lost, Refused, Database
<1>4. ASSUME NEW t \in Visitors,
             \/ Promote(t) \/ SetOidcPassword(t) \/ Compensate(t) \/ ReadBack(t)
             \/ \E d \in Externals : StartRemove(t, d)
             \/ Delete(t) \/ EndRemove(t)
      PROVE  \E q : Commits(t, q)
    BY <1>2, <1>4 DEF Promote, SetOidcPassword, Compensate, ReadBack, StartRemove, Delete, EndRemove,
                      RollsBack, Lost, Refused, Database
<1>5. ASSUME NEW t \in Visitors,
             \/ \E d \in Externals, claim \in AclLevels \cup {Nobody} : StartLogin(t, d, claim)
             \/ Fetch(t) \/ ProvisionLocal(t) \/ EndLogin(t) \/ Crash(t)
      PROVE  \E q : Commits(t, q)
    BY <1>2, <1>5 DEF StartLogin, Fetch, ProvisionLocal, EndLogin, Crash, RollsBack, Database
<1>6. ~ AddLocal /\ ~ \E i \in Ids : RemoveLocal(i)
    BY <1>2 DEF AddLocal, RemoveLocal
<1>7. ~ \E d \in Externals, level \in AclLevels : Registers(d, level)
    BY <1>2 DEF Registers, Database
<1>8. ~ \E d \in Externals : Drops(d)
    BY <1>2 DEF Drops, Database
<1>9. ~ UNCHANGED accountVars
    BY <1>2 DEF accountVars
<1>10. \E t \in Visitors : \E q : Commits(t, q)
    BY <1>3, <1>4, <1>5, <1>6, <1>7, <1>8, <1>9 DEF AccountsNext
<1> QED BY <1>1, <1>10

(* The identifier an account is bound to never becomes another one, with   *)
(* the one exception PostgreSQL allows.                                    *)
THEOREM IdentityKept == AccountsSpec => IdentityFixed
<1>1. DirectoryInv /\ [AccountsNext]_accountVars =>
          [\A e \in Externals :
             bound[e] # NoId /\ bound'[e] \notin {NoId, bound[e]} =>
                 /\ isolation = "postgres"
                 /\ \E t \in Visitors : visit[t].ext = e /\ visit[t].op \in {"add", "create"}]_accountVars
    BY BindingsKept
<1> QED BY <1>1, DirectoryInvariant, PTL DEF AccountsSpec, IdentityFixed

-----------------------------------------------------------------------------
(* The cache                                                               *)

CallRecords ==
    [op : {"none", "read", "rename", "profile", "remove"},
     step : {"none", "asking", "answered", "loaded", "saving", "deleting", "sent"},
     who : PersonObjects \cup {NoPerson}, level : Levels \cup {Gone}, ago : 0 .. Latency]

Entries == [who : PersonObjects \cup {NoPerson}, left : 0 .. TTL]

(* What each request is about.                                             *)
CallOK(c) ==
    /\ c.step \in {"answered", "loaded", "saving"} => c.who \in PersonObjects
    /\ c.op = "profile" \/ c.step = "saving" => c.level \in Levels

(* A Person is in one process: its cache and its requests share it.        *)
Separate ==
    /\ \A p, q \in Processes : p # q /\ cache[p].who = cache[q].who => cache[p].who = NoPerson
    /\ \A t \in Threads, p \in Processes :
           p # home[t] /\ cache[p].who = call[t].who => call[t].who = NoPerson
    /\ \A t, u \in Threads : home[t] # home[u] /\ call[t].who = call[u].who => call[t].who = NoPerson

(* What the provider has answered was so when it did.                      *)
AnswersAreRecent ==
    /\ directory # Gone => known[directory] = 0
    /\ \A t \in Threads : call[t].step = "answered" => known[person[call[t].who]] <= call[t].ago

EntriesAreFresh ==
    \A p \in Processes : cache[p].left > 0 =>
        /\ cache[p].who \in PersonObjects
        /\ known[person[cache[p].who]] + cache[p].left <= TTL + Latency
        /\ age[cache[p].who] # "outdated"

CacheStores ==
    /\ home \in [Threads -> Processes] /\ directory \in Levels \cup {Gone}
    /\ person \in [PersonObjects -> Levels]
    /\ cache \in [Processes -> Entries] /\ call \in [Threads -> CallRecords]
    /\ known \in [Levels -> 0 .. LongAgo] /\ age \in [PersonObjects -> {"new", "outdated", "raced"}]

CachedInv ==
    /\ CacheStores /\ \A t \in Threads : CallOK(call[t])
    /\ Separate /\ AnswersAreRecent /\ EntriesAreFresh

-----------------------------------------------------------------------------
(* The step leaves where a Person is referred to as it was: what a process *)
(* refers to afterwards, it referred to before.                            *)
LEMMA StaySeparate ==
    ASSUME CacheStores, Separate, home' = home,
           \A p \in Processes : \/ cache'[p].who \in {cache[p].who, NoPerson}
                                \/ \E t \in Threads : home[t] = p /\ cache'[p].who = call[t].who,
           \A t \in Threads : call'[t].who \in {call[t].who, NoPerson, cache[home[t]].who}
    PROVE  Separate'
<1>1. \A t \in Threads : home[t] \in Processes
    BY DEF CacheStores
<1>2. ASSUME NEW p \in Processes, NEW q \in Processes, p # q, cache'[p].who = cache'[q].who
      PROVE  cache'[p].who = NoPerson
    BY <1>1, <1>2 DEF Separate
<1>3. ASSUME NEW t \in Threads, NEW p \in Processes, p # home[t], cache'[p].who = call'[t].who
      PROVE  call'[t].who = NoPerson
    BY <1>1, <1>3 DEF Separate
<1>4. ASSUME NEW t \in Threads, NEW u \in Threads, home[t] # home[u], call'[t].who = call'[u].who
      PROVE  call'[t].who = NoPerson
    BY <1>1, <1>4 DEF Separate
<1> QED
    BY <1>2, <1>3, <1>4 DEF Separate

(* What is forgotten is what nobody refers to.                             *)
LEMMA ForgetsOthers ==
    ASSUME NEW objects \in [PersonObjects -> Levels],
           NEW ages \in [PersonObjects -> {"new", "outdated", "raced"}],
           FirstLevel \in Levels, Forgets(objects, ages)
    PROVE  /\ person' \in [PersonObjects -> Levels]
           /\ age' \in [PersonObjects -> {"new", "outdated", "raced"}]
           /\ \A p \in Processes : cache'[p].who \in PersonObjects =>
                  /\ person'[cache'[p].who] = objects[cache'[p].who]
                  /\ age'[cache'[p].who] = ages[cache'[p].who]
           /\ \A t \in Threads : call'[t].who \in PersonObjects =>
                  person'[call'[t].who] = objects[call'[t].who]
BY DEF Forgets

(* There is always a Person to decode an answer into.                      *)
LEMMA FreshIsFree ==
    ASSUME CacheStores
    PROVE  Fresh \in PersonObjects /\ Fresh \notin Referred
<1> DEFINE
      cached == {cache[p].who : p \in Processes}
      used   == {call[t].who : t \in Threads}
      f      == [p \in Processes |-> cache[p].who]
      g      == [t \in Threads |-> call[t].who]
<1>1. IsFiniteSet(Processes) /\ IsFiniteSet(Threads)
    BY CacheAssumption
<1>2. IsFiniteSet(cached) /\ Cardinality(cached) <= Cardinality(Processes)
  <2>1. f \in Surjection(Processes, cached)
      BY DEF Surjection
  <2> QED
      BY <1>1, <2>1, FS_Surjection
<1>3. IsFiniteSet(used) /\ Cardinality(used) <= Cardinality(Threads)
  <2>1. g \in Surjection(Threads, used)
      BY DEF Surjection
  <2> QED
      BY <1>1, <2>1, FS_Surjection
<1>4. /\ Cardinality(Processes) \in Nat /\ Cardinality(Threads) \in Nat
      /\ Cardinality(cached) \in Nat /\ Cardinality(used) \in Nat
    BY <1>1, <1>2, <1>3, FS_CardinalityType
<1> HIDE DEF f, g
<1>5. /\ IsFiniteSet(Referred)
      /\ Cardinality(Referred) = Cardinality(cached) + Cardinality(used) - Cardinality(cached \cap used)
  <2>1. Referred = cached \cup used
      BY DEF Referred
  <2> HIDE DEF cached, used
  <2> QED
      BY <1>2, <1>3, <2>1, FS_Union
<1>6. Cardinality(cached \cap used) \in Nat
  <2> HIDE DEF cached, used
  <2>1. IsFiniteSet(cached \cap used)
      BY <1>2, FS_Intersection
  <2> QED
      BY <2>1, FS_CardinalityType
<1> HIDE DEF cached, used
<1>7. /\ IsFiniteSet(PersonObjects)
      /\ Cardinality(PersonObjects) = Cardinality(Threads) + Cardinality(Processes) + 1
  <2>1. 1 \in Int /\ Cardinality(Threads) + Cardinality(Processes) + 1 \in Int
      BY <1>4
  <2> DEFINE n == Cardinality(Threads) + Cardinality(Processes) + 1
  <2>2. n >= 1 /\ n - 1 + 1 = n
      BY <1>4
  <2>3. PersonObjects = 1 .. n
      BY DEF PersonObjects
  <2> HIDE DEF n
  <2>4. n \in Int
      BY <2>1 DEF n
  <2>5. IsFiniteSet(1 .. n) /\ Cardinality(1 .. n) = IF 1 > n THEN 0 ELSE n - 1 + 1
      BY <2>4, FS_Interval
  <2> QED
      BY <2>2, <2>3, <2>4, <2>5 DEF n
<1>8. ~ PersonObjects \subseteq Referred
  <2> SUFFICES ASSUME PersonObjects \subseteq Referred PROVE FALSE
      OBVIOUS
  <2>1. Cardinality(PersonObjects) <= Cardinality(Referred)
      BY <1>5, FS_Subset
  <2> QED
      BY <1>2, <1>3, <1>4, <1>5, <1>6, <1>7, <2>1
<1>9. \E x \in PersonObjects : x \notin Referred
    BY <1>8
<1> QED
    BY <1>9 DEF Fresh

-----------------------------------------------------------------------------
(* The steps.                                                              *)

(* How long ago, and how long still, are numbers.                          *)
LEMMA CacheNumbers == TTL \in Nat /\ Latency \in Nat /\ LongAgo \in Nat /\ TTL + Latency < LongAgo
BY CacheAssumption DEF LongAgo

(* A step that refers to what was referred to, forgets the rest, lets no   *)
(* answer arrive and starts no entry keeps every answer and entry as fresh *)
(* as it was.                                                              *)
LEMMA QuietCacheStep ==
    ASSUME CachedInv, NEW t \in Threads, NEW c \in CallRecords, CallOK(c),
           c.step # "answered", c.who \in {call[t].who, NoPerson, cache[home[t]].who},
           Calls(t, c), home' = home, directory' \in Levels \cup {Gone},
           cache' \in {cache, CacheInvalidate(home[t])},
           \/ known' = known /\ directory' = directory
           \/ known' = known /\ directory' = Gone
           \/ directory' \in Levels /\ known' = Remember(directory'),
           \/ UNCHANGED <<person, age>>
           \/ Forgets(person, age)
    PROVE  CachedInv'
<1>0. PICK p \in Processes : p = home[t]
    BY DEF CachedInv, CacheStores
<1>1. /\ call' \in [Threads -> CallRecords] /\ \A u \in Threads : CallOK(call'[u])
      /\ call'[t] = c /\ \A u \in Threads \ {t} : call'[u] = call[u]
    BY DEF CachedInv, CacheStores, Calls
<1>2. /\ cache' \in [Processes -> Entries]
      /\ \A q \in Processes : cache'[q] \in {cache[q], NoEntry}
  <2>1. NoEntry \in Entries
      BY CacheNumbers DEF NoEntry, Entries
  <2> QED
      BY <1>0, <2>1 DEF CachedInv, CacheStores, CacheInvalidate
<1>3. /\ person' \in [PersonObjects -> Levels]
      /\ age' \in [PersonObjects -> {"new", "outdated", "raced"}]
      /\ \A q \in Processes : cache'[q].who \in PersonObjects =>
             /\ person'[cache'[q].who] = person[cache'[q].who]
             /\ age'[cache'[q].who] = age[cache'[q].who]
      /\ \A u \in Threads : call'[u].who \in PersonObjects =>
             person'[call'[u].who] = person[call'[u].who]
  <2>1. /\ person \in [PersonObjects -> Levels] /\ age \in [PersonObjects -> {"new", "outdated", "raced"}]
        /\ FirstLevel \in Levels
      BY CacheAssumption DEF CachedInv, CacheStores
  <2>2. CASE UNCHANGED <<person, age>>
      BY <2>1, <2>2
  <2>3. CASE Forgets(person, age)
      BY <2>1, <2>3, ForgetsOthers
  <2> QED
      BY <2>2, <2>3
<1>4. /\ known' \in [Levels -> 0 .. LongAgo]
      /\ \A l \in Levels : known'[l] <= known[l]
      /\ directory' # Gone => known'[directory'] = 0
    BY CacheNumbers DEF CachedInv, CacheStores, AnswersAreRecent, Remember
<1>5. CacheStores'
    BY <1>1, <1>2, <1>3, <1>4 DEF CachedInv, CacheStores
<1>6. Separate'
  <2>1. \A q \in Processes : cache'[q].who \in {cache[q].who, NoPerson}
      BY <1>2 DEF NoEntry
  <2>2. \A u \in Threads : call'[u].who \in {call[u].who, NoPerson, cache[home[u]].who}
      BY <1>1
  <2> QED
      BY <2>1, <2>2, StaySeparate DEF CachedInv
<1>7. AnswersAreRecent'
  <2>1. ASSUME NEW u \in Threads, call'[u].step = "answered"
        PROVE  known'[person'[call'[u].who]] <= call'[u].ago
    <3>1. u # t /\ call'[u] = call[u]
        BY <1>1, <2>1
    <3>2. call[u].who \in PersonObjects
        BY <2>1, <3>1 DEF CachedInv, CallOK
    <3>3. person'[call[u].who] = person[call[u].who] /\ person[call[u].who] \in Levels
        BY <1>3, <3>1, <3>2 DEF CachedInv, CacheStores
    <3>4. PICK l \in Levels : l = person[call[u].who]
        BY <3>3
    <3>5. known[l] <= call[u].ago
        BY <2>1, <3>1, <3>4 DEF CachedInv, AnswersAreRecent
    <3>6. known'[l] <= known[l] /\ known[l] \in Nat /\ known'[l] \in Nat /\ call[u].ago \in Nat
        BY <1>4, CacheNumbers DEF CachedInv, CacheStores, CallRecords
    <3> QED
        BY <3>1, <3>3, <3>4, <3>5, <3>6
  <2> QED
      BY <1>4, <2>1 DEF AnswersAreRecent
<1>8. EntriesAreFresh'
  <2> SUFFICES ASSUME NEW q \in Processes, cache'[q].left > 0
               PROVE  /\ cache'[q].who \in PersonObjects
                      /\ known'[person'[cache'[q].who]] + cache'[q].left <= TTL + Latency
                      /\ age'[cache'[q].who] # "outdated"
      BY DEF EntriesAreFresh
  <2>1. cache'[q] = cache[q]
      BY <1>2 DEF NoEntry
  <2>2. cache[q].who \in PersonObjects /\ age[cache[q].who] # "outdated"
      BY <2>1 DEF CachedInv, EntriesAreFresh
  <2>3. PICK l \in Levels : l = person[cache[q].who]
      BY <2>2 DEF CachedInv, CacheStores
  <2>4. known[l] + cache[q].left <= TTL + Latency
      BY <2>1, <2>3 DEF CachedInv, EntriesAreFresh
  <2>5. known'[l] <= known[l] /\ known[l] \in Nat /\ known'[l] \in Nat /\ cache[q].left \in Nat
      BY <1>4, CacheNumbers DEF CachedInv, CacheStores, Entries
  <2> QED
      BY <1>3, <2>1, <2>2, <2>3, <2>4, <2>5, CacheNumbers
<1> QED
    BY <1>1, <1>5, <1>6, <1>7, <1>8 DEF CachedInv

LEMMA BeginCaches ==
    ASSUME CachedInv, NEW t \in Threads,
           NEW op \in {"read", "rename", "profile", "remove"}, NEW level \in Levels \cup {Gone},
           Begin(t, op, level)
    PROVE  CachedInv'
<1> DEFINE hit == CacheGet(home[t]).who
           start == [Resting EXCEPT !.op = op, !.level = level]
           c == IF op = "remove" THEN [start EXCEPT !.step = "deleting"]
                ELSE IF hit # NoPerson THEN [start EXCEPT !.step = "loaded", !.who = hit]
                ELSE [start EXCEPT !.step = "asking"]
<1>1. PICK p \in Processes : p = home[t]
    BY DEF CachedInv, CacheStores
<1>2. hit \in {cache[p].who, NoPerson} /\ hit \in PersonObjects \cup {NoPerson}
    BY <1>1 DEF CacheGet, NoEntry, CachedInv, CacheStores, Entries
<1> HIDE DEF hit
<1>3. c \in CallRecords
  <2>1. Resting \in CallRecords
      BY CacheNumbers DEF CallRecords, Resting
  <2>2. start \in CallRecords
      BY <2>1 DEF CallRecords
  <2> HIDE DEF start
  <2> QED
      BY <1>2, <2>2 DEF CallRecords
<1>4. CallOK(c) /\ c.step # "answered" /\ c.who \in {call[t].who, NoPerson, cache[home[t]].who}
  <2>1. op = "profile" => level \in Levels
      BY DEF Begin
  <2> QED
      BY <1>1, <1>2, <2>1 DEF CallOK, Resting
<1>5. Calls(t, c)
    BY DEF Begin, Calls, hit
<1>6. cache' \in {cache, CacheInvalidate(home[t])} /\ Forgets(person, age)
    BY DEF Begin
<1>7. home' = home /\ directory' = directory /\ known' = known /\ directory \in Levels \cup {Gone}
    BY DEF Begin, CachedInv, CacheStores
<1> HIDE DEF c
<1> QED
    BY <1>3, <1>4, <1>5, <1>6, <1>7, QuietCacheStep

(* The request that rests, whatever has become of the account.             *)
LEMMA RestsCaches ==
    ASSUME CachedInv, NEW t \in Threads, Rests(t), home' = home, directory' \in Levels \cup {Gone},
           \/ known' = known /\ directory' = directory
           \/ known' = known /\ directory' = Gone
           \/ directory' \in Levels /\ known' = Remember(directory')
    PROVE  CachedInv'
<1>1. Resting \in CallRecords /\ CallOK(Resting) /\ Resting.step # "answered" /\ Resting.who = NoPerson
    BY CacheNumbers DEF Resting, CallRecords, CallOK
<1>2. Calls(t, Resting) /\ cache' = cache /\ Forgets(person, age)
    BY DEF Rests
<1> QED
    BY <1>1, <1>2, QuietCacheStep

LEMMA DecidesCaches ==
    ASSUME CachedInv, NEW t \in Threads, Decides(t)
    PROVE  CachedInv'
BY RestsCaches DEF Decides, CachedInv, CacheStores

LEMMA SendsCaches ==
    ASSUME CachedInv, NEW t \in Threads, Sends(t)
    PROVE  CachedInv'
<1> DEFINE sent == [call[t] EXCEPT !.step = "sent"]
           level == IF call[t].step = "saving" THEN call[t].level ELSE Gone
<1>1. call[t] \in CallRecords /\ CallOK(call[t]) /\ directory \in Levels \cup {Gone}
    BY DEF CachedInv, CacheStores
<1>2. sent \in CallRecords /\ sent.step # "answered" /\ sent.who = call[t].who
    BY <1>1 DEF CallRecords
<1>3. CallOK(sent)
    BY <1>1 DEF CallOK, CallRecords
<1>4. level \in Levels \cup {Gone}
    BY <1>1 DEF CallOK
<1>5. CASE directory # Gone /\ IsNow(level) /\ Calls(t, sent) /\ UNCHANGED <<cache, person, age>>
  <2>1. directory' = level /\ home' = home
      BY <1>5 DEF IsNow, Sends
  <2>2. IF level = Gone THEN known' = known ELSE directory' \in Levels /\ known' = Remember(directory')
      BY <1>4, <1>5, <2>1 DEF IsNow
  <2> HIDE DEF sent, level
  <2> QED
      BY <1>2, <1>3, <1>4, <1>5, <2>1, <2>2, QuietCacheStep
<1>6. CASE directory # Gone /\ IsNow(level) /\ Rests(t)
  <2>1. directory' = level /\ home' = home
      BY <1>6 DEF IsNow, Sends
  <2>2. IF level = Gone THEN known' = known ELSE directory' \in Levels /\ known' = Remember(directory')
      BY <1>4, <1>6, <2>1 DEF IsNow
  <2> HIDE DEF sent, level
  <2> QED
      BY <1>4, <1>6, <2>1, <2>2, RestsCaches
<1>7. CASE Rests(t) /\ UNCHANGED <<directory, known>>
  <2>1. home' = home
      BY DEF Sends
  <2> QED
      BY <1>1, <1>7, <2>1, RestsCaches
<1> QED
    BY <1>5, <1>6, <1>7 DEF Sends

(* The account changes at the provider, and nothing else does.             *)
LEMMA AdministersCaches ==
    ASSUME CachedInv, NEW level \in Levels \cup {Gone}, Administers(level)
    PROVE  CachedInv'
<1>1. /\ UNCHANGED <<home, person, cache, call, age>> /\ directory' = level
      /\ known' = IF level = Gone THEN known ELSE Remember(level)
    BY DEF Administers, IsNow
<1>2. /\ known' \in [Levels -> 0 .. LongAgo]
      /\ \A l \in Levels : known'[l] <= known[l]
      /\ directory' # Gone => known'[directory'] = 0
    BY <1>1, CacheNumbers DEF CachedInv, CacheStores, Remember
<1>3. CacheStores' /\ (\A t \in Threads : CallOK(call'[t])) /\ Separate'
    BY <1>1, <1>2 DEF CachedInv, CacheStores, Separate
<1>4. AnswersAreRecent'
  <2>1. ASSUME NEW u \in Threads, call[u].step = "answered"
        PROVE  known'[person[call[u].who]] <= call[u].ago
    <3>1. PICK l \in Levels : l = person[call[u].who]
        BY <2>1 DEF CachedInv, CacheStores, CallOK
    <3>2. known[l] <= call[u].ago
        BY <2>1, <3>1 DEF CachedInv, AnswersAreRecent
    <3>3. known'[l] <= known[l] /\ known[l] \in Nat /\ known'[l] \in Nat /\ call[u].ago \in Nat
        BY <1>2, CacheNumbers DEF CachedInv, CacheStores, CallRecords
    <3> QED
        BY <3>1, <3>2, <3>3
  <2> QED
      BY <1>1, <1>2, <2>1 DEF AnswersAreRecent
<1>5. EntriesAreFresh'
  <2> SUFFICES ASSUME NEW q \in Processes, cache[q].left > 0
               PROVE  known'[person[cache[q].who]] + cache[q].left <= TTL + Latency
      BY <1>1 DEF EntriesAreFresh, CachedInv
  <2>1. cache[q].who \in PersonObjects
      BY DEF CachedInv, EntriesAreFresh
  <2>2. PICK l \in Levels : l = person[cache[q].who]
      BY <2>1 DEF CachedInv, CacheStores
  <2>3. known[l] + cache[q].left <= TTL + Latency
      BY <2>2 DEF CachedInv, EntriesAreFresh
  <2>4. known'[l] <= known[l] /\ known[l] \in Nat /\ known'[l] \in Nat /\ cache[q].left \in Nat
      BY <1>2, CacheNumbers DEF CachedInv, CacheStores, Entries
  <2> QED
      BY <2>2, <2>3, <2>4, CacheNumbers
<1> QED
    BY <1>1, <1>3, <1>4, <1>5 DEF CachedInv

(* The provider answers: into a Person nobody refers to, or not at all.    *)
LEMMA AnswersCaches ==
    ASSUME CachedInv, NEW t \in Threads, Answers(t)
    PROVE  CachedInv'
<1>1. CASE directory = Gone
  <2>1. Resting \in CallRecords /\ CallOK(Resting) /\ Resting.step # "answered" /\ Resting.who = NoPerson
      BY CacheNumbers DEF Resting, CallRecords, CallOK
  <2>2. /\ Calls(t, Resting) /\ UNCHANGED <<home, directory, cache, known, age, person>>
        /\ directory \in Levels \cup {Gone}
      BY <1>1 DEF Answers, CachedInv, CacheStores
  <2> QED
      BY <2>1, <2>2, QuietCacheStep
<1>2. CASE directory # Gone
  <2> DEFINE c == [call[t] EXCEPT !.step = "answered", !.who = Fresh]
  <2>1. /\ Calls(t, c) /\ person' = [person EXCEPT ![Fresh] = directory]
        /\ UNCHANGED <<home, directory, cache, known, age>> /\ directory \in Levels
      BY <1>2 DEF Answers, CachedInv, CacheStores
  <2>2. PICK x \in PersonObjects : x = Fresh /\ x \notin Referred
      BY FreshIsFree DEF CachedInv
  <2>3. x # NoPerson /\ x \in Nat
      BY DEF PersonObjects, NoPerson
  <2>4. c \in CallRecords /\ CallOK(c) /\ c.who = x /\ c.ago = call[t].ago
      BY <2>2 DEF CachedInv, CacheStores, CallRecords, CallOK
  <2>5. /\ call' \in [Threads -> CallRecords] /\ \A u \in Threads : CallOK(call'[u])
        /\ call'[t] = c /\ \A u \in Threads \ {t} : call'[u] = call[u]
      BY <2>1, <2>4 DEF CachedInv, CacheStores, Calls
  <2>6. /\ person' \in [PersonObjects -> Levels] /\ person'[x] = directory
        /\ \A y \in PersonObjects \ {x} : person'[y] = person[y]
      BY <2>1, <2>2 DEF CachedInv, CacheStores
  <2>7. (\A p \in Processes : cache[p].who # x) /\ (\A u \in Threads : call[u].who # x)
      BY <2>2 DEF Referred
  <2> HIDE DEF c
  <2>8. CacheStores'
      BY <2>1, <2>5, <2>6 DEF CachedInv, CacheStores
  <2>9. Separate'
    <3>1. \A p \in Processes, u \in Threads :
              p # home[u] /\ cache[p].who = call'[u].who => call'[u].who = NoPerson
        BY <2>4, <2>5, <2>7 DEF CachedInv, Separate
    <3>2. \A u, v \in Threads :
              home[u] # home[v] /\ call'[u].who = call'[v].who => call'[u].who = NoPerson
        BY <2>4, <2>5, <2>7 DEF CachedInv, Separate
    <3> QED
        BY <2>1, <3>1, <3>2 DEF CachedInv, Separate
  <2>10. AnswersAreRecent'
    <3>1. known[directory] = 0
        BY <1>2 DEF CachedInv, AnswersAreRecent
    <3>2. ASSUME NEW u \in Threads, call'[u].step = "answered"
          PROVE  known[person'[call'[u].who]] <= call'[u].ago
      <4>1. CASE u = t
        <5>1. call'[u].ago \in Nat
            BY <2>5, CacheNumbers DEF CallRecords
        <5> QED
            BY <2>4, <2>5, <2>6, <3>1, <4>1, <5>1
      <4>2. CASE u # t
        <5>1. call'[u] = call[u] /\ call[u].who \in PersonObjects /\ call[u].who # x
            BY <2>5, <2>7, <3>2, <4>2 DEF CachedInv, CallOK
        <5> QED
            BY <2>6, <3>2, <5>1 DEF CachedInv, AnswersAreRecent
      <4> QED
          BY <4>1, <4>2
    <3> QED
        BY <2>1, <3>1, <3>2 DEF AnswersAreRecent
  <2>11. EntriesAreFresh'
      BY <2>1, <2>6, <2>7 DEF CachedInv, EntriesAreFresh
  <2> QED
      BY <2>5, <2>8, <2>9, <2>10, <2>11 DEF CachedInv
<1> QED
    BY <1>1, <1>2

(* The answer is cached when it arrives, and is no older than its way.     *)
LEMMA ReceivesCaches ==
    ASSUME CachedInv, NEW t \in Threads, Receives(t)
    PROVE  CachedInv'
<1> DEFINE c    == [call[t] EXCEPT !.step = "loaded", !.ago = 0]
           who  == call[t].who
           ages == [age EXCEPT ![who] = IF @ = "outdated" THEN "raced" ELSE @]
<1>1. /\ call[t].step = "answered" /\ Calls(t, c) /\ cache' = CachePut(home[t], who)
      /\ Forgets(person, ages) /\ UNCHANGED <<home, directory, known>>
    BY DEF Receives, At
<1>2. PICK p \in Processes : p = home[t]
    BY DEF CachedInv, CacheStores
<1>3. PICK x \in PersonObjects : x = who
    BY <1>1 DEF CachedInv, CallOK
<1>4. c \in CallRecords /\ CallOK(c) /\ c.who = who /\ c.step # "answered"
  <2>1. call[t] \in CallRecords /\ CallOK(call[t]) /\ 0 \in 0 .. Latency
      BY CacheNumbers DEF CachedInv, CacheStores
  <2>2. c \in CallRecords /\ c.who = who /\ c.step = "loaded" /\ c.op = call[t].op /\ c.level = call[t].level
      BY <2>1 DEF CallRecords
  <2> QED
      BY <1>1, <2>1, <2>2 DEF CallOK
<1>5. /\ call' \in [Threads -> CallRecords] /\ \A u \in Threads : CallOK(call'[u])
      /\ call'[t] = c /\ \A u \in Threads \ {t} : call'[u] = call[u]
    BY <1>1, <1>4 DEF CachedInv, CacheStores, Calls
<1>6. /\ ages \in [PersonObjects -> {"new", "outdated", "raced"}]
      /\ ages[x] # "outdated" /\ \A y \in PersonObjects \ {x} : ages[y] = age[y]
    BY <1>3 DEF CachedInv, CacheStores
<1>7. /\ cache' \in [Processes -> Entries]
      /\ cache'[p] = IF TTL > 0 THEN [who |-> x, left |-> TTL] ELSE cache[p]
      /\ \A q \in Processes \ {p} : cache'[q] = cache[q]
  <2>1. [who |-> x, left |-> TTL] \in Entries
      BY CacheNumbers DEF Entries
  <2> QED
      BY <1>1, <1>2, <1>3, <2>1 DEF CachedInv, CacheStores, CachePut
<1> HIDE DEF c, ages
<1>8. /\ person' \in [PersonObjects -> Levels]
      /\ age' \in [PersonObjects -> {"new", "outdated", "raced"}]
      /\ \A q \in Processes : cache'[q].who \in PersonObjects =>
             /\ person'[cache'[q].who] = person[cache'[q].who]
             /\ age'[cache'[q].who] = ages[cache'[q].who]
      /\ \A u \in Threads : call'[u].who \in PersonObjects =>
             person'[call'[u].who] = person[call'[u].who]
  <2>1. person \in [PersonObjects -> Levels] /\ FirstLevel \in Levels
      BY CacheAssumption DEF CachedInv, CacheStores
  <2> QED
      BY <1>1, <1>6, <2>1, ForgetsOthers
<1>9. CacheStores'
    BY <1>1, <1>5, <1>7, <1>8 DEF CachedInv, CacheStores
<1>10. Separate'
  <2>1. \A q \in Processes : \/ cache'[q].who \in {cache[q].who, NoPerson}
                             \/ \E u \in Threads : home[u] = q /\ cache'[q].who = call[u].who
      BY <1>2, <1>3, <1>7
  <2>2. \A u \in Threads : call'[u].who \in {call[u].who, NoPerson, cache[home[u]].who}
      BY <1>4, <1>5
  <2> QED
      BY <1>1, <2>1, <2>2, StaySeparate DEF CachedInv
<1>11. AnswersAreRecent'
  <2>1. ASSUME NEW u \in Threads, call'[u].step = "answered"
        PROVE  known[person'[call'[u].who]] <= call'[u].ago
    <3>1. call'[u] = call[u]
        BY <1>4, <1>5, <2>1
    <3>2. call[u].who \in PersonObjects
        BY <2>1, <3>1 DEF CachedInv, CallOK
    <3> QED
        BY <1>8, <2>1, <3>1, <3>2 DEF CachedInv, AnswersAreRecent
  <2> QED
      BY <1>1, <2>1 DEF CachedInv, AnswersAreRecent
<1>12. EntriesAreFresh'
  <2> SUFFICES ASSUME NEW q \in Processes, cache'[q].left > 0
               PROVE  /\ cache'[q].who \in PersonObjects
                      /\ known[person'[cache'[q].who]] + cache'[q].left <= TTL + Latency
                      /\ age'[cache'[q].who] # "outdated"
      BY <1>1 DEF EntriesAreFresh
  <2>1. CASE cache'[q] = cache[q]
    <3>1. cache[q].who \in PersonObjects /\ age[cache[q].who] # "outdated"
        BY <2>1 DEF CachedInv, EntriesAreFresh
    <3>2. ages[cache[q].who] # "outdated"
        BY <1>6, <3>1
    <3> QED
        BY <1>8, <2>1, <3>1, <3>2 DEF CachedInv, EntriesAreFresh
  <2>2. CASE cache'[q] = [who |-> x, left |-> TTL]
    <3>1. PICK l \in Levels : l = person[x]
        BY DEF CachedInv, CacheStores
    <3>2. known[l] <= call[t].ago
        BY <1>1, <1>3, <3>1 DEF CachedInv, AnswersAreRecent
    <3>3. known[l] \in Nat /\ call[t].ago \in Nat /\ call[t].ago <= Latency
        BY CacheNumbers DEF CachedInv, CacheStores, CallRecords
    <3>4. known[l] + TTL <= TTL + Latency
        BY <3>2, <3>3, CacheNumbers
    <3> QED
        BY <1>6, <1>8, <2>2, <3>1, <3>4
  <2> QED
      BY <1>7, <2>1, <2>2
<1> QED
    BY <1>5, <1>9, <1>10, <1>11, <1>12 DEF CachedInv

(* The Person is changed where it is: the level asked for is known now.    *)
LEMMA ChangesCaches ==
    ASSUME CachedInv, NEW t \in Threads, Changes(t)
    PROVE  CachedInv'
<1>1. PICK x \in PersonObjects : x = call[t].who
    BY DEF Changes, At, CachedInv, CallOK
<1>2. /\ call[t] \in CallRecords /\ CallOK(call[t]) /\ call[t].step = "loaded"
      /\ UNCHANGED <<home, directory, cache, age>>
      /\ Calls(t, [call[t] EXCEPT !.step = "saving", !.level = person'[x]])
    BY <1>1 DEF Changes, At, CachedInv, CacheStores
<1>3. /\ person' \in [PersonObjects -> Levels] /\ known' \in [Levels -> 0 .. LongAgo]
      /\ \A y \in PersonObjects : known'[person'[y]] <= known[person[y]]
      /\ \A l \in Levels : known'[l] <= known[l]
  <2>1. CASE call[t].op = "profile"
    <3>1. PICK level \in Levels : level = call[t].level
        BY <1>2, <2>1 DEF CallOK
    <3>2. person' = [person EXCEPT ![x] = level] /\ known' = [known EXCEPT ![level] = 0]
        BY <1>1, <2>1, <3>1 DEF Changes, Remember
    <3>3. /\ person' \in [PersonObjects -> Levels] /\ person'[x] = level
          /\ \A y \in PersonObjects \ {x} : person'[y] = person[y]
        BY <3>2 DEF CachedInv, CacheStores
    <3>4. /\ known' \in [Levels -> 0 .. LongAgo] /\ known'[level] = 0
          /\ \A l \in Levels : known[l] \in Nat /\ known'[l] <= known[l]
        BY <3>2, CacheNumbers DEF CachedInv, CacheStores
    <3>5. ASSUME NEW y \in PersonObjects
          PROVE  known'[person'[y]] <= known[person[y]]
      <4>1. PICK l \in Levels : l = person[y]
          BY DEF CachedInv, CacheStores
      <4> QED
          BY <3>3, <3>4, <4>1
    <3> QED
        BY <3>3, <3>4, <3>5
  <2>2. CASE call[t].op # "profile"
    <3>1. person' = person /\ known' = known
        BY <2>2 DEF Changes
    <3>2. \A l \in Levels : known[l] \in Nat
        BY CacheNumbers DEF CachedInv, CacheStores
    <3>3. \A y \in PersonObjects : person[y] \in Levels
        BY DEF CachedInv, CacheStores
    <3> QED
        BY <3>1, <3>2, <3>3 DEF CachedInv, CacheStores
  <2> QED
      BY <2>1, <2>2
<1> DEFINE c == [call[t] EXCEPT !.step = "saving", !.level = person'[x]]
<1>4. c \in CallRecords /\ c.who = x /\ c.step = "saving" /\ c.level \in Levels
    BY <1>1, <1>2, <1>3 DEF CallRecords
<1>5. CallOK(c)
    BY <1>4 DEF CallOK
<1>6. /\ call' \in [Threads -> CallRecords] /\ \A u \in Threads : CallOK(call'[u])
      /\ call'[t] = c /\ \A u \in Threads \ {t} : call'[u] = call[u]
    BY <1>2, <1>4, <1>5 DEF CachedInv, CacheStores, Calls
<1> HIDE DEF c
<1>7. CacheStores'
    BY <1>2, <1>3, <1>6 DEF CachedInv, CacheStores
<1>8. Separate'
  <2>1. \A u \in Threads : call'[u].who = call[u].who
      BY <1>1, <1>4, <1>6
  <2> QED
      BY <1>2, <2>1 DEF CachedInv, Separate
<1>9. AnswersAreRecent'
  <2>1. ASSUME NEW u \in Threads, call'[u].step = "answered"
        PROVE  known'[person'[call'[u].who]] <= call'[u].ago
    <3>1. call'[u] = call[u]
        BY <1>4, <1>6, <2>1
    <3>2. PICK y \in PersonObjects : y = call[u].who
        BY <2>1, <3>1 DEF CachedInv, CallOK
    <3>3. known[person[y]] <= call[u].ago
        BY <2>1, <3>1, <3>2 DEF CachedInv, AnswersAreRecent
    <3>4. known'[person'[y]] <= known[person[y]]
        BY <1>3
    <3>5. known'[person'[y]] \in Nat /\ known[person[y]] \in Nat /\ call[u].ago \in Nat
        BY <1>3, CacheNumbers DEF CachedInv, CacheStores, CallRecords
    <3> QED
        BY <3>1, <3>2, <3>3, <3>4, <3>5
  <2>2. directory # Gone => known'[directory] = 0
    <3>1. ASSUME directory # Gone PROVE known'[directory] = 0
      <4>1. PICK l \in Levels : l = directory
          BY <3>1 DEF CachedInv, CacheStores
      <4>2. known[l] = 0 /\ known'[l] <= known[l] /\ known'[l] \in Nat
          BY <1>3, <3>1, <4>1, CacheNumbers DEF CachedInv, AnswersAreRecent
      <4> QED
          BY <4>1, <4>2
    <3> QED
        BY <3>1
  <2> QED
      BY <1>2, <2>1, <2>2 DEF AnswersAreRecent
<1>10. EntriesAreFresh'
  <2> SUFFICES ASSUME NEW q \in Processes, cache[q].left > 0
               PROVE  known'[person'[cache[q].who]] + cache[q].left <= TTL + Latency
      BY <1>2 DEF CachedInv, EntriesAreFresh
  <2>1. PICK y \in PersonObjects : y = cache[q].who
      BY DEF CachedInv, EntriesAreFresh
  <2>2. known[person[y]] + cache[q].left <= TTL + Latency
      BY <2>1 DEF CachedInv, EntriesAreFresh
  <2>3. known'[person'[y]] <= known[person[y]]
      BY <1>3
  <2>4. known'[person'[y]] \in Nat /\ known[person[y]] \in Nat /\ cache[q].left \in Nat
      BY <1>3, CacheNumbers DEF CachedInv, CacheStores, Entries
  <2> QED
      BY <2>1, <2>2, <2>3, <2>4, CacheNumbers
<1> QED
    BY <1>6, <1>7, <1>8, <1>9, <1>10 DEF CachedInv

(* A save returns: what its process refers to is outdated and its entry    *)
(* goes; no other process refers to it.                                    *)
LEMMA SavedCaches ==
    ASSUME CachedInv, NEW t \in Threads, Saved(t)
    PROVE  CachedInv'
<1> DEFINE ages == [x \in PersonObjects |-> IF x \in InProcess(t) THEN "outdated" ELSE age[x]]
<1>1. PICK p \in Processes : p = home[t]
    BY DEF CachedInv, CacheStores
<1>2. /\ Calls(t, Resting) /\ cache' = CacheInvalidate(p) /\ Forgets(person, ages)
      /\ UNCHANGED <<home, directory, known>>
    BY <1>1 DEF Saved
<1>3. Resting \in CallRecords /\ CallOK(Resting) /\ Resting.step # "answered" /\ Resting.who = NoPerson
    BY CacheNumbers DEF Resting, CallRecords, CallOK
<1>4. /\ call' \in [Threads -> CallRecords] /\ \A u \in Threads : CallOK(call'[u])
      /\ call'[t] = Resting /\ \A u \in Threads \ {t} : call'[u] = call[u]
    BY <1>2, <1>3 DEF CachedInv, CacheStores, Calls
<1>5. /\ cache' \in [Processes -> Entries] /\ cache'[p] = NoEntry
      /\ \A q \in Processes \ {p} : cache'[q] = cache[q]
  <2>1. NoEntry \in Entries
      BY CacheNumbers DEF NoEntry, Entries
  <2> QED
      BY <1>2, <2>1 DEF CachedInv, CacheStores, CacheInvalidate
<1>6. ages \in [PersonObjects -> {"new", "outdated", "raced"}]
    BY DEF CachedInv, CacheStores
<1>7. \A q \in Processes \ {p} : cache[q].who \in PersonObjects => cache[q].who \notin InProcess(t)
  <2>1. \A x \in PersonObjects : x # NoPerson
      BY DEF PersonObjects, NoPerson
  <2> QED
      BY <1>1, <2>1 DEF CachedInv, Separate, InProcess
<1>8. \A q \in Processes \ {p} : cache[q].who \in PersonObjects => ages[cache[q].who] = age[cache[q].who]
    BY <1>7
<1> HIDE DEF ages
<1>9. /\ person' \in [PersonObjects -> Levels]
      /\ age' \in [PersonObjects -> {"new", "outdated", "raced"}]
      /\ \A q \in Processes : cache'[q].who \in PersonObjects =>
             /\ person'[cache'[q].who] = person[cache'[q].who]
             /\ age'[cache'[q].who] = ages[cache'[q].who]
      /\ \A u \in Threads : call'[u].who \in PersonObjects =>
             person'[call'[u].who] = person[call'[u].who]
  <2>1. person \in [PersonObjects -> Levels] /\ FirstLevel \in Levels
      BY CacheAssumption DEF CachedInv, CacheStores
  <2> QED
      BY <1>2, <1>6, <2>1, ForgetsOthers
<1>10. CacheStores'
    BY <1>2, <1>4, <1>5, <1>9 DEF CachedInv, CacheStores
<1>11. Separate'
  <2>1. \A q \in Processes : cache'[q].who \in {cache[q].who, NoPerson}
      BY <1>5 DEF NoEntry
  <2>2. \A u \in Threads : call'[u].who \in {call[u].who, NoPerson, cache[home[u]].who}
      BY <1>3, <1>4
  <2> QED
      BY <1>2, <2>1, <2>2, StaySeparate DEF CachedInv
<1>12. AnswersAreRecent'
  <2>1. ASSUME NEW u \in Threads, call'[u].step = "answered"
        PROVE  known[person'[call'[u].who]] <= call'[u].ago
    <3>1. call'[u] = call[u]
        BY <1>3, <1>4, <2>1
    <3>2. call[u].who \in PersonObjects
        BY <2>1, <3>1 DEF CachedInv, CallOK
    <3> QED
        BY <1>9, <2>1, <3>1, <3>2 DEF CachedInv, AnswersAreRecent
  <2> QED
      BY <1>2, <2>1 DEF CachedInv, AnswersAreRecent
<1>13. EntriesAreFresh'
  <2> SUFFICES ASSUME NEW q \in Processes, cache'[q].left > 0
               PROVE  /\ cache'[q].who \in PersonObjects
                      /\ known[person'[cache'[q].who]] + cache'[q].left <= TTL + Latency
                      /\ age'[cache'[q].who] # "outdated"
      BY <1>2 DEF EntriesAreFresh
  <2>1. q # p /\ cache'[q] = cache[q]
      BY <1>5 DEF NoEntry
  <2>2. cache[q].who \in PersonObjects /\ age[cache[q].who] # "outdated"
      BY <2>1 DEF CachedInv, EntriesAreFresh
  <2> QED
      BY <1>8, <1>9, <2>1, <2>2 DEF CachedInv, EntriesAreFresh
<1> QED
    BY <1>4, <1>10, <1>11, <1>12, <1>13 DEF CachedInv

(* Time passes: what is left shrinks as what is past grows.                *)
LEMMA TimeCaches ==
    ASSUME CachedInv, TimePasses
    PROVE  CachedInv'
<1>1. UNCHANGED <<home, directory, person, age>>
    BY DEF TimePasses
<1>2. /\ known' \in [Levels -> 0 .. LongAgo]
      /\ \A l \in Levels : known[l] \in Nat /\ known'[l] <= known[l] + 1
      /\ directory # Gone => known'[directory] = 0
    BY CacheNumbers DEF TimePasses, CachedInv, CacheStores
<1>3. /\ cache' \in [Processes -> Entries]
      /\ \A p \in Processes : /\ cache'[p].who = cache[p].who /\ cache[p].left \in Nat
                              /\ cache'[p].left > 0 => cache[p].left > 0 /\ cache'[p].left = cache[p].left - 1
  <2>1. ASSUME NEW p \in Processes
        PROVE  /\ cache'[p] \in Entries /\ cache'[p].who = cache[p].who /\ cache[p].left \in Nat
               /\ cache'[p].left > 0 => cache[p].left > 0 /\ cache'[p].left = cache[p].left - 1
    <3>1. cache[p] \in Entries /\ cache[p].left \in 0 .. TTL /\ cache[p].left \in Nat
        BY CacheNumbers DEF CachedInv, CacheStores, Entries
    <3>2. cache'[p] = IF cache[p].left > 0 THEN [cache[p] EXCEPT !.left = @ - 1] ELSE cache[p]
        BY DEF TimePasses
    <3>3. CASE cache[p].left > 0
      <4>1. cache[p].left - 1 \in 0 .. TTL
          BY <3>1, <3>3, CacheNumbers
      <4> QED
          BY <3>1, <3>2, <3>3, <4>1 DEF Entries
    <3>4. CASE ~ cache[p].left > 0
        BY <3>1, <3>2, <3>4
    <3> QED
        BY <3>3, <3>4
  <2>2. cache' = [p \in Processes |-> cache'[p]]
      BY DEF TimePasses
  <2> QED
      BY <2>1, <2>2
<1>4. /\ call' \in [Threads -> CallRecords] /\ \A u \in Threads : CallOK(call'[u])
      /\ \A u \in Threads : /\ call'[u].who = call[u].who /\ call'[u].step = call[u].step
                            /\ call[u].step = "answered" => call'[u].ago = call[u].ago + 1
  <2>1. ASSUME NEW u \in Threads
        PROVE  /\ call'[u] \in CallRecords /\ CallOK(call'[u])
               /\ call'[u].who = call[u].who /\ call'[u].step = call[u].step
               /\ call[u].step = "answered" => call'[u].ago = call[u].ago + 1
    <3>1. call[u] \in CallRecords /\ CallOK(call[u])
        BY DEF CachedInv, CacheStores
    <3>2. call'[u] = IF UnderWay(u) THEN [call[u] EXCEPT !.ago = @ + 1] ELSE call[u]
        BY DEF TimePasses
    <3>3. CASE UnderWay(u)
      <4>1. call[u].ago < Latency
          BY <3>3 DEF TimePasses
      <4>2. call[u].ago + 1 \in 0 .. Latency
          BY <3>1, <4>1, CacheNumbers DEF CallRecords
      <4>3. /\ call'[u] \in CallRecords /\ call'[u].who = call[u].who /\ call'[u].step = call[u].step
            /\ call'[u].op = call[u].op /\ call'[u].level = call[u].level /\ call'[u].ago = call[u].ago + 1
          BY <3>1, <3>2, <3>3, <4>2 DEF CallRecords
      <4> QED
          BY <3>1, <4>3 DEF CallOK
    <3>4. CASE ~ UnderWay(u)
        BY <3>1, <3>2, <3>4 DEF UnderWay
    <3> QED
        BY <3>3, <3>4
  <2>2. call' = [u \in Threads |-> call'[u]]
      BY DEF TimePasses
  <2> QED
      BY <2>1, <2>2
<1>5. CacheStores'
    BY <1>1, <1>2, <1>3, <1>4 DEF CachedInv, CacheStores
<1>6. Separate'
  <2>1. /\ \A q \in Processes : cache'[q].who \in {cache[q].who, NoPerson}
        /\ \A u \in Threads : call'[u].who \in {call[u].who, NoPerson, cache[home[u]].who}
      BY <1>3, <1>4
  <2> QED
      BY <1>1, <2>1, StaySeparate DEF CachedInv
<1>7. AnswersAreRecent'
  <2>1. ASSUME NEW u \in Threads, call'[u].step = "answered"
        PROVE  known'[person[call'[u].who]] <= call'[u].ago
    <3>1. call[u].step = "answered" /\ call'[u].who = call[u].who /\ call'[u].ago = call[u].ago + 1
        BY <1>4, <2>1
    <3>2. PICK l \in Levels : l = person[call[u].who]
        BY <3>1 DEF CachedInv, CacheStores, CallOK
    <3>3. known[l] <= call[u].ago /\ call[u].ago \in Nat
        BY <3>1, <3>2, CacheNumbers DEF CachedInv, AnswersAreRecent, CacheStores, CallRecords
    <3>4. known[l] \in Nat /\ known'[l] \in Nat /\ known'[l] <= known[l] + 1
        BY <1>2, CacheNumbers
    <3> QED
        BY <3>1, <3>2, <3>3, <3>4
  <2> QED
      BY <1>1, <1>2, <2>1 DEF AnswersAreRecent
<1>8. EntriesAreFresh'
  <2> SUFFICES ASSUME NEW q \in Processes, cache'[q].left > 0
               PROVE  /\ cache'[q].who \in PersonObjects
                      /\ known'[person[cache'[q].who]] + cache'[q].left <= TTL + Latency
                      /\ age[cache'[q].who] # "outdated"
      BY <1>1 DEF EntriesAreFresh
  <2>1. /\ cache'[q].who = cache[q].who /\ cache[q].left > 0 /\ cache[q].left \in Nat
        /\ cache'[q].left = cache[q].left - 1
      BY <1>3
  <2>2. cache[q].who \in PersonObjects /\ age[cache[q].who] # "outdated"
      BY <2>1 DEF CachedInv, EntriesAreFresh
  <2>3. PICK l \in Levels : l = person[cache[q].who]
      BY <2>2 DEF CachedInv, CacheStores
  <2>4. known[l] + cache[q].left <= TTL + Latency
      BY <2>1, <2>3 DEF CachedInv, EntriesAreFresh
  <2>5. known[l] \in Nat /\ known'[l] \in Nat /\ known'[l] <= known[l] + 1
      BY <1>2, CacheNumbers
  <2>6. known'[l] + cache'[q].left <= TTL + Latency
      BY <2>1, <2>4, <2>5, CacheNumbers
  <2> QED
      BY <2>1, <2>2, <2>3, <2>6
<1> QED
    BY <1>4, <1>5, <1>6, <1>7, <1>8 DEF CachedInv

-----------------------------------------------------------------------------
(* The invariant.                                                          *)

LEMMA CacheStarts == CacheInit => CachedInv
<1> SUFFICES ASSUME CacheInit PROVE CachedInv
    OBVIOUS
<1>1. Resting \in CallRecords /\ CallOK(Resting) /\ Resting.step = "none" /\ Resting.who = NoPerson
    BY CacheNumbers DEF Resting, CallRecords, CallOK
<1>2. NoEntry \in Entries /\ NoEntry.left = 0 /\ NoEntry.who = NoPerson
    BY CacheNumbers DEF NoEntry, Entries
<1>3. CacheStores
    BY <1>1, <1>2, CacheNumbers, CacheAssumption DEF CacheInit, CacheStores
<1>4. Separate
    BY <1>1, <1>2 DEF CacheInit, Separate
<1>5. AnswersAreRecent
    BY <1>1, CacheAssumption DEF CacheInit, AnswersAreRecent
<1>6. EntriesAreFresh
    BY <1>2 DEF CacheInit, EntriesAreFresh
<1> QED
    BY <1>1, <1>3, <1>4, <1>5, <1>6 DEF CacheInit, CachedInv

(* What a cache serves comes from an answer no older than its way, whatever *)
(* processes and requests there are and however they interleave.           *)
THEOREM CacheInvariant == CacheSpec => []CachedInv
<1>1. CacheInit => CachedInv
    BY CacheStarts
<1>2. CachedInv /\ [CacheNext]_cacheVars => CachedInv'
  <2> SUFFICES ASSUME CachedInv, [CacheNext]_cacheVars PROVE CachedInv'
      OBVIOUS
  <2>1. ASSUME NEW t \in Threads, NEW op \in {"read", "rename", "profile", "remove"},
               NEW level \in Levels \cup {Gone}, Begin(t, op, level)
        PROVE  CachedInv'
      BY <2>1, BeginCaches
  <2>2. ASSUME NEW t \in Threads, Answers(t) PROVE CachedInv'
      BY <2>2, AnswersCaches
  <2>3. ASSUME NEW t \in Threads, Receives(t) PROVE CachedInv'
      BY <2>3, ReceivesCaches
  <2>4. ASSUME NEW t \in Threads, Decides(t) PROVE CachedInv'
      BY <2>4, DecidesCaches
  <2>5. ASSUME NEW t \in Threads, Changes(t) PROVE CachedInv'
      BY <2>5, ChangesCaches
  <2>6. ASSUME NEW t \in Threads, Sends(t) PROVE CachedInv'
      BY <2>6, SendsCaches
  <2>7. ASSUME NEW t \in Threads, Saved(t) PROVE CachedInv'
      BY <2>7, SavedCaches
  <2>8. ASSUME NEW level \in Levels \cup {Gone}, Administers(level) PROVE CachedInv'
      BY <2>8, AdministersCaches
  <2>9. CASE TimePasses
      BY <2>9, TimeCaches
  <2>10. CASE UNCHANGED cacheVars
      BY <2>10 DEF cacheVars, CachedInv, CacheStores, CallOK, CallRecords, Entries, Separate,
                   AnswersAreRecent, EntriesAreFresh
  <2> QED
      BY <2>1, <2>2, <2>3, <2>4, <2>5, <2>6, <2>7, <2>8, <2>9, <2>10 DEF CacheNext
<1> QED
    BY <1>1, <1>2, PTL DEF CacheSpec

(* The Persons in the caches and in use are Persons of the pool, and no two *)
(* processes share one.                                                    *)
THEOREM CacheTypes == CacheSpec => []CacheTypeOK
<1>1. CachedInv => CacheTypeOK
    BY DEF CachedInv, CacheStores, CallOK, Separate, Entries, CacheTypeOK
<1> QED
    BY <1>1, CacheInvariant, PTL

(* A level the cache serves was the directory's, or asked for by an        *)
(* administrator, no longer ago than an entry lives and an answer travels; *)
(* and nothing a save of the same process has outdated is served unless a  *)
(* read under way has put it back.                                         *)
THEOREM CacheHolds == CacheSpec => []CacheIsFresh
<1>1. ASSUME CachedInv PROVE CacheIsFresh
  <2> SUFFICES ASSUME NEW p \in Processes, CacheGet(p) # NoEntry
               PROVE  /\ known[person[cache[p].who]] + cache[p].left <= TTL + Latency
                      /\ age[cache[p].who] # "outdated"
                      /\ CacheGet(p) = cache[p]
      BY DEF CacheIsFresh, StaleIsBounded, SavesAreSeen
  <2>1. CacheGet(p) = cache[p] /\ cache[p].left > 0
      BY DEF CacheGet
  <2> QED
      BY <1>1, <2>1 DEF CachedInv, EntriesAreFresh
<1> QED
    BY <1>1, CacheInvariant, PTL

-----------------------------------------------------------------------------
(* The composition                                                         *)

LEMMA IdentityStarts == IdentityInit => Init /\ AccountsInit /\ CacheInit
<1>1. IdentityInit => Init
    BY DEF IdentityInit, LocalRests
<1>2. IdentityInit => AccountsInit
    BY DEF IdentityInit, AccountsRest
<1>3. IdentityInit => CacheInit
    BY DEF IdentityInit, CacheRests
<1> QED BY <1>1, <1>2, <1>3

LEMMA IdentitySteps ==
    ASSUME [IdentityNext]_<<part, vars, accountVars, cacheVars>>
    PROVE  [Next]_vars /\ [AccountsNext]_accountVars /\ [CacheNext]_cacheVars
    BY DEF IdentityNext

(* A behaviour of local accounts, accounts at the provider and caches side *)
(* by side is one of each, so that what is proved of one of them holds     *)
(* where the three are checked together.                                   *)
THEOREM IdentityComposes == IdentitySpec => Spec /\ AccountsSpec /\ CacheSpec
<1> QED BY IdentityStarts, IdentitySteps, PTL DEF IdentitySpec, Spec, AccountsSpec, CacheSpec

(* The types of the three hold together, for any people and bounds.        *)
THEOREM IdentityTypes == IdentitySpec => []IdentityTypeOK
<1>1. TypeOK /\ AccountsTypeOK /\ CacheTypeOK => IdentityTypeOK
    BY DEF IdentityTypeOK
<1> QED BY <1>1, IdentityComposes, AccountsTypeCorrect, AccountTypes, CacheTypes, PTL

(* And so does everything else that is checked of them.                    *)
THEOREM IdentitySound ==
    IdentitySpec => /\ [](CredentialsHold /\ RevokedStayOut /\ AccountsSound /\ CacheIsFresh)
                    /\ LockoutSavesAreLocal /\ IdentityFixed
<1> QED BY IdentityComposes, CredentialsAlwaysHold, RevokedAlwaysOut, AccountsHold, CacheHolds,
           LockoutSavesLocal, IdentityKept, PTL
=============================================================================
