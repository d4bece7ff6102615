-------------------------- MODULE DirectoryAccounts --------------------------
(***************************************************************************)
(* The identity provider as the register of people, and the table that     *)
(* binds its accounts to the identifiers of the application.               *)
(*                                                                         *)
(* With backend "oidc" the people are the accounts of the provider: every  *)
(* read binds what it has not met before, adding a person is a POST and a  *)
(* binding, and the first administrator is an account made in four calls.  *)
(* With backend "local" the provider only signs people in, and the first   *)
(* sign-in of a subject makes a person.  A call to the provider cannot be  *)
(* rolled back; the bindings and the local people can.                     *)
(*                                                                         *)
(* isolation is that of the database: on MySQL a transaction reads the     *)
(* snapshot of its first query, on PostgreSQL what is committed.  The      *)
(* cached profiles are in DirectoryCache.                                  *)
(***************************************************************************)
EXTENDS Naturals, FiniteSets

CONSTANTS
    Visitors,        \* requests served at the same time
    Externals,       \* identifiers the provider gives to accounts
    MaxIds,          \* bound: identifiers of people alive at once or remembered
    MaxVisits,       \* bound: the requests of a behaviour
    Unborn, Dropped  \* an account not made yet, and one that is no more

Ids   == 1 .. MaxIds
NoId  == 0
Nobody == "none"
AclLevels == {"admin", "user"}
Accounts == [level : AclLevels, password : BOOLEAN, maker : {"provider", "add", "setup"}]

ASSUME ProviderAssumption ==
    /\ MaxIds \in Nat /\ MaxVisits \in Nat /\ IsFiniteSet(Externals)
    /\ Unborn \notin Externals \cup Accounts /\ Dropped \notin Accounts \cup {Unborn}

VARIABLES
    backend,    \* of the people: "oidc" or "local"
    isolation,  \* of the database: "mysql" or "postgres"
    account,    \* the accounts of the provider
    bound,      \* committed: the identifier each account is bound to
    locals,     \* committed: the level of each local person
    visit,      \* what each request is doing
    visits,     \* requests so far
    gone,       \* history: identifiers that were bound and are not any more
    mishaps     \* history: accounts a crash, a lost answer or a failed
                \* compensation left behind

accountVars == <<backend, isolation, account, bound, locals, visit, visits, gone, mishaps>>

-----------------------------------------------------------------------------
NothingSeen == [bound |-> [e \in {} |-> NoId], locals |-> [i \in {} |-> Nobody]]
Committed == [bound |-> bound, locals |-> locals]

AtRest == [op |-> "none", step |-> "none", ext |-> Unborn, id |-> NoId, rows |-> {},
           wrote |-> [e \in {} |-> NoId], level |-> Nobody, claim |-> Nobody, seen |-> NothingSeen]

Seeing(r) == [r EXCEPT !.seen = IF isolation = "mysql" THEN Committed ELSE NothingSeen]
View(r)   == IF isolation = "mysql" THEN r.seen ELSE Committed

Puts(t, r) == visit' = [visit EXCEPT ![t] = r]
Step(t, s) == visit[t].step = s
Locked(t, e) == \E u \in Visitors \ {t} : e \in DOMAIN visit[u].wrote

Taken == {bound[e] : e \in Externals} \cup {i \in Ids : locals[i] # Nobody} \cup gone
             \cup {visit[t].id : t \in Visitors}
             \cup UNION {{visit[t].wrote[e] : e \in DOMAIN visit[t].wrote} : t \in Visitors}
FreshIds == Ids \ Taken     \* uuid4

Written(r) == [e \in Externals |-> IF e \in DOMAIN r.wrote THEN r.wrote[e] ELSE bound[e]]

(* The end of a transaction: all it wrote, or nothing.                     *)
Commits(t, next) ==
    LET r == visit[t]
    IN  /\ bound' = Written(r)
        /\ gone'  = gone \cup ({bound[e] : e \in Externals} \ ({NoId} \cup {Written(r)[e] : e \in Externals}))
        /\ locals' = IF r.level = Nobody THEN locals ELSE [locals EXCEPT ![r.id] = r.level]
        /\ Puts(t, next)

RollsBack(t) == Puts(t, AtRest) /\ UNCHANGED <<bound, locals, gone>>

Begins(t, r) ==
    /\ visit[t] = AtRest /\ visits < MaxVisits
    /\ visits' = visits + 1
    /\ Puts(t, r)

Setting == <<backend, isolation>>
Frame   == UNCHANGED <<Setting, visits>>
Database == <<bound, locals, gone>>

-----------------------------------------------------------------------------
(* Bindings                                                                *)

(* internal_id: a row that is found gives the identifier, and the rows     *)
(* that are not get new ones, which the unique key refuses when another    *)
(* request has bound them meanwhile.                                       *)
Missing(r) == {e \in r.rows : View(r).bound[e] = NoId}

Lookup(t) ==
    LET r == Seeing(visit[t])
    IN  /\ Step(t, "lookup")
        /\ Puts(t, [r EXCEPT !.rows = Missing(r),
                             !.id   = IF r.op = "login" THEN View(r).bound[r.ext] ELSE @,
                             !.step = IF Missing(r) = {} THEN "resolved" ELSE "inserting"])
        /\ UNCHANGED <<account, mishaps, Database>> /\ Frame

NewBindings(r) ==
    IF r.op \in {"add", "create"} THEN [e \in r.rows |-> r.id]
    ELSE CHOOSE f \in [r.rows -> FreshIds] : \A d, e \in r.rows : d # e => f[d] # f[e]

Bound(r) ==
    LET f == NewBindings(r)
    IN  [r EXCEPT !.wrote = f, !.step = "resolved", !.id = IF r.op = "login" THEN f[r.ext] ELSE @]

InsertOrUpdate(t) ==    \* mutant: a row bound meanwhile is overwritten
    LET r == visit[t]
    IN  /\ Step(t, "inserting")
        /\ Cardinality(FreshIds) >= Cardinality(r.rows)
        /\ \A e \in r.rows : ~ Locked(t, e)
        /\ Puts(t, Bound(r))
        /\ UNCHANGED <<account, mishaps, Database>> /\ Frame
Insert(t) ==
    LET r == visit[t]
    IN  /\ Step(t, "inserting")
        /\ Cardinality(FreshIds) >= Cardinality(r.rows)
        /\ \A e \in r.rows : ~ Locked(t, e)
        /\ IF \E e \in r.rows : bound[e] # NoId
           THEN RollsBack(t)
           ELSE Puts(t, Bound(r)) /\ UNCHANGED Database
        /\ UNCHANGED <<account, mishaps>> /\ Frame

(* bind, of an account just made: PostgreSQL may already show a row that a *)
(* request listing the people has committed, and the row is overwritten.   *)
Bind(t) ==
    LET r == visit[t]
    IN  /\ Step(t, "binding")
        /\ IF View(r).bound[r.ext] = NoId
           THEN Puts(t, [r EXCEPT !.rows = {r.ext}, !.step = "inserting"])
           ELSE /\ ~ Locked(t, r.ext)
                /\ Puts(t, [r EXCEPT !.wrote = [e \in {r.ext} |-> r.id], !.step = "resolved"])
        /\ UNCHANGED <<account, mishaps, Database>> /\ Frame

-----------------------------------------------------------------------------
(* The people of the provider                                              *)

Exists(e) == account[e] \notin {Unborn, Dropped}
InitialAdminExists == \E e \in Externals : Exists(e) /\ account[e].level = "admin"

(* list, and admin_exists, which lists: the answer is complete, its rows   *)
(* are bound one after another.  claim keeps whether an admin was seen.    *)
StartList(t, op) ==
    /\ backend = "oidc" /\ op \in {"list", "setup"}
    /\ Begins(t, [AtRest EXCEPT !.op = op, !.step = "lookup",
                                !.rows = {e \in Externals : Exists(e)},
                                !.claim = IF InitialAdminExists THEN "admin" ELSE Nobody])
    /\ UNCHANGED <<account, mishaps, Database, Setting>>

(* The setup goes on in a transaction of its own.                          *)
Creates(r, op) == [Seeing(r) EXCEPT !.op = op, !.step = "posting",
                                    !.id = CHOOSE i \in FreshIds : TRUE]

EndList(t) ==
    /\ Step(t, "resolved") /\ visit[t].op \in {"list", "setup"}
    /\ Commits(t, IF visit[t].op = "setup" /\ visit[t].claim = Nobody
                  THEN [AtRest EXCEPT !.op = "setup", !.step = "vacant"] ELSE AtRest)
    /\ UNCHANGED <<account, mishaps>> /\ Frame

CreateInitialOidcAdmin(t) ==
    /\ Step(t, "vacant") /\ FreshIds # {}
    /\ Puts(t, Creates(AtRest, "create"))
    /\ UNCHANGED <<account, mishaps, Database>> /\ Frame

StartAdd(t) ==
    /\ backend = "oidc" /\ FreshIds # {}
    /\ Begins(t, Creates(AtRest, "add"))
    /\ UNCHANGED <<account, mishaps, Database, Setting>>

(* A call to the provider is done, refused, or done with its answer lost.  *)
Lost(t, e) == RollsBack(t) /\ mishaps' = mishaps \cup {e}
Refused(t) == RollsBack(t) /\ UNCHANGED <<account, mishaps>>

(* save of a person who is not bound.                                      *)
Post(t) ==
    LET r == visit[t]
    IN  /\ Step(t, "posting")
        /\ \/ \E e \in Externals :
                /\ account[e] = Unborn
                /\ account' = [account EXCEPT ![e] =
                      [level |-> "user", password |-> FALSE,
                       maker |-> IF r.op = "create" THEN "setup" ELSE "add"]]
                /\ \/ Puts(t, [r EXCEPT !.ext = e, !.step = "binding"]) /\ UNCHANGED <<mishaps, Database>>
                   \/ Lost(t, e)
           \/ Refused(t)
        /\ Frame

EndAdd(t) ==
    /\ Step(t, "resolved") /\ visit[t].op = "add"
    /\ Commits(t, AtRest)
    /\ UNCHANGED <<account, mishaps>> /\ Frame

(* set_acl_profile within the setup: the account is read and patched.      *)
Promote(t) ==
    LET r == visit[t]
    IN  /\ Step(t, "resolved") /\ r.op = "create"
        /\ \/ /\ Exists(r.ext)
              /\ account' = [account EXCEPT ![r.ext].level = "admin"]
              /\ \/ Puts(t, [r EXCEPT !.step = "securing"]) /\ UNCHANGED <<mishaps, Database>>
                 \/ Lost(t, r.ext)
           \/ Refused(t)
        /\ Frame

(* The password of the account; the answer may be an error although it was *)
(* set.                                                                    *)
SetPasswordAnyhow(t) ==    \* mutant: nothing is taken back
    LET r == visit[t]
    IN  /\ Step(t, "securing")
        /\ \/ /\ Exists(r.ext)
              /\ account' = [account EXCEPT ![r.ext].password = TRUE]
              /\ Puts(t, [r EXCEPT !.step = "reading"]) /\ UNCHANGED <<mishaps, Database>>
           \/ Refused(t)
        /\ Frame
SetOidcPassword(t) ==
    LET r == visit[t]
    IN  /\ Step(t, "securing")
        /\ \/ /\ Exists(r.ext)
              /\ account' = [account EXCEPT ![r.ext].password = TRUE]
              /\ \E s \in {"reading", "compensating"} : Puts(t, [r EXCEPT !.step = s])
           \/ Puts(t, [r EXCEPT !.step = "compensating"]) /\ UNCHANGED account
        /\ UNCHANGED <<mishaps, Database>> /\ Frame

(* The compensation, whose own failure is passed over in silence.          *)
Compensate(t) ==
    LET e == visit[t].ext
    IN  /\ Step(t, "compensating")
        /\ \/ /\ account' = [account EXCEPT ![e] = Dropped]
              /\ RollsBack(t) /\ UNCHANGED mishaps
           \/ Lost(t, e) /\ UNCHANGED account
        /\ Frame

ReadBack(t) ==
    /\ Step(t, "reading")
    /\ \/ Exists(visit[t].ext) /\ Commits(t, AtRest)
       \/ RollsBack(t)
    /\ UNCHANGED <<account, mishaps>> /\ Frame

(* remove: a DELETE of the account, then of the binding; the transaction   *)
(* may still be rolled back.                                               *)
StartRemove(t, e) ==
    /\ backend = "oidc" /\ bound[e] # NoId /\ Exists(e)
    /\ Begins(t, [Seeing(AtRest) EXCEPT !.op = "remove", !.step = "deleting", !.ext = e])
    /\ UNCHANGED <<account, mishaps, Database, Setting>>

Delete(t) ==
    LET r == visit[t]
    IN  /\ Step(t, "deleting") /\ ~ Locked(t, r.ext)
        /\ \/ /\ Exists(r.ext)
              /\ account' = [account EXCEPT ![r.ext] = Dropped]
              /\ Puts(t, [r EXCEPT !.step = "deleted", !.wrote = [e \in {r.ext} |-> NoId]])
              /\ UNCHANGED <<mishaps, Database>>
           \/ Refused(t)
        /\ Frame

EndRemove(t) ==
    /\ Step(t, "deleted")
    /\ Commits(t, AtRest) \/ RollsBack(t)
    /\ UNCHANGED <<account, mishaps>> /\ Frame

-----------------------------------------------------------------------------
(* Signing in                                                              *)

(* complete_oidc_flow: the subject of the token is resolved, and bound     *)
(* when it is new.  claim is the acl_level of the token, if it has one.    *)
StartLogin(t, e, claim) ==
    /\ backend = "oidc" => Exists(e) /\ claim = Nobody
    /\ Begins(t, [AtRest EXCEPT !.op = "login", !.step = "lookup", !.ext = e, !.rows = {e}, !.claim = claim])
    /\ UNCHANGED <<account, mishaps, Database, Setting>>

IsKnown(r) == IF backend = "oidc" THEN Exists(r.ext) ELSE View(r).locals[r.id] # Nobody

Fetch(t) ==
    LET r == visit[t]
    IN  /\ Step(t, "resolved") /\ r.op = "login"
        /\ \/ IsKnown(r) /\ Commits(t, AtRest)
           \/ ~ IsKnown(r) /\ backend = "oidc" /\ RollsBack(t)
           \/ ~ IsKnown(r) /\ backend = "local" /\ Puts(t, [r EXCEPT !.step = "provisioning"]) /\ UNCHANGED Database
        /\ UNCHANGED <<account, mishaps>> /\ Frame

IsFirstPerson(r) == \A i \in Ids : View(r).locals[i] = Nobody
ProfileFor(r) ==
    IF r.claim # Nobody THEN r.claim
    ELSE IF IsFirstPerson(r) THEN "admin" ELSE "user"

ProvisionLocal(t) ==
    LET r == visit[t]
    IN  /\ Step(t, "provisioning")
        /\ Puts(t, [r EXCEPT !.level = ProfileFor(r), !.step = "provisioned"])
        /\ UNCHANGED <<account, mishaps, Database>> /\ Frame

EndLogin(t) ==
    LET r == visit[t]
    IN  /\ Step(t, "provisioned")
        /\ IF locals[r.id] = Nobody THEN Commits(t, AtRest) ELSE RollsBack(t)
        /\ UNCHANGED <<account, mishaps>> /\ Frame

(* A local person is made and removed by one transaction; with the person  *)
(* goes the binding.                                                       *)
AddLocal ==
    /\ backend = "local" /\ FreshIds # {}
    /\ locals' = [locals EXCEPT ![CHOOSE i \in FreshIds : TRUE] = "user"]
    /\ UNCHANGED <<account, mishaps, bound, gone, visit>> /\ Frame

RemoveLocal(i) ==
    /\ backend = "local" /\ locals[i] # Nobody
    /\ locals' = [locals EXCEPT ![i] = Nobody]
    /\ bound'  = [e \in Externals |-> IF bound[e] = i THEN NoId ELSE bound[e]]
    /\ gone'   = gone \cup {i}
    /\ UNCHANGED <<account, mishaps, visit>> /\ Frame

-----------------------------------------------------------------------------
(* A process dies, and its administrators change the provider directly.    *)

Crash(t) ==
    /\ visit[t] # AtRest
    /\ RollsBack(t)
    /\ mishaps' = mishaps \cup ({visit[t].ext} \cap Externals)
    /\ UNCHANGED account /\ Frame

Registers(e, level) ==
    /\ backend = "oidc" /\ account[e] = Unborn
    /\ account' = [account EXCEPT ![e] = [level |-> level, password |-> TRUE, maker |-> "provider"]]
    /\ UNCHANGED <<visit, mishaps, Database>> /\ Frame

Drops(e) ==
    /\ backend = "oidc" /\ Exists(e)
    /\ account' = [account EXCEPT ![e] = Dropped]
    /\ UNCHANGED <<visit, mishaps, Database>> /\ Frame

AccountsInit ==
    /\ backend \in {"oidc", "local"} /\ isolation \in {"mysql", "postgres"}
    /\ account = [e \in Externals |-> Unborn]
    /\ bound = [e \in Externals |-> NoId]
    /\ locals = [i \in Ids |-> Nobody]
    /\ visit = [t \in Visitors |-> AtRest]
    /\ visits = 0 /\ gone = {} /\ mishaps = {}

AccountsNext ==
    \/ \E t \in Visitors :
         \/ \E op \in {"list", "setup"} : StartList(t, op)
         \/ Lookup(t) \/ Insert(t) \/ Bind(t) \/ EndList(t)
         \/ CreateInitialOidcAdmin(t) \/ StartAdd(t) \/ Post(t) \/ EndAdd(t)
         \/ Promote(t) \/ SetOidcPassword(t) \/ Compensate(t) \/ ReadBack(t)
         \/ \E e \in Externals : StartRemove(t, e)
         \/ Delete(t) \/ EndRemove(t)
         \/ \E e \in Externals, claim \in AclLevels \cup {Nobody} : StartLogin(t, e, claim)
         \/ Fetch(t) \/ ProvisionLocal(t) \/ EndLogin(t) \/ Crash(t)
    \/ AddLocal \/ \E i \in Ids : RemoveLocal(i)
    \/ \E e \in Externals, level \in AclLevels : Registers(e, level)
    \/ \E e \in Externals : Drops(e)

AccountsSpec == AccountsInit /\ [][AccountsNext]_accountVars

-----------------------------------------------------------------------------
(* Properties                                                              *)

(* The types; two accounts are never bound to one identifier, and nobody   *)
(* waits to write a row that is being written.                             *)
AccountsTypeOK ==
    /\ backend \in {"oidc", "local"} /\ isolation \in {"mysql", "postgres"}
    /\ account \in [Externals -> Accounts \cup {Unborn, Dropped}]
    /\ bound \in [Externals -> Ids \cup {NoId}]
    /\ \A d, e \in Externals : d # e /\ bound[d] = bound[e] => bound[d] = NoId
    /\ locals \in [Ids -> AclLevels \cup {Nobody}]
    /\ \A t, u \in Visitors : t # u => DOMAIN visit[t].wrote \cap DOMAIN visit[u].wrote = {}
    /\ visits \in 0 .. MaxVisits
    /\ gone \subseteq Ids /\ mishaps \subseteq Externals

(* The identifier an account is bound to is what missions, awards and ACL  *)
(* entries are about: it never becomes another one.  PostgreSQL allows one *)
(* exception, of the request that has just made the account.               *)
IdentityFixed ==
    [][\A e \in Externals :
         bound[e] # NoId /\ bound'[e] \notin {NoId, bound[e]} =>
             /\ isolation = "postgres"
             /\ \E t \in Visitors : visit[t].ext = e /\ visit[t].op \in {"add", "create"}]_accountVars

(* An administrator the setup leaves behind, who closes it for everybody   *)
(* else, can sign in, except after a crash or a call that failed twice.    *)
SetupAdminsHavePasswords ==
    \A e \in Externals :
        Exists(e) /\ account[e].level = "admin" /\ ~ account[e].password =>
            \/ e \in mishaps
            \/ \E t \in Visitors : visit[t].ext = e /\ visit[t].op = "create"

(* A failed setup takes back the account it has made.                      *)
FailedSetupLeavesNothing ==
    \A e \in Externals :
        Exists(e) /\ account[e].maker = "setup" /\ ~ account[e].password =>
            \/ e \in mishaps
            \/ \E t \in Visitors : visit[t].ext = e /\ visit[t].op = "create"

(* Every subject that is bound leads to a person who exists: a sign-in     *)
(* never finds a name without a profile.                                   *)
LoginsLeadToPeople ==
    backend = "local" => \A e \in Externals : bound[e] # NoId => locals[bound[e]] # Nobody

(* The identifier of a person who was removed stays unused: what was said  *)
(* about them never applies to somebody who signs in later.  A sign-in     *)
(* under way on PostgreSQL may bring the person back.                      *)
RemovedStayAway ==
    /\ \A e \in Externals : bound[e] \notin gone
    /\ isolation = "mysql" => \A i \in gone : locals[i] = Nobody

(* Accounts, bindings and people, kept in different stores, fit together   *)
(* whatever is lost, crashes or overlaps.                                  *)
AccountsSound == SetupAdminsHavePasswords /\ LoginsLeadToPeople /\ RemovedStayAway
=============================================================================
