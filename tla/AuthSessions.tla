----------------------------- MODULE AuthSessions -----------------------------
(***************************************************************************)
(* The auth package: accounts, their sessions, access tokens and families  *)
(* of refresh tokens, as AccountService, SessionService, TokenService and  *)
(* AuthenticationService change them.                                      *)
(*                                                                         *)
(* The repositories are dictionaries: every call is atomic and nothing     *)
(* else is.  A service method that reads a record, derives a new one and   *)
(* saves it is therefore two steps, and what it saves was computed from    *)
(* what it read.  A session or a token is accepted when the authz_version  *)
(* it carries is the account's, which every change of rights increments.   *)
(* Expiry only ever refuses more and is left out; the revocation of single *)
(* access tokens is in LocalAccounts.                                      *)
(***************************************************************************)
EXTENDS Naturals, FiniteSets

CONSTANTS
    Threads,          \* threads
    Accounts,
    SessionProfiles,  \* identifiers of profiles
    FirstProfile,     \* the one accounts are created with
    SessionIds,       \* bound: identifiers of sessions, drawn from 1
    RefreshIds,       \* bound: identifiers of refresh tokens, drawn from 1
    NoSession, NoRefresh,
    MaxCalls,         \* bound: the requests of a behaviour
    MaxEra            \* bound: the changes of one password

ASSUME SessionsAssumption ==
    /\ FirstProfile \in SessionProfiles
    /\ SessionIds \in Nat /\ RefreshIds \in Nat /\ MaxCalls \in Nat /\ MaxEra \in Nat

Statuses == {"active", "disabled", "deleted"}
AccountRecords == [status : Statuses, profile : SessionProfiles, version : Nat]

(* A session and a token carry the version they were issued with; profile  *)
(* (what the account was allowed then) and era (which password opened it)  *)
(* are remembered for the properties.                                      *)
SessionRecords ==
    [account : Accounts, version : Nat, revoked : BOOLEAN, profile : SessionProfiles, era : Nat]
AccessTokens   == [account : Accounts, version : Nat, profile : SessionProfiles]
RefreshRecords ==
    [account : Accounts, family : Nat, rotated : BOOLEAN, revoked : BOOLEAN]

ASSUME NothingAssumption == NoSession \notin SessionRecords /\ NoRefresh \notin RefreshRecords

VARIABLES
    account,     \* the accounts
    era,         \* of each account: how often its password was set
    session,     \* the sessions
    access,      \* the access tokens issued
    refresh,     \* the refresh tokens
    call,        \* of each worker: what it has read and is about to save
    calls,       \* requests so far
    off,         \* history: accounts that were disabled or deleted
    outdated,    \* history: accounts saved over one that was not the one read
    ended,       \* history: sessions logged out or swept away
    revived,     \* history: ended sessions that a request saved once more
    cut,         \* history: families that were revoked
    overlapped,  \* history: families changed between a read and its last save
    late         \* history: accounts logged into with a password already replaced

sessionVars == <<account, era, session, access, refresh, call, calls,
                off, outdated, ended, revived, cut, overlapped, late>>
history == <<off, outdated, ended, revived, cut, overlapped, late>>

-----------------------------------------------------------------------------
NoCall == [kind |-> "idle"]

Starts(w, q) ==
    /\ call[w] = NoCall
    /\ calls < MaxCalls
    /\ calls' = calls + 1
    /\ call' = [call EXCEPT ![w] = q]

Becomes(w, q) == call' = [call EXCEPT ![w] = q]

IsActive(a) == account[a].status = "active"

-----------------------------------------------------------------------------
(* Accounts                                                                *)

MarkDisabled(c) ==
    IF c.status = "disabled" THEN c
    ELSE [c EXCEPT !.status = "disabled", !.version = @ + 1]

MarkDeleted(c) ==
    IF c.status = "deleted" THEN c
    ELSE [c EXCEPT !.status = "deleted", !.version = @ + 1]

WithProfileAlone(c, profile) == [c EXCEPT !.profile = profile]    \* mutant: no new version
WithProfile(c, profile) ==
    IF profile = c.profile THEN c
    ELSE [c EXCEPT !.profile = profile, !.version = @ + 1]

(* disable_account, delete_account and set_profile, of somebody else: the  *)
(* account is read, and saved as a whole.                                  *)
Rewrite(w, kind, a, new) ==
    /\ Starts(w, [kind |-> kind, account |-> a, read |-> account[a], new |-> new])
    /\ UNCHANGED <<account, era, session, access, refresh, history>>

DisableAccount(w, a) ==
    /\ account[a].status # "deleted"
    /\ Rewrite(w, "switch off", a, MarkDisabled(account[a]))
DeleteAccount(w, a) == Rewrite(w, "switch off", a, MarkDeleted(account[a]))
SetProfile(w, a, profile) == Rewrite(w, "profile", a, WithProfile(account[a], profile))

SaveAccount(w) ==
    LET q == call[w]
    IN  /\ q.kind \in {"switch off", "profile"}
        /\ account' = [account EXCEPT ![q.account] = q.new]
        /\ off'   = IF q.kind = "profile" THEN off ELSE off \cup {q.account}
        /\ outdated' = IF account[q.account] = q.read THEN outdated ELSE outdated \cup {q.account}
        /\ Becomes(w, IF q.kind = "profile" THEN NoCall
                      ELSE [kind |-> "sweep", account |-> q.account])
        /\ UNCHANGED <<era, session, access, refresh, calls, ended, revived, cut, overlapped, late>>

(* set_password of an administrator and change_password save a credential  *)
(* and then end every session; the version stays.                          *)
SetPassword(w, a) ==
    /\ era[a] < MaxEra
    /\ era' = [era EXCEPT ![a] = @ + 1]
    /\ Starts(w, [kind |-> "sweep", account |-> a])
    /\ UNCHANGED <<account, session, access, refresh, history>>

Of(a) == {s \in 1 .. SessionIds : session[s] # NoSession /\ session[s].account = a}

NoSweep(w) ==        \* mutant: the sessions stay
    /\ call[w].kind = "sweep"
    /\ Becomes(w, NoCall)
    /\ UNCHANGED <<account, era, session, access, refresh, calls, history>>
RevokeAllSessions(w) ==
    LET swept == Of(call[w].account)
    IN  /\ call[w].kind = "sweep"
        /\ session' = [s \in 1 .. SessionIds |-> IF s \in swept THEN NoSession ELSE session[s]]
        /\ ended' = ended \cup swept
        /\ Becomes(w, NoCall)
        /\ UNCHANGED <<account, era, access, refresh, calls, off, outdated, revived, cut, overlapped, late>>

-----------------------------------------------------------------------------
(* Logging in                                                              *)

(* login_local reads the account and its password.                         *)
Login(w, a) ==
    /\ IsActive(a)
    /\ Starts(w, [kind |-> "login", account |-> a, read |-> account[a], era |-> era[a]])
    /\ UNCHANGED <<account, era, session, access, refresh, history>>

(* create_session reads the account again, which must still be active.     *)
CheckAccount(w) ==
    LET q == call[w]
    IN  /\ q.kind = "login"
        /\ Becomes(w, IF IsActive(q.account)
                      THEN [kind |-> "create", account |-> q.account, read |-> q.read,
                            era |-> q.era, found |-> account[q.account]]
                      ELSE NoCall)
        /\ UNCHANGED <<account, era, session, access, refresh, calls, history>>

Unused(records, none) == {i \in DOMAIN records : \A j \in DOMAIN records : j >= i => records[j] = none}
Fresh(records, none, i) == i \in Unused(records, none) /\ \A j \in Unused(records, none) : i <= j

TokenFor(a, c) == [account |-> a, version |-> c.version, profile |-> c.profile]

(* The session is made with the account of the second look, the tokens     *)
(* with that of the first.  Its identifier is random: never one that ended *)
(* before.                                                                 *)
CreateSession(w) ==
    LET q == call[w]
    IN  /\ q.kind = "create"
        /\ \E s \in 1 .. SessionIds :
              /\ s \notin ended
              /\ Fresh(session, NoSession, s)
              /\ session' = [session EXCEPT ![s] =
                     [account |-> q.account, version |-> q.found.version, revoked |-> FALSE,
                      profile |-> q.found.profile, era |-> q.era]]
        /\ late' = IF q.era = era[q.account] THEN late ELSE late \cup {q.account}
        /\ Becomes(w, NoCall)
        /\ UNCHANGED <<account, era, access, refresh, calls, off, outdated, ended, revived, cut, overlapped>>

IssueTokens(w) ==
    LET q == call[w]
    IN  /\ q.kind = "login"
        /\ access' = access \cup {TokenFor(q.account, q.read)}
        /\ \/ UNCHANGED refresh
           \/ \E r \in 1 .. RefreshIds :
                 /\ Fresh(refresh, NoRefresh, r)
                 /\ refresh' = [refresh EXCEPT ![r] =
                        [account |-> q.account, family |-> r, rotated |-> FALSE, revoked |-> FALSE]]
        /\ Becomes(w, NoCall)
        /\ UNCHANGED <<account, era, session, calls, history>>

-----------------------------------------------------------------------------
(* Sessions                                                                *)

Carries(x) == IsActive(x.account) /\ account[x.account].version = x.version

Valid(s) == session[s] # NoSession /\ ~ session[s].revoked /\ Carries(session[s])

(* get_session saves the session it has read, touched; logout the same one *)
(* revoked.                                                                *)
GetSession(w, s) ==
    /\ Valid(s)
    /\ Starts(w, [kind |-> "touch", session |-> s, read |-> session[s]])
    /\ UNCHANGED <<account, era, session, access, refresh, history>>

RevokeSession(w, s) ==
    /\ session[s] # NoSession
    /\ Starts(w, [kind |-> "logout", session |-> s, read |-> session[s]])
    /\ UNCHANGED <<account, era, session, access, refresh, history>>

Revoked(q) == [q.read EXCEPT !.revoked = TRUE]

SaveSession(w) ==
    LET q == call[w]
        s == q.session
    IN  /\ q.kind \in {"touch", "logout"}
        /\ session' = [session EXCEPT ![s] =
               IF q.kind = "logout" THEN Revoked(q) ELSE q.read]
        /\ ended'   = IF q.kind = "logout" THEN ended \cup {s} ELSE ended
        /\ revived' = IF q.kind = "touch" /\ s \in ended THEN revived \cup {s} ELSE revived
        /\ Becomes(w, NoCall)
        /\ UNCHANGED <<account, era, access, refresh, calls, off, outdated, cut, overlapped, late>>

-----------------------------------------------------------------------------
(* Refresh tokens                                                          *)

IsLive(r) == refresh[r] # NoRefresh /\ ~ refresh[r].rotated /\ ~ refresh[r].revoked
Family(f) == {r \in 1 .. RefreshIds : refresh[r] # NoRefresh /\ refresh[r].family = f}
Families  == {f \in 1 .. RefreshIds : refresh[f] # NoRefresh /\ refresh[f].family = f}

(* rotate_refresh_token reads the token and the account; then it saves the *)
(* token as rotated, and its successor.                                    *)
Rotate(w, r) ==
    /\ IsLive(r) /\ IsActive(refresh[r].account)
    /\ Starts(w, [kind |-> "rotate", token |-> r, read |-> refresh[r],
                  found |-> account[refresh[r].account]])
    /\ UNCHANGED <<account, era, session, access, refresh, history>>

KeepPredecessor(q) == q.read         \* mutant: the token rotated stays active
Rotated(q) == [q.read EXCEPT !.rotated = TRUE]

NewFamily(q) == q.token              \* mutant: every rotation opens a family
FamilyOf(q)  == q.read.family

(* save_refresh_family writes the two one after the other, without a lock. *)
SaveRotation(w) ==
    LET q == call[w]
    IN  /\ q.kind = "rotate"
        /\ refresh' = [refresh EXCEPT ![q.token] = Rotated(q)]
        /\ overlapped' = IF refresh[q.token] = q.read THEN overlapped
                         ELSE overlapped \cup {q.read.family}
        /\ Becomes(w, [kind |-> "succeed", token |-> q.token, read |-> q.read, found |-> q.found])
        /\ UNCHANGED <<account, era, session, access, calls, off, outdated, ended, revived, cut, late>>

SaveSuccessor(w) ==
    LET q == call[w]
        f == FamilyOf(q)
    IN  /\ q.kind = "succeed"
        /\ \E r \in 1 .. RefreshIds :
              /\ Fresh(refresh, NoRefresh, r)
              /\ refresh' = [refresh EXCEPT ![r] = [account |-> q.read.account, family |-> f,
                                                   rotated |-> FALSE, revoked |-> FALSE]]
        /\ access' = access \cup {TokenFor(q.read.account, q.found)}
        /\ overlapped' = IF refresh[q.token] = Rotated(q) THEN overlapped ELSE overlapped \cup {f}
        /\ Becomes(w, NoCall)
        /\ UNCHANGED <<account, era, session, calls, off, outdated, ended, revived, cut, late>>

(* revoke_refresh_family lists the family and saves it, revoked.           *)
RevokeFamily(w, f) ==
    /\ f \in Families
    /\ Starts(w, [kind |-> "cut", family |-> f,
                  records |-> [r \in 1 .. RefreshIds |->
                                   IF r \in Family(f) THEN refresh[r] ELSE NoRefresh]])
    /\ UNCHANGED <<account, era, session, access, refresh, history>>

SaveFamily(w) ==
    LET q == call[w]
        members == {r \in 1 .. RefreshIds : q.records[r] # NoRefresh}
        unchanged == Family(q.family) = members /\ \A r \in members : refresh[r] = q.records[r]
    IN  /\ q.kind = "cut"
        /\ refresh' = [r \in 1 .. RefreshIds |->
               IF r \in members THEN [q.records[r] EXCEPT !.revoked = TRUE] ELSE refresh[r]]
        /\ cut' = cut \cup {q.family}
        /\ overlapped' = IF unchanged THEN overlapped ELSE overlapped \cup {q.family}
        /\ Becomes(w, NoCall)
        /\ UNCHANGED <<account, era, session, access, calls, off, outdated, ended, revived, late>>

-----------------------------------------------------------------------------
SessionsInit ==
    /\ account  = [a \in Accounts |-> [status |-> "active", profile |-> FirstProfile, version |-> 0]]
    /\ era      = [a \in Accounts |-> 0]
    /\ session  = [s \in 1 .. SessionIds |-> NoSession]
    /\ access   = {}
    /\ refresh  = [r \in 1 .. RefreshIds |-> NoRefresh]
    /\ call  = [w \in Threads |-> NoCall]
    /\ calls = 0
    /\ off = {} /\ outdated = {} /\ ended = {} /\ revived = {} /\ cut = {} /\ overlapped = {} /\ late = {}

Arriving(w) ==
    \/ \E a \in Accounts :
          \/ DisableAccount(w, a) \/ DeleteAccount(w, a)
          \/ \E profile \in SessionProfiles : SetProfile(w, a, profile)
          \/ SetPassword(w, a) \/ Login(w, a)
    \/ \E s \in 1 .. SessionIds : GetSession(w, s) \/ RevokeSession(w, s)
    \/ \E r \in 1 .. RefreshIds : Rotate(w, r) \/ RevokeFamily(w, r)

Saving(w) ==
    \/ SaveAccount(w) \/ RevokeAllSessions(w)
    \/ CheckAccount(w) \/ CreateSession(w) \/ IssueTokens(w)
    \/ SaveSession(w) \/ SaveRotation(w) \/ SaveSuccessor(w) \/ SaveFamily(w)

SessionsNext == \E w \in Threads : Arriving(w) \/ Saving(w)

SessionsSpec == SessionsInit /\ [][SessionsNext]_sessionVars

-----------------------------------------------------------------------------
(* Properties                                                              *)

Calls ==
    {NoCall} \cup
    [kind : {"switch off", "profile"}, account : Accounts, read : AccountRecords, new : AccountRecords] \cup
    [kind : {"sweep"}, account : Accounts] \cup
    [kind : {"login"}, account : Accounts, read : AccountRecords, era : Nat] \cup
    [kind : {"create"}, account : Accounts, read : AccountRecords, era : Nat, found : AccountRecords] \cup
    [kind : {"touch", "logout"}, session : 1 .. SessionIds, read : SessionRecords] \cup
    [kind : {"rotate", "succeed"}, token : 1 .. RefreshIds, read : RefreshRecords,
     found : AccountRecords] \cup
    [kind : {"cut"}, family : 1 .. RefreshIds,
     records : [1 .. RefreshIds -> RefreshRecords \cup {NoRefresh}]]

(* The types of the variables; a family of refresh tokens is known by the  *)
(* token it began with.                                                    *)
SessionsTypeOK ==
    /\ account \in [Accounts -> AccountRecords]
    /\ era \in [Accounts -> 0 .. MaxEra]
    /\ session \in [1 .. SessionIds -> SessionRecords \cup {NoSession}]
    /\ access \subseteq AccessTokens
    /\ refresh \in [1 .. RefreshIds -> RefreshRecords \cup {NoRefresh}]
    /\ call \in [Threads -> Calls]
    /\ calls \in 0 .. MaxCalls
    /\ off \subseteq Accounts /\ outdated \subseteq Accounts
    /\ revived \subseteq ended /\ ended \subseteq 1 .. SessionIds
    /\ cut \subseteq 1 .. RefreshIds /\ overlapped \subseteq 1 .. RefreshIds
    /\ late \subseteq Accounts
    /\ \A r \in 1 .. RefreshIds :
          refresh[r] # NoRefresh => refresh[r].family \in Families

(* An account that was disabled or deleted stays so, unless some request   *)
(* saved the copy it had read before.                                      *)
OffStaysOff == \A a \in off \ outdated : ~ IsActive(a)

(* Nobody keeps rights he no longer has: a session or an access token that *)
(* is accepted was issued under the very profile the account has now,      *)
(* unless an account was saved over one that was not the one read, when    *)
(* two changes share one version.                                          *)
AcceptedMeansCurrentRights ==
    /\ \A s \in 1 .. SessionIds :
          Valid(s) /\ session[s].account \notin outdated
              => session[s].profile = account[session[s].account].profile
    /\ \A t \in access :
          Carries(t) /\ t.account \notin outdated => t.profile = account[t.account].profile

(* A session that was logged out or swept away is not accepted again,      *)
(* unless a request that had read it before saved it once more.            *)
EndedStaysEnded == \A s \in ended \ revived : ~ Valid(s)

(* A new password ends the sessions opened with the old one: none of them  *)
(* is accepted once they have been swept, but for a session saved once     *)
(* more and the accounts logged into while the password changed.           *)
NewPasswordEndsSessions ==
    \A s \in 1 .. SessionIds \ revived :
        Valid(s) /\ session[s].era < era[session[s].account]
            => \/ session[s].account \in late
               \/ \E w \in Threads : call[w].kind = "sweep"
                                     /\ call[w].account = session[s].account

(* The status and the profile of an account decide at every request,       *)
(* whatever was issued before they changed.                                *)
AccountsDecide == OffStaysOff /\ AcceptedMeansCurrentRights

(* What a logout, a sweep or a new password has ended is over.             *)
SessionsEnd == EndedStaysEnded /\ NewPasswordEndsSessions

(* A refresh token is used once: its family has one live member at most,   *)
(* and none when it was revoked, unless a rotation or a revocation saved   *)
(* over a family that had changed.                                         *)
OneLiveToken ==
    \A f \in Families \ overlapped :
        /\ Cardinality({r \in Family(f) : IsLive(r)}) <= 1
        /\ f \in cut => \A r \in Family(f) : ~ IsLive(r)
=============================================================================
