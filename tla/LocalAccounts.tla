---------------------------- MODULE LocalAccounts ----------------------------
(***************************************************************************)
(* People who log in with a password of MissionManager: the first boot,    *)
(* the credentials with their lockout, and the tokens the REST API accepts.*)
(* It follows LocalAuthAdapter, the login of the auth package it drives,   *)
(* and the handlers that call AuthService.                                 *)
(*                                                                         *)
(* login_local is not one transaction: it reads the credential, compares   *)
(* the password, and only then opens another that reads the credential     *)
(* again, changes it and hands the copy to save(), which selects the row   *)
(* once more and sends the columns that differ from it.  The databases     *)
(* differ as in ConcurrentUseCases: save() finds the snapshot of its       *)
(* transaction on MySQL and the row of the moment on PostgreSQL.           *)
(*                                                                         *)
(* Time is in ticks, several to a second: tokens count in whole seconds.   *)
(***************************************************************************)
EXTENDS Naturals, FiniteSets

CONSTANTS
    Workers,       \* threads that serve requests, in any process
    Persons,       \* identifiers of people, drawn when they are added
    Secrets,       \* passwords, each with its must_change_password
    MaxAttempts,   \* max_failed_attempts; 0 turns the lockout off
    LockTime,      \* lockout_duration_seconds, in ticks
    Second,        \* ticks in a second
    TokenTTL,      \* access_ttl, in ticks
    NoLock,        \* locked_until is NULL
    NoCredential,  \* there is no row in mm_credentials
    NoToken,
    MaxTokens,     \* bound: the tokens followed
    MaxTime,       \* bound: the ticks of a behaviour
    MaxRequests,   \* bound: the requests of a behaviour
    Databases,     \* of MySQL and PostgreSQL, those a behaviour may run on
    Stores         \* of redis and memory, the revocation stores it may have

ASSUME AccountsAssumption ==
    /\ MaxAttempts \in Nat /\ LockTime \in Nat \ {0} /\ Second \in Nat \ {0} /\ TokenTTL \in Nat
    /\ NoLock \notin Nat
    /\ MaxTokens \in Nat /\ MaxTime \in Nat /\ MaxRequests \in Nat
    /\ Databases \subseteq {"MySQL", "PostgreSQL"} /\ Stores \subseteq {"redis", "memory"}

Credentials ==
    [hash : Secrets, failed : Nat, locked : Nat \cup {NoLock}]

ASSUME NoCredentialAssumption == NoCredential \notin Credentials

Tokens == [person : Persons, exp : Nat, until : Nat, out : BOOLEAN]

ASSUME NoTokenAssumption == NoToken \notin Tokens

VARIABLES
    database, store,  \* what this deployment uses
    now,              \* the clock
    people,           \* mm_persons: "unborn", "here" or "removed"
    credential,       \* mm_credentials
    tokens,           \* the tokens issued, and until when each is refused
    request,          \* of each worker: what it has read and is about to do
    requests,         \* requests so far
    founders,         \* history: the people the setup created
    wrong,            \* history: wrong guesses since the counter was zeroed
    stale,            \* history: credentials written over one not read
    restarted         \* history: the process forgot what was in memory

vars == <<database, store, now, people, credential, tokens, request, requests,
          founders, wrong, stale, restarted>>

world == <<database, store, now>>
history == <<founders, wrong, stale>>

-----------------------------------------------------------------------------
(* Credentials                                                             *)

IsLocked(c, t) == c.locked # NoLock /\ c.locked > t

Here(p) == people[p] = "here"

(* set_password starts a credential afresh, whatever it was.               *)
FreshCredential(secret) == [hash |-> secret, failed |-> 0, locked |-> NoLock]

AfterFailureLate(c, t) ==      \* mutant: one guess too many
    [c EXCEPT !.failed = @ + 1,
              !.locked = IF MaxAttempts > 0 /\ c.failed >= MaxAttempts THEN t + LockTime ELSE @]

(* record_failure, with the time at which the login began.                 *)
AfterFailure(c, t) ==
    [c EXCEPT !.failed = @ + 1,
              !.locked = IF MaxAttempts > 0 /\ c.failed + 1 >= MaxAttempts
                         THEN t + LockTime ELSE @]

AfterSuccess(c) == [c EXCEPT !.failed = 0, !.locked = NoLock]

OverwriteAll(stored, found, new) == new     \* mutant: every column is sent
(* An UPDATE carries the columns that differ from the row save() found.    *)
ChangedColumns(stored, found, new) ==
    [c \in DOMAIN stored |-> IF new[c] = found[c] THEN stored[c] ELSE new[c]]

-----------------------------------------------------------------------------
(* Requests                                                                *)

Idle == [kind |-> "idle"]

Starts(w, q) ==
    /\ request[w] = Idle
    /\ requests < MaxRequests
    /\ requests' = requests + 1
    /\ request' = [request EXCEPT ![w] = q]

Becomes(w, q) == request' = [request EXCEPT ![w] = q]

(* GET /setup, POST /setup and create-superuser ask admin_exists first, in *)
(* a transaction of its own.                                               *)
AdminExists == \E p \in Persons : Here(p)

Setup(w) ==
    /\ ~ AdminExists
    /\ Starts(w, [kind |-> "setup"])
    /\ UNCHANGED <<world, people, credential, tokens, history, restarted>>

(* create_initial_admin adds the person, gives it level 0 and sets its     *)
(* password in one transaction, which asks nothing.                        *)
CreateInitialAdmin(w) ==
    /\ request[w].kind = "setup"
    /\ \E p \in Persons, secret \in Secrets :
          /\ people[p] = "unborn"
          /\ people'     = [people EXCEPT ![p] = "here"]
          /\ credential' = [credential EXCEPT ![p] = FreshCredential(secret)]
          /\ founders'   = founders \cup {p}
    /\ Becomes(w, Idle)
    /\ UNCHANGED <<world, tokens, requests, wrong, stale, restarted>>

(* Somebody who is here adds a person, who has no password yet.            *)
AddPerson(p) ==
    /\ AdminExists
    /\ people[p] = "unborn"
    /\ people' = [people EXCEPT ![p] = "here"]
    /\ UNCHANGED <<world, credential, tokens, request, requests, history, restarted>>

(* DELETE on a person fails while mm_credentials refers to it, and nothing *)
(* calls delete_credentials.                                               *)
RemovePerson(p) ==
    /\ Here(p) /\ credential[p] = NoCredential
    /\ people' = [people EXCEPT ![p] = "removed"]
    /\ UNCHANGED <<world, credential, tokens, request, requests, history, restarted>>

(* The login reads the credential and compares the password: a lock in     *)
(* force, or no credential at all, ends it here.                           *)
Login(w, p, secret) ==
    /\ Here(p) /\ credential[p] # NoCredential
    /\ ~ IsLocked(credential[p], now)
    /\ Starts(w, [kind |-> IF secret = credential[p].hash THEN "success" ELSE "failure",
                  stage |-> "asked", person |-> p, at |-> now])
    /\ UNCHANGED <<world, people, credential, tokens, history, restarted>>

(* record_failure and reset_failures read the credential again.            *)
ReadToCount(w) ==
    LET q == request[w]
        c == credential[q.person]
        new == IF q.kind = "failure" THEN AfterFailure(c, q.at) ELSE AfterSuccess(c)
    IN  /\ q.kind \in {"failure", "success"} /\ q.stage = "asked"
        /\ Becomes(w, [kind |-> q.kind, stage |-> IF database = "MySQL" THEN "found" ELSE "read",
                       person |-> q.person, read |-> c, found |-> c, new |-> new])
        /\ UNCHANGED <<world, people, credential, tokens, requests, history, restarted>>

(* PostgreSQL: save() selects the row of the moment.                       *)
ReadToSave(w) ==
    LET q == request[w]
    IN  /\ q.kind \in {"failure", "success"} /\ q.stage = "read"
        /\ Becomes(w, [q EXCEPT !.stage = "found", !.found = credential[q.person]])
        /\ UNCHANGED <<world, people, credential, tokens, requests, history, restarted>>

(* PUT /api/auth/password and POST /change-password.                       *)
SetPassword(w, p, secret) ==
    /\ Starts(w, [kind |-> "set", stage |-> "found", person |-> p, read |-> credential[p],
                  found |-> credential[p], new |-> FreshCredential(secret)])
    /\ UNCHANGED <<world, people, credential, tokens, history, restarted>>

-----------------------------------------------------------------------------
(* Tokens                                                                  *)

Whole(t) == t - (t % Second)

Free == {k \in 1 .. MaxTokens : tokens[k] = NoToken}

(* issue_access_token: exp is cut to whole seconds.  A login that must     *)
(* change its password gets a token as well.                               *)
Issued(p) ==
    IF Free = {} THEN tokens
    ELSE LET k == CHOOSE i \in Free : \A j \in Free : i <= j
         IN  [tokens EXCEPT ![k] = [person |-> p, exp |-> Whole(now + TokenTTL),
                                    until |-> 0, out |-> FALSE]]

(* The UPDATE, or the INSERT of set_password, which fails when somebody    *)
(* else inserted the row or the person is gone; then the request is over.  *)
Save(w) ==
    LET q == request[w]
        stored == credential[q.person]
        p == q.person
    IN  /\ q.kind \in {"failure", "success", "set"} /\ q.stage = "found"
        /\ Becomes(w, Idle)
        /\ IF q.found = NoCredential /\ ~ (stored = NoCredential /\ Here(p))
           THEN UNCHANGED <<credential, stale, wrong>>
           ELSE /\ credential' = [credential EXCEPT ![p] =
                       IF q.found = NoCredential THEN q.new
                       ELSE ChangedColumns(stored, q.found, q.new)]
                /\ stale' = IF q.read = stored /\ q.found = stored THEN stale ELSE stale \cup {p}
                /\ wrong' = [wrong EXCEPT ![p] = IF q.kind = "failure" THEN @ + 1 ELSE 0]
        /\ tokens' = IF q.kind = "success" THEN Issued(p) ELSE tokens
        /\ UNCHANGED <<world, people, requests, founders, restarted>>

InForce(k) == tokens[k] # NoToken /\ tokens[k].exp > Whole(now)

(* The delays a revocation is kept for: ttl_seconds drops the fraction of  *)
(* a second; Redis gets what is left of that when the store looks at the   *)
(* clock again, cut once more, one second at least.                        *)
KeptNoTime(k) == {now}         \* mutant: the token is forgotten at once
KeptUntil(k) ==
    LET ttl == (tokens[k].exp - now) \div Second
        cut == {ttl, IF ttl = 0 THEN 0 ELSE ttl - 1}
    IN  IF store = "memory" THEN {now + Second * ttl}
        ELSE {now + Second * (IF s = 0 THEN 1 ELSE s) : s \in cut}

(* POST /api/auth/logout.  An expired token is not revoked.                *)
Logout(k) ==
    /\ InForce(k)
    /\ \E until \in KeptUntil(k) :
          tokens' = [tokens EXCEPT ![k].until = until, ![k].out = TRUE]
    /\ UNCHANGED <<world, people, credential, request, requests, history, restarted>>

(* verify_access_token, and the person it names.                           *)
Accepted(k) ==
    /\ InForce(k)
    /\ tokens[k].until <= now
    /\ Here(tokens[k].person)

-----------------------------------------------------------------------------
(* The environment                                                         *)

Tick ==
    /\ now < MaxTime
    /\ now' = now + 1
    /\ UNCHANGED <<database, store, people, credential, tokens, request, requests,
                   history, restarted>>

(* A restart ends the requests and, without Redis, the revocations.        *)
Restart ==
    /\ ~ restarted
    /\ restarted' = TRUE
    /\ request' = [w \in Workers |-> Idle]
    /\ tokens' = [k \in 1 .. MaxTokens |->
           IF tokens[k] = NoToken \/ store = "redis" THEN tokens[k]
           ELSE [tokens[k] EXCEPT !.until = 0]]
    /\ UNCHANGED <<world, people, credential, requests, history>>

Init ==
    /\ database \in Databases /\ store \in Stores
    /\ now        = 0
    /\ people     = [p \in Persons |-> "unborn"]
    /\ credential = [p \in Persons |-> NoCredential]
    /\ tokens     = [k \in 1 .. MaxTokens |-> NoToken]
    /\ request    = [w \in Workers |-> Idle]
    /\ requests   = 0
    /\ founders   = {}
    /\ wrong      = [p \in Persons |-> 0]
    /\ stale      = {}
    /\ restarted  = FALSE

Serving(w) ==
    \/ Setup(w) \/ CreateInitialAdmin(w)
    \/ ReadToCount(w) \/ ReadToSave(w) \/ Save(w)
    \/ \E p \in Persons, secret \in Secrets :
          Login(w, p, secret) \/ SetPassword(w, p, secret)

Next ==
    \/ \E w \in Workers : Serving(w)
    \/ \E p \in Persons : AddPerson(p) \/ RemovePerson(p)
    \/ \E k \in 1 .. MaxTokens : Logout(k)
    \/ Tick \/ Restart

Spec == Init /\ [][Next]_vars

-----------------------------------------------------------------------------
(* Properties                                                              *)

Requests ==
    {Idle, [kind |-> "setup"]} \cup
    [kind : {"failure", "success"}, stage : {"asked"}, person : Persons, at : Nat] \cup
    [kind : {"failure", "success", "set"}, stage : {"read", "found"}, person : Persons,
     read : Credentials \cup {NoCredential}, found : Credentials \cup {NoCredential},
     new : Credentials]

(* The types of the variables: only people have credentials, and what a    *)
(* login counts on was there when it read it.                              *)
TypeOK ==
    /\ database \in Databases /\ store \in Stores
    /\ now \in 0 .. MaxTime
    /\ people \in [Persons -> {"unborn", "here", "removed"}]
    /\ credential \in [Persons -> Credentials \cup {NoCredential}]
    /\ tokens \in [1 .. MaxTokens -> Tokens \cup {NoToken}]
    /\ request \in [Workers -> Requests]
    /\ \A p \in Persons : credential[p] # NoCredential => Here(p)
    /\ \A w \in Workers : request[w].kind \in {"failure", "success"} =>
           credential[request[w].person] # NoCredential
    /\ requests \in 0 .. MaxRequests
    /\ founders \subseteq Persons
    /\ wrong \in [Persons -> Nat]
    /\ stale \subseteq Persons
    /\ restarted \in BOOLEAN

(* The count of failed logins is exact, and a count at the limit has set a *)
(* lock, as long as no credential was written over a row that had changed  *)
(* since it was read: concurrent logins are the only way to lose a guess.  *)
CountsAreExact ==
    \A p \in Persons : credential[p] # NoCredential /\ p \notin stale =>
        /\ credential[p].failed = wrong[p]
        /\ MaxAttempts > 0 /\ wrong[p] >= MaxAttempts => credential[p].locked # NoLock

(* What the setup created is never removed and keeps a password, whoever   *)
(* is removed and whatever overlaps: the anonymous setup never opens again.*)
FoundersStay ==
    \A p \in founders : Here(p) /\ credential[p] # NoCredential

(* Credentials outlive what overlaps: guesses are counted, and the first   *)
(* administrators keep theirs.                                             *)
CredentialsHold == CountsAreExact /\ FoundersStay

(* A token that was logged out is refused until the last two seconds of    *)
(* its life, by every process with Redis and until a restart without.      *)
RevokedStayOut ==
    \A k \in 1 .. MaxTokens :
        /\ tokens[k] # NoToken /\ tokens[k].out /\ Accepted(k)
        /\ store = "redis" \/ ~ restarted
        => now + 2 * Second > tokens[k].exp

(* On MySQL counting logins changes nothing but the lockout: a failed one  *)
(* never clears a lock, and neither kind brings an older password back,    *)
(* whatever they overlap with.                                             *)
Ends(w, p, kind) ==
    /\ request[w] # Idle /\ request[w].kind = kind /\ request[w].stage = "found"
    /\ request[w].person = p /\ request'[w] = Idle

LockoutSavesKeepPassword(p) ==
    credential[p] # NoCredential =>
        \/ \E w \in Workers : Ends(w, p, "set")
        \/ credential'[p].hash = credential[p].hash

LockoutSavesAreLocal ==
    [][database = "MySQL" => \A p \in Persons :
          /\ LockoutSavesKeepPassword(p)
          /\ credential[p] # NoCredential /\ credential[p].locked # NoLock =>
                \/ credential'[p].locked # NoLock
                \/ \E w \in Workers : Ends(w, p, "set") \/ Ends(w, p, "success")]_vars

(* credential_repository.py:46: a save of the lockout alone never touches  *)
(* the password.                                                           *)
PasswordsLast == [][\A p \in Persons : LockoutSavesKeepPassword(p)]_vars

=============================================================================
