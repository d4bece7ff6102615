------------------------------- MODULE Startup -------------------------------
(***************************************************************************)
(* How a frontend starts, from its settings to the moment it serves.       *)
(*                                                                         *)
(* The loaders look a setting up in the environment, then in the file, and *)
(* give up on what cannot be; the database is waited for; the tables and   *)
(* the first ACL entries are made; what is missing for the people, for the *)
(* authentication, for the extensions and for the frontend itself is found *)
(* out after that, each in its turn.  Frontends of one installation start  *)
(* at the same time, and may be killed and started again.                  *)
(***************************************************************************)
EXTENDS Naturals

CONSTANTS
    Frontends,     \* a subset of {"rest", "web", "cli"}
    Environments,  \* functions from Settings to values
    Files,         \* the same, for the configuration file
    Attempts,      \* max_attempts of _wait_for_db
    MaxStarts,     \* bound: starts of a behaviour
    MaxFlips       \* bound: times the database goes or comes back

Backends == {"auth", "persons", "provider"}
Optional == {"oidc_url", "admin_token", "realm", "issuer", "client_id", "jwks_url", "audience",
             "secret_key", "operator_id", "rate_redis", "revocation_redis", "identity_mode"}
Flags    == {"seeding_enabled", "secure_cookies"}
Settings == Backends \cup Optional \cup Flags \cup {"window", "extensions"}

(* "unset" is None, "" the empty string, which "or" passes over.           *)
Values == {"unset", "", "local", "oidc", "keycloak", "authentik", "given", "zero", "user",
           "true", "broken", "nonsense"}

ASSUME StartupAssumption ==
    /\ Frontends \subseteq {"rest", "web", "cli"}
    /\ Environments \subseteq [Settings -> Values] /\ Files \subseteq [Settings -> Values]
    /\ Attempts \in Nat \ {0} /\ MaxStarts \in Nat /\ MaxFlips \in Nat

VARIABLES
    env,        \* the environment of all the frontends
    file,       \* the file
    reachable,  \* whether the database answers
    flips,
    tables,     \* whether the tables are there
    rules,      \* how many times the first ACL entries are there
    progress,   \* of each frontend
    tries,      \* of _wait_for_db
    foundNone,  \* whether a frontend that seeds saw an empty repository
    starts,
    together    \* history: two frontends were seeding at once

startupVars == <<env, file, reachable, flips, tables, rules, progress, tries, foundNone, starts, together>>

-----------------------------------------------------------------------------
(* The settings                                                            *)

Secrets == {"secret_key", "admin_token"}
Default ==
    [n \in Settings |->
        CASE n \in {"auth", "persons"} -> "local"
          [] n = "provider" -> "authentik"
          [] n \in Flags -> "true"
          [] OTHER -> "unset"]

Passed(v) == v \in {"unset", ""}

Setting(n) ==
    IF ~ Passed(env[n]) THEN env[n]
    ELSE IF n \notin Secrets /\ file[n] # "unset" THEN file[n]
    ELSE Default[n]

Has(n) == ~ Passed(Setting(n))

(* A flag that is empty in the environment is read, and refused.           *)
Flag(n) == IF env[n] # "unset" THEN env[n] ELSE IF file[n] # "unset" THEN file[n] ELSE Default[n]

(* The settings of full OIDC win over what the file says of the people.    *)
PersonBackend ==
    IF ~ Passed(env["persons"]) THEN env["persons"]
    ELSE IF Setting("auth") = "oidc" /\ Has("oidc_url") /\ Has("admin_token") THEN "oidc"
    ELSE IF Passed(file["persons"]) THEN Default["persons"] ELSE file["persons"]

ValidBackends ==
    /\ Setting("provider") \in {"authentik", "keycloak"}
    /\ Setting("auth") \in {"local", "oidc"}
    /\ PersonBackend \in {"local", "oidc"}
    /\ Setting("window") # "zero"
    /\ PersonBackend = "oidc" => Setting("auth") = "oidc"
    /\ PersonBackend = "oidc" /\ Setting("provider") = "keycloak" => Has("realm")

(* What each create_..._app loads before build_system, and build_system.   *)
ValidRestOidc == Setting("auth") = "oidc" => Has("jwks_url") /\ Has("audience")

Accepts(f) ==
    /\ ValidBackends
    /\ Flag("seeding_enabled") = "true"
    /\ f = "rest" => ValidRestOidc
    /\ f = "web" => Flag("secure_cookies") = "true"
    /\ f = "cli" => (Setting("identity_mode") = "user" => Has("operator_id"))

(* _build_person_repos, _build_auth_service, and the last checks.          *)
CanHavePeople == PersonBackend = "oidc" => Has("oidc_url") /\ Has("admin_token")

CanAuthenticate ==
    /\ Setting("auth") = "local" => Has("secret_key")
    /\ Setting("auth") = "oidc" => Has("issuer") /\ Has("client_id")

CanLoadExtensions == Setting("extensions") # "broken"

CanFront(f) ==
    /\ f = "web" => Has("secret_key")
    /\ f = "cli" => Setting("operator_id") # "nonsense"

-----------------------------------------------------------------------------
(* A start                                                                 *)

MovesTo(f, s) == progress' = [progress EXCEPT ![f] = s]
EndsWhenFit(f, fit, next) == fit /\ MovesTo(f, next)      \* mutant: waits for it to be fit
Ends(f, fit, next) == MovesTo(f, IF fit THEN next ELSE "failed")

Launches(f) ==
    /\ progress[f] \in {"off", "failed"} /\ starts < MaxStarts
    /\ starts' = starts + 1
    /\ Ends(f, Accepts(f), "connecting")
    /\ tries' = [tries EXCEPT ![f] = 0]
    /\ UNCHANGED <<env, file, reachable, flips, tables, rules, foundNone, together>>

(* _wait_for_db, whose last attempt fails the start.                       *)
IsLast(f) == tries[f] = Attempts - 1

WaitForDb(f) ==
    /\ progress[f] = "connecting"
    /\ \/ /\ reachable
          /\ tables' = TRUE
          /\ MovesTo(f, "connected")
          /\ UNCHANGED tries
       \/ /\ ~ reachable
          /\ tries' = [tries EXCEPT ![f] = IF IsLast(f) THEN @ ELSE @ + 1]
          /\ IF IsLast(f) THEN MovesTo(f, "failed") ELSE UNCHANGED progress
          /\ UNCHANGED tables
    /\ UNCHANGED <<env, file, reachable, flips, rules, foundNone, starts, together>>

BuildPersonRepos(f) ==
    /\ progress[f] = "connected"
    /\ Ends(f, CanHavePeople, "seeding")
    /\ UNCHANGED <<env, file, reachable, flips, tables, rules, tries, foundNone, starts, together>>

(* ensure_bootstrap_entries looks, then writes and commits.                *)
LooksEmptyAlways == TRUE     \* mutant: seeds whatever is there
LooksEmpty == rules = 0

LooksForEntries(f) ==
    /\ progress[f] = "seeding" /\ reachable
    /\ foundNone' = [foundNone EXCEPT ![f] = LooksEmpty]
    /\ MovesTo(f, "looked")
    /\ together' = (together \/ \E g \in Frontends : progress[g] = "looked")
    /\ UNCHANGED <<env, file, reachable, flips, tables, rules, tries, starts>>

SeedsEntries(f) ==
    /\ progress[f] = "looked" /\ reachable
    /\ rules' = IF foundNone[f] THEN rules + 1 ELSE rules
    /\ MovesTo(f, "seeded")
    /\ UNCHANGED <<env, file, reachable, flips, tables, tries, foundNone, starts, together>>

LosesDatabase(f) ==
    /\ progress[f] \in {"seeding", "looked"} /\ ~ reachable
    /\ MovesTo(f, "failed")
    /\ UNCHANGED <<env, file, reachable, flips, tables, rules, tries, foundNone, starts, together>>

BuildServices(f) ==
    /\ progress[f] = "seeded"
    /\ Ends(f, CanAuthenticate /\ CanLoadExtensions, "built")
    /\ UNCHANGED <<env, file, reachable, flips, tables, rules, tries, foundNone, starts, together>>

Opens(f) ==
    /\ progress[f] = "built"
    /\ Ends(f, CanFront(f), "serving")
    /\ UNCHANGED <<env, file, reachable, flips, tables, rules, tries, foundNone, starts, together>>

Killed(f) ==
    /\ progress[f] \notin {"off", "failed"}
    /\ MovesTo(f, "off")
    /\ UNCHANGED <<env, file, reachable, flips, tables, rules, tries, foundNone, starts, together>>

DatabaseFlips ==
    /\ flips < MaxFlips
    /\ flips' = flips + 1 /\ reachable' = ~ reachable
    /\ UNCHANGED <<env, file, tables, rules, progress, tries, foundNone, starts, together>>

StartupInit ==
    /\ env \in Environments /\ file \in Files
    /\ reachable \in BOOLEAN /\ flips = 0
    /\ tables = FALSE /\ rules = 0
    /\ progress = [f \in Frontends |-> "off"]
    /\ tries = [f \in Frontends |-> 0]
    /\ foundNone = [f \in Frontends |-> FALSE]
    /\ starts = 0 /\ together = FALSE

GoesOn(f) ==
    \/ WaitForDb(f) \/ BuildPersonRepos(f) \/ LooksForEntries(f) \/ SeedsEntries(f)
    \/ LosesDatabase(f) \/ BuildServices(f) \/ Opens(f)

StartupNext ==
    \/ \E f \in Frontends : Launches(f) \/ GoesOn(f) \/ Killed(f)
    \/ DatabaseFlips

(* A start is a sequence of calls, which sleeps between two attempts.      *)
StartupFairness == \A f \in Frontends : WF_startupVars(GoesOn(f))

StartupSpec == StartupInit /\ [][StartupNext]_startupVars /\ StartupFairness

-----------------------------------------------------------------------------
(* Properties                                                              *)

(* The types; the entries are in tables, and the attempts are limited.     *)
StartupTypeOK ==
    /\ env \in Environments /\ file \in Files
    /\ progress \in [Frontends -> {"off", "failed", "connecting", "connected", "seeding", "looked",
                                "seeded", "built", "serving"}]
    /\ \A f \in Frontends : tries[f] \in 0 .. Attempts - 1
    /\ rules \in Nat /\ (rules > 0 => tables)
    /\ starts \in 0 .. MaxStarts

(* The first entries are there once, however often the frontends start, as *)
(* long as no two of them seed at the same time: nothing but the look at   *)
(* the repository keeps the second from it.                                *)
SeededOnce == rules > 1 => together

(* A frontend that serves has rules to go by, and a way to tell who calls: *)
(* a key, or an issuer and, for the bearer tokens of the REST API, its     *)
(* keys and its audience; people of the provider are never had without its *)
(* authentication.                                                         *)
ServingIsAble ==
    \A f \in Frontends : progress[f] = "serving" =>
        /\ rules > 0
        /\ IF Setting("auth") = "local"
           THEN ~ Passed(env["secret_key"]) /\ PersonBackend = "local"
           ELSE /\ Has("issuer") /\ Has("client_id")
                /\ f = "rest" => Has("jwks_url") /\ Has("audience")
                /\ PersonBackend = "oidc" => ~ Passed(env["admin_token"]) /\ Has("oidc_url")

(* What has started is complete, and was seeded once.                      *)
StartsAreSound == SeededOnce /\ ServingIsAble

(* Every start ends, whatever the database does: the frontend serves, was  *)
(* killed, or has failed.                                                  *)
StartsEnd ==
    \A f \in Frontends : progress[f] = "connecting" ~> progress[f] \in {"serving", "failed", "off"}
=============================================================================
