---------------------------- MODULE PlatformProofs ----------------------------
(***************************************************************************)
(* Proofs about what is around the use cases, for any processes and bounds. *)
(*                                                                         *)
(* Startup: what serves is seeded once and able to tell who calls.         *)
(* StartsAreSound is not inductive.  What a start has passed must be       *)
(* remembered by the stage it has reached (ReachedMeans), and what it saw  *)
(* of the entries must be related to what is there now (LookedMeans): an   *)
(* empty repository that has been filled since was filled by somebody who  *)
(* was between its look and its writes at the same time.                   *)
(*                                                                         *)
(* Throttle: the quota is kept.  In memory what a key no longer holds is   *)
(* older than the window (MemoryInv).  In Redis the life of the counter    *)
(* falls into generations, at least a window apart; a call let through     *)
(* belongs to one, and a generation lets no more through than its counter  *)
(* has counted (RedisInv).                                                 *)
(*                                                                         *)
(* AddOns: plugins and extensions do what was approved.  How far a loader  *)
(* has come in its directories tells which identifiers are registered      *)
(* (LoadingInv).  A plugin is put among the hooks of a point, and taken    *)
(* out, by positions: what that does to the order of the others and to the *)
(* number of times each occurs is said by lemmas about sets of positions,  *)
(* which no induction is needed for, because the rank of a position is a   *)
(* bijection to the positions of the result (OrderOfPositions).            *)
(*                                                                         *)
(* RequestBoundary: the tables of the frontends and the checks of the      *)
(* services agree.  That is said of every route (Fits) and shown table by  *)
(* table; what a request has passed (PassedInv) and what services have     *)
(* done for it (DoneInv) then hold however often rights change, because    *)
(* the public never has more than a right to read.                         *)
(*                                                                         *)
(* The last part is about the four run together, as the run does: the      *)
(* composition implements each of them (PlatformComposes), an allowed call *)
(* being a step of the boundary and of the quota at once, and so keeps what *)
(* each of them keeps.                                                     *)
(***************************************************************************)
EXTENDS MCPlatform, FiniteSetTheorems, TLAPS

(***************************************************************************)
(* Startup                                                                 *)
(***************************************************************************)

WithTables == {"connected", "seeding", "looked", "seeded", "built", "serving"}
Accepted   == WithTables \cup {"connecting"}
WithPeople == {"seeding", "looked", "seeded", "built", "serving"}
WithRules  == {"seeded", "built", "serving"}

(* The stage of a start tells which checks it has passed.                  *)
ReachedMeans ==
    \A f \in Frontends :
        /\ progress[f] \in WithTables => tables
        /\ progress[f] \in Accepted => Accepts(f)
        /\ progress[f] \in WithPeople => CanHavePeople
        /\ progress[f] \in WithRules => rules > 0
        /\ progress[f] \in {"built", "serving"} => CanAuthenticate
        /\ progress[f] = "serving" => CanFront(f)

(* What a start saw of the entries is still so, or two were at it.         *)
LookedMeans ==
    /\ foundNone \in [Frontends -> BOOLEAN] /\ together \in BOOLEAN
    /\ tries \in [Frontends -> Nat]
    /\ \A f \in Frontends : progress[f] = "looked" =>
          /\ ~ foundNone[f] => rules > 0
          /\ foundNone[f] /\ rules > 0 => together
    /\ \A f, g \in Frontends :
          f # g /\ progress[f] = "looked" /\ progress[g] = "looked" => together

StartupInv == StartupTypeOK /\ SeededOnce /\ ReachedMeans /\ LookedMeans

(* What the checks say depends on the settings alone, which stay.          *)
LEMMA SettingsStay ==
    ASSUME UNCHANGED <<env, file>>, NEW f \in Frontends
    PROVE  /\ Accepts(f)' = Accepts(f)
           /\ CanHavePeople' = CanHavePeople
           /\ CanAuthenticate' = CanAuthenticate
           /\ CanFront(f)' = CanFront(f)
<1>1. \A n : Setting(n)' = Setting(n)
    BY DEF Setting
<1>2. \A n : Has(n)' = Has(n)
    BY <1>1 DEF Has
<1>3. PersonBackend' = PersonBackend
    BY <1>1, <1>2 DEF PersonBackend
<1>4. \A n : Flag(n)' = Flag(n)
    BY DEF Flag
<1>5. ValidBackends' = ValidBackends /\ ValidRestOidc' = ValidRestOidc
    BY <1>1, <1>2, <1>3 DEF ValidBackends, ValidRestOidc
<1>6. Accepts(f)' = Accepts(f)
    BY <1>1, <1>2, <1>4, <1>5 DEF Accepts
<1>7. CanHavePeople' = CanHavePeople
    BY <1>2, <1>3 DEF CanHavePeople
<1>8. CanAuthenticate' = CanAuthenticate /\ CanFront(f)' = CanFront(f)
    BY <1>1, <1>2 DEF CanAuthenticate, CanFront
<1> QED BY <1>6, <1>7, <1>8

LEMMA StartupInvInit == StartupInit => StartupInv
<1> SUFFICES ASSUME StartupInit PROVE StartupInv
    OBVIOUS
<1>1. StartupTypeOK
    BY StartupAssumption DEF StartupInit, StartupTypeOK
<1>2. SeededOnce
    BY DEF StartupInit, SeededOnce
<1>3. ReachedMeans
    BY DEF StartupInit, ReachedMeans, WithTables, Accepted, WithPeople, WithRules
<1>4. LookedMeans
    BY DEF StartupInit, LookedMeans
<1> QED BY <1>1, <1>2, <1>3, <1>4 DEF StartupInv

(* A start that moves to a stage, the other variables unchanged, keeps the *)
(* invariant if it has passed what the stage asks for.                     *)
Allows(f, s) ==
    /\ s \in {"off", "failed", "connecting", "seeding", "built", "serving"}
    /\ s \in WithTables => tables
    /\ s \in Accepted => Accepts(f)
    /\ s \in WithPeople => CanHavePeople
    /\ s \in WithRules => rules > 0
    /\ s \in {"built", "serving"} => CanAuthenticate
    /\ s = "serving" => CanFront(f)

LEMMA MoveKeeps ==
    ASSUME StartupInv, NEW f \in Frontends, NEW s, Allows(f, s), MovesTo(f, s),
           UNCHANGED <<env, file, tables, rules, foundNone, together>>,
           tries' \in [Frontends -> Nat], \A g \in Frontends : tries'[g] \in 0 .. Attempts - 1,
           starts' \in 0 .. MaxStarts
    PROVE  StartupInv'
<1> USE DEF StartupInv, Allows
<1>1. StartupTypeOK'
    BY DEF StartupTypeOK, MovesTo
<1>2. SeededOnce'
    BY DEF SeededOnce
<1>3. ReachedMeans'
  <2> SUFFICES ASSUME NEW g \in Frontends
               PROVE  /\ (progress[g] \in WithTables => tables)'
                      /\ (progress[g] \in Accepted => Accepts(g))'
                      /\ (progress[g] \in WithPeople => CanHavePeople)'
                      /\ (progress[g] \in WithRules => rules > 0)'
                      /\ (progress[g] \in {"built", "serving"} => CanAuthenticate)'
                      /\ (progress[g] = "serving" => CanFront(g))'
      BY DEF ReachedMeans
  <2>1. progress'[g] = IF g = f THEN s ELSE progress[g]
      BY DEF StartupTypeOK, MovesTo
  <2>2. CASE g = f
      BY <2>1, <2>2, SettingsStay
  <2>3. CASE g # f
      BY <2>1, <2>3, SettingsStay DEF ReachedMeans
  <2> QED BY <2>2, <2>3
<1>4. LookedMeans'
    BY DEF StartupTypeOK, MovesTo, LookedMeans
<1> QED BY <1>1, <1>2, <1>3, <1>4

LEMMA StartupInvStep == StartupInv /\ [StartupNext]_startupVars => StartupInv'
<1> SUFFICES ASSUME StartupInv, [StartupNext]_startupVars PROVE StartupInv'
    OBVIOUS
<1> USE StartupAssumption
<1>1. ASSUME NEW f \in Frontends, Launches(f) PROVE StartupInv'
  <2> DEFINE s == IF Accepts(f) THEN "connecting" ELSE "failed"
  <2>1. MovesTo(f, s)
      BY <1>1 DEF Launches, Ends
  <2>2. Allows(f, s)
      BY DEF Allows, WithTables, Accepted, WithPeople, WithRules
  <2>3. starts' \in 0 .. MaxStarts
      BY <1>1 DEF Launches, StartupInv, StartupTypeOK
  <2>4. tries' \in [Frontends -> Nat] /\ \A g \in Frontends : tries'[g] \in 0 .. Attempts - 1
      BY <1>1 DEF Launches, StartupInv, StartupTypeOK, LookedMeans
  <2> HIDE DEF s
  <2> QED BY <1>1, <2>1, <2>2, <2>3, <2>4, MoveKeeps DEF Launches
<1>2. ASSUME NEW f \in Frontends, WaitForDb(f) PROVE StartupInv'
  <2>1. CASE reachable
    <3>1. progress[f] = "connecting" /\ MovesTo(f, "connected") /\ tables'
        BY <1>2, <2>1 DEF WaitForDb
    <3>2. UNCHANGED <<env, file, rules, tries, foundNone, starts, together>>
        BY <1>2, <2>1 DEF WaitForDb
    <3>3. \A g \in Frontends : progress'[g] = IF g = f THEN "connected" ELSE progress[g]
        BY <3>1 DEF MovesTo, StartupInv, StartupTypeOK
    <3>4. StartupTypeOK'
        BY <1>2, <3>1, <3>2, <2>1 DEF WaitForDb, StartupInv, StartupTypeOK, MovesTo
    <3>5. SeededOnce'
        BY <3>2 DEF StartupInv, SeededOnce
    <3>6. ReachedMeans'
        BY <3>1, <3>2, <3>3, SettingsStay
           DEF StartupInv, ReachedMeans, WithTables, Accepted, WithPeople, WithRules
    <3>7. LookedMeans'
        BY <3>2, <3>3 DEF StartupInv, LookedMeans
    <3> QED BY <3>4, <3>5, <3>6, <3>7 DEF StartupInv
  <2>2. CASE ~ reachable /\ IsLast(f)
    <3>1. MovesTo(f, "failed") /\ UNCHANGED <<env, file, tables, rules, foundNone, starts, together>>
        BY <1>2, <2>2 DEF WaitForDb
    <3>2. tries' \in [Frontends -> Nat] /\ \A g \in Frontends : tries'[g] \in 0 .. Attempts - 1
        BY <1>2, <2>2 DEF WaitForDb, StartupInv, StartupTypeOK, LookedMeans
    <3>3. Allows(f, "failed")
        BY DEF Allows, WithTables, Accepted, WithPeople, WithRules
    <3>4. starts' \in 0 .. MaxStarts
        BY <3>1 DEF StartupInv, StartupTypeOK
    <3> QED BY <3>1, <3>2, <3>3, <3>4, MoveKeeps
  <2>3. CASE ~ reachable /\ ~ IsLast(f)
    <3>1. UNCHANGED <<env, file, tables, rules, progress, foundNone, starts, together>>
        BY <1>2, <2>3 DEF WaitForDb
    <3>2. tries' \in [Frontends -> Nat] /\ \A g \in Frontends : tries'[g] \in 0 .. Attempts - 1
        BY <1>2, <2>3 DEF WaitForDb, IsLast, StartupInv, StartupTypeOK, LookedMeans
    <3> QED BY <3>1, <3>2, SettingsStay
            DEF StartupInv, StartupTypeOK, SeededOnce, ReachedMeans, LookedMeans
  <2> QED BY <2>1, <2>2, <2>3
<1>3. ASSUME NEW f \in Frontends, BuildPersonRepos(f) PROVE StartupInv'
  <2> DEFINE s == IF CanHavePeople THEN "seeding" ELSE "failed"
  <2>1. MovesTo(f, s)
      BY <1>3 DEF BuildPersonRepos, Ends
  <2>2. Allows(f, s)
      BY <1>3 DEF BuildPersonRepos, StartupInv, ReachedMeans, Allows, WithTables, Accepted,
                  WithPeople, WithRules
  <2> HIDE DEF s
  <2> QED BY <1>3, <2>1, <2>2, MoveKeeps
          DEF BuildPersonRepos, StartupInv, StartupTypeOK, LookedMeans
<1>4. ASSUME NEW f \in Frontends, LooksForEntries(f) PROVE StartupInv'
  <2>1. progress[f] = "seeding" /\ UNCHANGED <<env, file, tables, rules, tries, starts>>
      BY <1>4 DEF LooksForEntries
  <2>2. \A g \in Frontends : progress'[g] = IF g = f THEN "looked" ELSE progress[g]
      BY <1>4 DEF LooksForEntries, MovesTo, StartupInv, StartupTypeOK
  <2>3. /\ rules = 0 => foundNone'[f] = TRUE
        /\ rules # 0 => foundNone'[f] = FALSE
        /\ \A g \in Frontends : g # f => foundNone'[g] = foundNone[g]
      BY <1>4 DEF LooksForEntries, LooksEmpty, StartupInv, LookedMeans
  <2>4. together' = (together \/ \E g \in Frontends : progress[g] = "looked")
      BY <1>4 DEF LooksForEntries
  <2>5. StartupTypeOK'
      BY <1>4, <2>1 DEF LooksForEntries, MovesTo, StartupInv, StartupTypeOK
  <2>6. SeededOnce'
      BY <2>1, <2>4 DEF StartupInv, SeededOnce, LookedMeans
  <2>7. ReachedMeans'
      BY <2>1, <2>2, SettingsStay
         DEF StartupInv, ReachedMeans, WithTables, Accepted, WithPeople, WithRules
  <2>8. LookedMeans'
    <3>1. foundNone' \in [Frontends -> BOOLEAN]
        BY <1>4 DEF LooksForEntries, LooksEmpty, StartupInv, LookedMeans
    <3>2. together' \in BOOLEAN
        BY <2>4 DEF StartupInv, LookedMeans
    <3>3. ASSUME NEW g \in Frontends, progress'[g] = "looked"
          PROVE  /\ ~ foundNone'[g] => rules' > 0
                 /\ foundNone'[g] /\ rules' > 0 => together'
      <4>1. rules \in Nat /\ rules' = rules
          BY <2>1 DEF StartupInv, StartupTypeOK
      <4>2. CASE g = f
        <5>1. CASE rules = 0
            BY <5>1, <4>1, <4>2, <2>3
        <5>2. CASE rules # 0
            BY <5>2, <4>1, <4>2, <2>3
        <5> QED BY <5>1, <5>2
      <4>3. CASE g # f
          BY <4>1, <4>3, <3>3, <2>2, <2>3, <2>4 DEF StartupInv, LookedMeans
      <4> QED BY <4>2, <4>3
    <3>4. ASSUME NEW g \in Frontends, NEW h \in Frontends, g # h,
                 progress'[g] = "looked", progress'[h] = "looked"
          PROVE  together'
        BY <3>4, <2>2, <2>4 DEF StartupInv, LookedMeans
    <3>5. tries' \in [Frontends -> Nat]
        BY <2>1 DEF StartupInv, LookedMeans
    <3> QED BY <3>1, <3>2, <3>3, <3>4, <3>5 DEF LookedMeans
  <2> QED BY <2>5, <2>6, <2>7, <2>8 DEF StartupInv
<1>5. ASSUME NEW f \in Frontends, SeedsEntries(f) PROVE StartupInv'
  <2>1. progress[f] = "looked" /\ UNCHANGED <<env, file, tables, tries, foundNone, starts, together>>
      BY <1>5 DEF SeedsEntries
  <2>2. \A g \in Frontends : progress'[g] = IF g = f THEN "seeded" ELSE progress[g]
      BY <1>5 DEF SeedsEntries, MovesTo, StartupInv, StartupTypeOK
  <2>3. rules' = IF foundNone[f] THEN rules + 1 ELSE rules
      BY <1>5 DEF SeedsEntries
  <2>4. rules \in Nat /\ rules' \in Nat /\ rules' >= rules /\ rules' > 0
      BY <2>1, <2>3 DEF StartupInv, StartupTypeOK, LookedMeans
  <2>5. StartupTypeOK'
    <3>1. tables
        BY <2>1 DEF StartupInv, ReachedMeans, WithTables
    <3> QED BY <1>5, <2>1, <2>4, <3>1 DEF SeedsEntries, MovesTo, StartupInv, StartupTypeOK
  <2>6. SeededOnce'
      BY <2>1, <2>3, <2>4 DEF StartupInv, SeededOnce, LookedMeans
  <2>7. ReachedMeans'
      BY <2>1, <2>2, <2>4, SettingsStay
         DEF StartupInv, ReachedMeans, WithTables, Accepted, WithPeople, WithRules
  <2>8. LookedMeans'
    <3>1. ASSUME NEW g \in Frontends, progress'[g] = "looked" PROVE together
        BY <3>1, <2>1, <2>2 DEF StartupInv, LookedMeans
    <3> QED BY <2>1, <2>2, <2>4, <3>1 DEF StartupInv, LookedMeans
  <2> QED BY <2>5, <2>6, <2>7, <2>8 DEF StartupInv
<1>6. ASSUME NEW f \in Frontends, LosesDatabase(f) PROVE StartupInv'
  <2>1. Allows(f, "failed")
      BY DEF Allows, WithTables, Accepted, WithPeople, WithRules
  <2> QED BY <1>6, <2>1, MoveKeeps DEF LosesDatabase, StartupInv, StartupTypeOK, LookedMeans
<1>7. ASSUME NEW f \in Frontends, BuildServices(f) PROVE StartupInv'
  <2> DEFINE s == IF CanAuthenticate /\ CanLoadExtensions THEN "built" ELSE "failed"
  <2>1. MovesTo(f, s)
      BY <1>7 DEF BuildServices, Ends
  <2>2. Allows(f, s)
      BY <1>7 DEF BuildServices, StartupInv, ReachedMeans, Allows, WithTables, Accepted,
                  WithPeople, WithRules
  <2> HIDE DEF s
  <2> QED BY <1>7, <2>1, <2>2, MoveKeeps DEF BuildServices, StartupInv, StartupTypeOK, LookedMeans
<1>8. ASSUME NEW f \in Frontends, Opens(f) PROVE StartupInv'
  <2> DEFINE s == IF CanFront(f) THEN "serving" ELSE "failed"
  <2>1. MovesTo(f, s)
      BY <1>8 DEF Opens, Ends
  <2>2. Allows(f, s)
      BY <1>8 DEF Opens, StartupInv, ReachedMeans, Allows, WithTables, Accepted, WithPeople,
                  WithRules
  <2> HIDE DEF s
  <2> QED BY <1>8, <2>1, <2>2, MoveKeeps DEF Opens, StartupInv, StartupTypeOK, LookedMeans
<1>9. ASSUME NEW f \in Frontends, Killed(f) PROVE StartupInv'
  <2>1. Allows(f, "off")
      BY DEF Allows, WithTables, Accepted, WithPeople, WithRules
  <2> QED BY <1>9, <2>1, MoveKeeps DEF Killed, StartupInv, StartupTypeOK, LookedMeans
<1>10. ASSUME DatabaseFlips \/ UNCHANGED startupVars PROVE StartupInv'
  <2>1. UNCHANGED <<env, file, tables, rules, progress, tries, foundNone, starts, together>>
      BY <1>10 DEF DatabaseFlips, startupVars
  <2> QED BY <2>1, SettingsStay
          DEF StartupInv, StartupTypeOK, SeededOnce, ReachedMeans, LookedMeans
<1> QED BY <1>1, <1>2, <1>3, <1>4, <1>5, <1>6, <1>7, <1>8, <1>9, <1>10
        DEF StartupNext, GoesOn

(* The invariant holds in every reachable state.                           *)
THEOREM StartupCorrect == StartupInit /\ [][StartupNext]_startupVars => []StartupInv
<1> QED BY StartupInvInit, StartupInvStep, PTL

(* The types hold for any frontends, settings and bounds.                  *)
THEOREM StartupTypeCorrect == StartupSpec => []StartupTypeOK
<1>1. StartupInv => StartupTypeOK
    BY DEF StartupInv
<1> QED BY <1>1, StartupCorrect, PTL DEF StartupSpec

(* Only the environment holds secrets.                                     *)
LEMMA SecretsAreInTheEnvironment ==
    ASSUME NEW n \in Secrets, Has(n)
    PROVE  ~ Passed(env[n])
<1>1. n \in Settings /\ n \notin {"auth", "persons", "provider"} \cup Flags
    BY DEF Secrets, Settings, Backends, Optional, Flags
<1>2. Default[n] = "unset"
    BY <1>1 DEF Default
<1> QED BY <1>2 DEF Has, Setting, Passed

(* What has passed the checks keeps what they said.                        *)
LEMMA StartupInvSound == StartupInv => StartsAreSound
<1> SUFFICES ASSUME StartupInv PROVE StartsAreSound
    OBVIOUS
<1>1. SeededOnce
    BY DEF StartupInv
<1>2. ServingIsAble
  <2> SUFFICES ASSUME NEW f \in Frontends, progress[f] = "serving"
               PROVE  /\ rules > 0
                      /\ IF Setting("auth") = "local"
                         THEN ~ Passed(env["secret_key"]) /\ PersonBackend = "local"
                         ELSE /\ Has("issuer") /\ Has("client_id")
                              /\ f = "rest" => Has("jwks_url") /\ Has("audience")
                              /\ PersonBackend = "oidc"
                                   => ~ Passed(env["admin_token"]) /\ Has("oidc_url")
      BY DEF ServingIsAble
  <2>1. rules > 0 /\ Accepts(f) /\ CanHavePeople /\ CanAuthenticate
      BY DEF StartupInv, ReachedMeans, WithTables, Accepted, WithPeople, WithRules
  <2>2. /\ Has("secret_key") => ~ Passed(env["secret_key"])
        /\ Has("admin_token") => ~ Passed(env["admin_token"])
      BY SecretsAreInTheEnvironment DEF Secrets
  <2>3. CASE Setting("auth") = "local"
      BY <2>1, <2>2, <2>3 DEF Accepts, ValidBackends, CanAuthenticate
  <2>4. CASE Setting("auth") # "local"
      BY <2>1, <2>2, <2>4 DEF Accepts, ValidBackends, ValidRestOidc, CanAuthenticate, CanHavePeople
  <2> QED BY <2>1, <2>3, <2>4
<1> QED BY <1>1, <1>2 DEF StartsAreSound

(* However the frontends of an installation start, die and start again, on *)
(* a database that comes and goes: two sets of first entries mean that two *)
(* were seeding at once, and what serves has rules and can authenticate.   *)
THEOREM StartsSound == StartupSpec => []StartsAreSound
<1> QED BY StartupInvSound, StartupCorrect, PTL DEF StartupSpec

(***************************************************************************)
(* Throttle                                                                *)
(***************************************************************************)

(* The calls let through with times in a period, and those that will be    *)
(* when their worker has gone on.                                          *)
Granted(from, to) == {i \in DOMAIN granted : from <= granted[i] /\ granted[i] <= to}
Holding(from, to) ==
    {t \in Callers : /\ caller[t].step = "counted" /\ caller[t].count <= Limit
                     /\ from <= caller[t].now /\ caller[t].now <= to}
Load(from, to) == Cardinality(Granted(from, to)) + Cardinality(Holding(from, to))

CallerRecords == [step : {"away", "called", "counted"}, now : Nat, count : Nat, ttl : Nat]

QuotaStores ==
    /\ policy \in {"memory", "redis"} /\ clock \in 0 .. MaxClock /\ calls \in 0 .. MaxCalls
    /\ granted \in Seq(Nat) /\ \A i \in DOMAIN granted : granted[i] <= clock
    /\ tallied \in Seq(Nat) /\ \A i \in DOMAIN tallied : tallied[i] <= clock
    /\ stamps \subseteq DOMAIN granted
    /\ counter \in [count : Nat, expires : Nat] /\ counter.expires <= Never
    /\ counter.count = 0 => counter = Gone
    /\ late \in BOOLEAN /\ refusal \in BOOLEAN

CallersStand ==
    /\ caller \in [Callers -> CallerRecords]
    /\ \A t \in Callers :
          /\ caller[t].step = "away" => caller[t] = Away
          /\ caller[t].now <= clock
          /\ caller[t].step = "counted" => policy = "redis"
          /\ ~ late /\ caller[t] # Away => caller[t].now = clock

(* In memory: what the key has dropped is older than the window, as long   *)
(* as no call has waited over a tick.                                      *)
MemoryInv ==
    policy = "memory" /\ ~ late =>
        /\ \A i, j \in DOMAIN granted : i <= j => granted[i] <= granted[j]
        /\ \A i \in DOMAIN granted \ stamps : granted[i] < clock - Window
        /\ \A at \in Nat : Cardinality(Granted(at, at + Window)) <= Limit

Alive == Current # Gone

(* In Redis: origins are the times at which the counter was new.            *)
Apart(origins) ==
    /\ origins \subseteq Nat
    /\ \A r, s \in origins : r < s => r + Window <= s
    /\ ~ Alive => \A s \in origins : s + Window <= clock
Covers(origins, at) == \E s \in origins : s <= at /\ \A r \in origins : r <= s \/ r > at
Covered(origins) ==
    /\ \A i \in DOMAIN granted : Covers(origins, granted[i]) /\ (~ Alive => granted[i] < clock)
    /\ \A t \in Callers : caller[t].step = "counted" =>
           Covers(origins, caller[t].now) /\ (~ Alive => caller[t].now < clock)
Shared(origins) ==
    \A s \in origins, e \in Nat : (\A r \in origins : r <= s \/ r > e) => Load(s, e) <= Limit

Lives(s) ==
    /\ s <= clock /\ s + Window <= counter.expires
    /\ \A e \in Nat : Load(s, e) <= counter.count
    /\ ~ late =>
         /\ \/ counter.expires = s + Window
            \/ counter.expires = Never /\ s = clock
               /\ \E t \in Callers : caller[t].step = "counted" /\ caller[t].ttl = Never
         /\ Cardinality({j \in DOMAIN tallied : s <= tallied[j]}) >= counter.count
         /\ \A t \in Callers : caller[t].step = "counted" =>
               caller[t].count <= counter.count /\ (caller[t].ttl = Never => s = clock)

Generations(origins) ==
    /\ origins \subseteq 0 .. clock
    /\ Apart(origins) /\ Covered(origins) /\ Shared(origins)
    /\ Alive => \E s \in origins : (\A r \in origins : r <= s) /\ Lives(s)

RedisInv ==
    policy = "redis" =>
        /\ ~ late => \A t \in Callers : caller[t].step = "counted" => Alive
        /\ \E origins \in SUBSET Nat : Generations(origins)

(* A call that has been counted no longer waits to be.                     *)
Waiting == {t \in Callers : caller[t].step = "called"}
CallsCounted == counter.count + Cardinality(Waiting) <= calls

ThrottleInv ==
    /\ QuotaStores /\ CallersStand /\ CallsCounted /\ Cardinality(stamps) <= Limit
    /\ MemoryInv /\ RedisInv /\ RefusalsAreDeserved
-----------------------------------------------------------------------------
(* Counting calls                                                          *)

LEMMA ThrottleNumbers ==
    /\ Limit \in Nat /\ Limit >= 1 /\ Window \in Nat /\ Window >= 1
    /\ MaxClock \in Nat /\ MaxCalls \in Nat /\ Never = MaxClock + Window + 1 /\ Never \in Nat
    /\ IsFiniteSet(Callers)
BY ThrottleAssumption DEF Never

LEMMA PositionsAreFinite ==
    ASSUME NEW s \in Seq(Nat), NEW S \in SUBSET DOMAIN s
    PROVE  IsFiniteSet(S) /\ Cardinality(S) \in Nat
<1>1. DOMAIN s = 1 .. Len(s) /\ Len(s) \in Int /\ 1 \in Int
    OBVIOUS
<1>2. IsFiniteSet(1 .. Len(s))
    BY <1>1, FS_Interval
<1> QED
    BY <1>1, <1>2, FS_Subset, FS_CardinalityType

LEMMA LoadsAreNumbers ==
    ASSUME QuotaStores
    PROVE  \A a, b : /\ IsFiniteSet(Granted(a, b)) /\ IsFiniteSet(Holding(a, b))
                     /\ Cardinality(Granted(a, b)) \in Nat /\ Cardinality(Holding(a, b)) \in Nat
                     /\ Load(a, b) \in Nat
<1> TAKE a, b
<1>1. IsFiniteSet(Granted(a, b)) /\ Cardinality(Granted(a, b)) \in Nat
  <2>1. Granted(a, b) \in SUBSET DOMAIN granted /\ granted \in Seq(Nat)
      BY DEF Granted, QuotaStores
  <2> QED
      BY <2>1, PositionsAreFinite
<1>2. IsFiniteSet(Holding(a, b)) /\ Cardinality(Holding(a, b)) \in Nat
  <2>1. Holding(a, b) \subseteq Callers
      BY DEF Holding
  <2> QED
      BY <2>1, ThrottleNumbers, FS_Subset, FS_CardinalityType
<1> QED
    BY <1>1, <1>2 DEF Load

(* One more call let through.                                              *)
LEMMA OneMoreGranted ==
    ASSUME QuotaStores, NEW x \in Nat, granted' = Append(granted, x), NEW a \in Nat, NEW b \in Nat
    PROVE  /\ ~ (a <= x /\ x <= b) => Granted(a, b)' = Granted(a, b)
           /\ a <= x /\ x <= b =>
                  /\ Granted(a, b)' = Granted(a, b) \cup {Len(granted) + 1}
                  /\ Cardinality(Granted(a, b)') = Cardinality(Granted(a, b)) + 1
<1>1. /\ granted \in Seq(Nat) /\ Len(granted) \in Nat /\ DOMAIN granted = 1 .. Len(granted)
      /\ DOMAIN granted' = 1 .. (Len(granted) + 1) /\ granted'[Len(granted) + 1] = x
      /\ \A i \in 1 .. Len(granted) : granted'[i] = granted[i]
    BY DEF QuotaStores
<1>2. Granted(a, b)' = {i \in DOMAIN granted' : a <= granted'[i] /\ granted'[i] <= b}
    BY DEF Granted
<1>3. CASE ~ (a <= x /\ x <= b)
    BY <1>1, <1>2, <1>3 DEF Granted
<1>4. CASE a <= x /\ x <= b
  <2>1. Granted(a, b)' = Granted(a, b) \cup {Len(granted) + 1}
      BY <1>1, <1>2, <1>4 DEF Granted
  <2>2. Len(granted) + 1 \notin Granted(a, b)
      BY <1>1 DEF Granted
  <2>3. IsFiniteSet(Granted(a, b))
      BY LoadsAreNumbers
  <2> QED
      BY <1>4, <2>1, <2>2, <2>3, FS_AddElement
<1> QED
    BY <1>3, <1>4

LEMMA GrantedStays ==
    ASSUME granted' = granted
    PROVE  \A a, b : Granted(a, b)' = Granted(a, b)
BY DEF Granted

-----------------------------------------------------------------------------
(* The stores                                                              *)

LEMMA AwayIs ==
    /\ Away \in CallerRecords /\ Away.step = "away" /\ Away.now = 0
BY DEF Away, CallerRecords

LEMMA CallerGoes ==
    ASSUME QuotaStores, CallersStand, NEW t \in Callers, NEW c \in CallerRecords, Goes(t, c),
           c.step = "away" => c = Away, c.now <= clock, c.step = "counted" => policy = "redis",
           ~ late' /\ c # Away => c.now = clock,
           clock' = clock, policy' = policy, late => late'
    PROVE  /\ CallersStand' /\ caller'[t] = c
           /\ \A u \in Callers \ {t} : caller'[u] = caller[u]
<1>1. /\ caller' \in [Callers -> CallerRecords] /\ caller'[t] = c
      /\ \A u \in Callers \ {t} : caller'[u] = caller[u]
    BY DEF Goes, CallersStand
<1>2. ASSUME NEW u \in Callers
      PROVE  /\ caller'[u].step = "away" => caller'[u] = Away'
             /\ caller'[u].now <= clock'
             /\ caller'[u].step = "counted" => policy' = "redis"
             /\ ~ late' /\ caller'[u] # Away' => caller'[u].now = clock'
  <2>1. Away' = Away
      BY DEF Away
  <2>2. CASE u = t
      BY <1>1, <2>1, <2>2
  <2>3. CASE u # t
      BY <1>1, <2>1, <2>3 DEF CallersStand
  <2> QED
      BY <2>2, <2>3
<1> QED
    BY <1>1, <1>2 DEF CallersStand

LEMMA GoesAway ==
    ASSUME QuotaStores, CallersStand, NEW t \in Callers, Goes(t, Away),
           clock' = clock, policy' = policy, late => late'
    PROVE  /\ CallersStand' /\ caller'[t] = Away
           /\ \A u \in Callers \ {t} : caller'[u] = caller[u]
<1>1. Away \in CallerRecords /\ Away.now <= clock /\ Away.step # "counted"
    BY AwayIs DEF QuotaStores
<1> QED
    BY <1>1, CallerGoes

LEMMA CallsStores ==
    ASSUME QuotaStores, CallersStand, NEW t \in Callers, Calls(t)
    PROVE  /\ QuotaStores' /\ CallersStand' /\ caller'[t].step = "called"
           /\ \A u \in Callers \ {t} : caller'[u] = caller[u]
<1> DEFINE c == [step |-> "called", now |-> clock, count |-> 0, ttl |-> 0]
<1>1. /\ Goes(t, c) /\ calls' = calls + 1 /\ calls < MaxCalls
      /\ UNCHANGED <<policy, clock, stamps, counter, granted, tallied, refusal, late>>
    BY DEF Calls
<1>2. clock \in Nat /\ calls' \in 0 .. MaxCalls
    BY <1>1, ThrottleNumbers DEF QuotaStores
<1>4. c \in CallerRecords /\ c.step = "called" /\ c.now = clock /\ c.now <= clock
    BY <1>2 DEF CallerRecords
<1> HIDE DEF c
<1>5. CallersStand' /\ caller'[t] = c /\ \A u \in Callers \ {t} : caller'[u] = caller[u]
    BY <1>1, <1>4, CallerGoes
<1>6. QuotaStores'
    BY <1>1, <1>2 DEF QuotaStores, Gone, Never
<1> QED
    BY <1>4, <1>5, <1>6

LEMMA CollectStores ==
    ASSUME QuotaStores, CallersStand, CollectGarbage
    PROVE  QuotaStores' /\ CallersStand' /\ stamps' \subseteq stamps
<1>1. stamps' \subseteq stamps
    BY DEF CollectGarbage, Collects
<1>2. UNCHANGED <<policy, clock, counter, caller, calls, granted, tallied, refusal, late>>
    BY DEF CollectGarbage
<1> QED
    BY <1>1, <1>2 DEF QuotaStores, CallersStand, Away, Gone, Never

LEMMA CheckStores ==
    ASSUME QuotaStores, CallersStand, NEW t \in Callers, CheckInMemory(t)
    PROVE  QuotaStores' /\ CallersStand'
<1>1. /\ Goes(t, Away) /\ UNCHANGED <<policy, clock, counter, calls, tallied, late>>
    BY DEF CheckInMemory
<1>2. CallersStand'
    BY <1>1, GoesAway
<1>3. PICK x \in Nat : x = caller[t].now /\ x <= clock
    BY DEF CallersStand, CallerRecords
<1>4. Kept(stamps, x) \subseteq stamps
    BY DEF Kept
<1>5. /\ granted' \in Seq(Nat) /\ (\A i \in DOMAIN granted' : granted'[i] <= clock)
      /\ stamps' \subseteq DOMAIN granted' /\ refusal' \in BOOLEAN
  <2>1. CASE Full(Kept(stamps, x))
    <3>1. stamps' = Kept(stamps, x) /\ granted' = granted /\ refusal' \in BOOLEAN
        BY <1>3, <2>1 DEF CheckInMemory
    <3> QED
        BY <1>4, <3>1 DEF QuotaStores
  <2>2. CASE ~ Full(Kept(stamps, x))
    <3>1. stamps' = Kept(stamps, x) \cup {Len(granted) + 1} /\ granted' = Append(granted, x) /\ refusal' = refusal
        BY <1>3, <2>2 DEF CheckInMemory
    <3> QED
        BY <1>3, <1>4, <3>1 DEF QuotaStores
  <2> QED
      BY <2>1, <2>2
<1>6. QuotaStores'
    BY <1>1, <1>5 DEF QuotaStores, Gone, Never
<1> QED
    BY <1>2, <1>6

LEMMA CurrentType ==
    ASSUME QuotaStores
    PROVE  /\ Current \in [count : Nat, expires : Nat] /\ Current.expires <= Never
           /\ Current.count = 0 => Current = Gone
           /\ Current \in {counter, Gone}
           /\ Gone.count = 0 /\ Gone.expires = Never
           /\ Current.expires > clock
           /\ Alive => Current = counter /\ counter.expires > clock /\ counter.count >= 1
BY ThrottleNumbers DEF QuotaStores, Current, Gone, Alive

LEMMA CountStores ==
    ASSUME QuotaStores, CallersStand, NEW t \in Callers, CountInRedis(t)
    PROVE  /\ QuotaStores' /\ CallersStand'
           /\ counter' = [count |-> Current.count + 1, expires |-> Current.expires]
           /\ caller'[t] = [step |-> "counted", now |-> clock, count |-> Current.count + 1, ttl |-> Current.expires]
           /\ \A u \in Callers \ {t} : caller'[u] = caller[u]
           /\ Alive'
<1> DEFINE c == [step |-> "counted", now |-> clock, count |-> Current.count + 1, ttl |-> Current.expires]
<1>1. PICK n \in Nat, x \in Nat : Current = [count |-> n, expires |-> x] /\ x <= Never /\ x > clock
    BY CurrentType
<1>2. clock \in Nat /\ UNCHANGED <<policy, clock, stamps, calls, granted, refusal, late>> /\ policy = "redis"
    BY DEF CountInRedis, QuotaStores
<1>3. c \in CallerRecords /\ c.step = "counted" /\ c.now = clock /\ c.now <= clock
    BY <1>1, <1>2 DEF CallerRecords
<1>4. Goes(t, c)
    BY DEF CountInRedis
<1>5. counter' = [count |-> n + 1, expires |-> x] /\ n + 1 # 0
    BY <1>1 DEF CountInRedis
<1>6. CallersStand' /\ caller'[t] = c /\ \A u \in Callers \ {t} : caller'[u] = caller[u]
  <2> HIDE DEF c
  <2> QED
      BY <1>2, <1>3, <1>4, CallerGoes
<1>7. tallied' \in Seq(Nat) /\ \A i \in DOMAIN tallied' : tallied'[i] <= clock
    BY DEF CountInRedis, QuotaStores
<1>8. QuotaStores'
  <2>1. counter' \in [count : Nat, expires : Nat] /\ counter'.expires <= Never /\ counter'.count # 0
      BY <1>1, <1>5
  <2> QED
      BY <1>2, <1>7, <2>1 DEF QuotaStores, Never
<1>9. Alive'
  <2>1. Current' = counter'
      BY <1>1, <1>2, <1>5 DEF Current, QuotaStores
  <2> QED
      BY <1>5, <2>1 DEF Alive, Gone
<1> QED
    BY <1>1, <1>5, <1>6, <1>8, <1>9

LEMMA DecideStores ==
    ASSUME QuotaStores, CallersStand, NEW t \in Callers, DecideInRedis(t)
    PROVE  /\ QuotaStores' /\ CallersStand' /\ caller'[t] = Away
           /\ \A u \in Callers \ {t} : caller'[u] = caller[u]
<1>1. Goes(t, Away) /\ UNCHANGED <<policy, clock, stamps, calls, tallied, late>>
    BY DEF DecideInRedis
<1>2. CallersStand' /\ caller'[t] = Away /\ \A u \in Callers \ {t} : caller'[u] = caller[u]
    BY <1>1, GoesAway
<1>3. PICK x \in Nat : x = caller[t].now /\ x <= clock
    BY DEF CallersStand, CallerRecords
<1>4. counter' \in [count : Nat, expires : Nat] /\ counter'.expires <= Never /\ (counter'.count = 0 => counter' = Gone)
  <2>1. CASE caller[t].ttl = Never /\ Current # Gone
    <3>1. counter' = [Current EXCEPT !.expires = clock + Window] /\ Current.count # 0
        BY <2>1, CurrentType DEF DecideInRedis, Expires
    <3>2. clock + Window \in Nat /\ clock + Window <= Never
        BY ThrottleNumbers DEF QuotaStores
    <3> QED
        BY <3>1, <3>2, CurrentType
  <2>2. CASE ~ (caller[t].ttl = Never /\ Current # Gone)
    <3>1. counter' = Current
        BY <2>2 DEF DecideInRedis, Expires
    <3> QED
        BY <3>1, CurrentType
  <2> QED
      BY <2>1, <2>2
<1>5. /\ granted' \in Seq(Nat) /\ (\A i \in DOMAIN granted' : granted'[i] <= clock)
      /\ stamps \subseteq DOMAIN granted' /\ refusal' \in BOOLEAN
  <2>1. CASE caller[t].count > Limit
    <3>1. granted' = granted /\ refusal' = (Within(tallied, caller[t].now - Window, clock) > Limit)
        BY <2>1 DEF DecideInRedis
    <3>2. \A n : (n > Limit) \in BOOLEAN
        OBVIOUS
    <3> QED
        BY <3>1, <3>2 DEF QuotaStores
  <2>2. CASE ~ (caller[t].count > Limit)
    <3>1. granted' = Append(granted, x) /\ refusal' = refusal
        BY <1>3, <2>2 DEF DecideInRedis
    <3> QED
        BY <1>3, <3>1 DEF QuotaStores
  <2> QED
      BY <2>1, <2>2
<1>6. QuotaStores'
    BY <1>1, <1>4, <1>5 DEF QuotaStores, Gone, Never
<1> QED
    BY <1>2, <1>6

LEMMA DiesStores ==
    ASSUME QuotaStores, CallersStand, NEW t \in Callers, Dies(t)
    PROVE  /\ QuotaStores' /\ CallersStand' /\ caller'[t] = Away
           /\ \A u \in Callers \ {t} : caller'[u] = caller[u]
<1>1. Goes(t, Away) /\ UNCHANGED <<policy, clock, stamps, counter, calls, granted, tallied, refusal>> /\ late' = TRUE
    BY DEF Dies
<1>2. CallersStand' /\ caller'[t] = Away /\ \A u \in Callers \ {t} : caller'[u] = caller[u]
    BY <1>1, GoesAway
<1>3. QuotaStores'
    BY <1>1 DEF QuotaStores, Gone, Never
<1> QED
    BY <1>2, <1>3

LEMMA TickStores ==
    ASSUME QuotaStores, CallersStand, ClockTicks
    PROVE  /\ QuotaStores' /\ CallersStand' /\ clock' = clock + 1 /\ (late => late')
           /\ ~ late' => \A t \in Callers : caller[t] = Away
<1>1. UNCHANGED <<policy, stamps, counter, caller, calls, granted, tallied, refusal>>
    BY DEF ClockTicks
<1>2. clock' = clock + 1 /\ clock' \in 0 .. MaxClock /\ clock \in Nat
    BY ThrottleNumbers DEF ClockTicks, QuotaStores
<1>3. late' \in BOOLEAN /\ (late => late') /\ (~ late' => \A t \in Callers : caller[t] = Away)
    BY DEF ClockTicks
<1>4. (\A i \in DOMAIN granted : granted[i] <= clock') /\ (\A i \in DOMAIN tallied : tallied[i] <= clock')
  <2>1. (\A i \in DOMAIN granted : granted[i] \in Nat) /\ (\A i \in DOMAIN tallied : tallied[i] \in Nat)
      BY DEF QuotaStores
  <2> QED
      BY <1>2, <2>1 DEF QuotaStores
<1>5. QuotaStores'
    BY <1>1, <1>2, <1>3, <1>4 DEF QuotaStores, Gone, Never
<1>6. CallersStand'
  <2>1. \A t \in Callers : caller[t].now \in Nat /\ caller[t].now <= clock'
      BY <1>2 DEF CallersStand, CallerRecords
  <2> QED
      BY <1>1, <1>3, <2>1 DEF CallersStand, Away
<1> QED
    BY <1>2, <1>3, <1>5, <1>6

-----------------------------------------------------------------------------
(* In memory                                                               *)

LEMMA OldStay ==
    ASSUME QuotaStores, MemoryInv, UNCHANGED <<policy, clock, stamps, granted>>, late => late'
    PROVE  MemoryInv'
<1>1. \A a, b : Granted(a, b)' = Granted(a, b)
    BY GrantedStays
<1> QED
    BY <1>1 DEF MemoryInv, QuotaStores

LEMMA CollectMemory ==
    ASSUME QuotaStores, MemoryInv, CollectGarbage
    PROVE  MemoryInv'
<1>1. UNCHANGED <<policy, clock, granted, late>> /\ stamps' = Collects(stamps, clock)
    BY DEF CollectGarbage
<1>2. CASE stamps' = stamps
    BY <1>1, <1>2, OldStay
<1>3. CASE stamps' # stamps
  <2>1. PICK i \in stamps : Newest(stamps, i) /\ granted[i] < clock - Window /\ stamps' = {}
      BY <1>1, <1>3 DEF Collects
  <2>2. SUFFICES ASSUME policy = "memory", ~ late
                 PROVE  \A j \in DOMAIN granted \ stamps' : granted[j] < clock - Window
    <3>1. \A a, b : Granted(a, b)' = Granted(a, b)
        BY <1>1, GrantedStays
    <3> QED
        BY <1>1, <3>1 DEF MemoryInv
  <2>3. TAKE j \in DOMAIN granted \ stamps'
  <2>4. CASE j \in stamps
    <3>1. j <= i /\ i \in DOMAIN granted /\ j \in DOMAIN granted
        BY <2>1, <2>4 DEF Newest, QuotaStores
    <3>2. granted[j] <= granted[i]
        BY <2>2, <3>1 DEF MemoryInv
    <3>3. granted[j] \in Nat /\ granted[i] \in Nat /\ clock - Window \in Int
        BY <3>1, ThrottleNumbers DEF QuotaStores
    <3> QED
        BY <2>1, <3>2, <3>3
  <2>5. CASE j \notin stamps
      BY <2>2, <2>5 DEF MemoryInv
  <2> QED
      BY <2>4, <2>5
<1> QED
    BY <1>2, <1>3

LEMMA TickMemory ==
    ASSUME QuotaStores, MemoryInv, ClockTicks
    PROVE  MemoryInv'
<1>1. UNCHANGED <<policy, stamps, granted>> /\ clock' = clock + 1 /\ (late => late') /\ clock \in Nat
    BY DEF ClockTicks, QuotaStores
<1>2. \A a, b : Granted(a, b)' = Granted(a, b)
    BY <1>1, GrantedStays
<1>3. \A i \in DOMAIN granted : granted[i] \in Nat /\ (granted[i] < clock - Window => granted[i] < clock' - Window)
    BY <1>1, ThrottleNumbers DEF QuotaStores
<1> QED
    BY <1>1, <1>2, <1>3 DEF MemoryInv

LEMMA CheckMemory ==
    ASSUME QuotaStores, CallersStand, MemoryInv, Cardinality(stamps) <= Limit, RefusalsAreDeserved,
           NEW t \in Callers, CheckInMemory(t)
    PROVE  MemoryInv' /\ Cardinality(stamps') <= Limit /\ RefusalsAreDeserved'
<1>1. PICK x \in Nat : /\ x = caller[t].now /\ x <= clock /\ clock \in Nat
                       /\ ~ late => x = clock
                       /\ caller[t].step = "called" /\ UNCHANGED <<policy, clock, late>>
  <2>1. caller[t] # Away
      BY AwayIs DEF CheckInMemory
  <2> QED
      BY <2>1 DEF CheckInMemory, CallersStand, CallerRecords, QuotaStores
<1>2. PICK kept : kept = Kept(stamps, x)
    OBVIOUS
<1>3. /\ kept \in SUBSET stamps /\ IsFiniteSet(kept) /\ Cardinality(kept) \in Nat /\ Cardinality(kept) <= Limit
      /\ \A i \in kept : i \in DOMAIN granted /\ granted[i] \in Nat /\ granted[i] >= x - Window /\ granted[i] <= clock
      /\ \A i \in stamps \ kept : granted[i] < x - Window
  <2>1. kept \subseteq stamps /\ IsFiniteSet(stamps) /\ Cardinality(stamps) \in Nat
      BY <1>2, PositionsAreFinite DEF Kept, QuotaStores
  <2>2. IsFiniteSet(kept) /\ Cardinality(kept) \in Nat /\ Cardinality(kept) <= Cardinality(stamps)
      BY <2>1, FS_Subset, FS_CardinalityType
  <2>3. \A i \in stamps : i \in DOMAIN granted /\ granted[i] \in Nat /\ granted[i] <= clock
      BY DEF QuotaStores
  <2> QED
      BY <1>1, <1>2, <2>1, <2>2, <2>3, ThrottleNumbers DEF Kept
<1>4. CASE Full(kept)
  <2>1. /\ stamps' = kept /\ granted' = granted
        /\ refusal' = (Within(granted, x - Window, clock) >= Limit)
      BY <1>1, <1>2, <1>4 DEF CheckInMemory
  <2>2. refusal'
    <3> DEFINE W == {i \in DOMAIN granted : x - Window <= granted[i] /\ granted[i] <= clock}
    <3>1. W \in SUBSET DOMAIN granted /\ granted \in Seq(Nat)
        BY DEF QuotaStores
    <3>2. IsFiniteSet(W) /\ Cardinality(W) \in Nat
        BY <3>1, PositionsAreFinite
    <3>3. \A i \in kept : i \in DOMAIN granted /\ x - Window <= granted[i] /\ granted[i] <= clock
        BY <1>1, <1>3, ThrottleNumbers
    <3>4. kept \subseteq W
        BY <3>3
    <3>5. Cardinality(kept) <= Cardinality(W)
        BY <3>2, <3>4, FS_Subset
    <3>6. Cardinality(W) >= Limit
        BY <1>3, <1>4, <3>2, <3>5, ThrottleNumbers DEF Full
    <3> QED
        BY <2>1, <3>6 DEF Within
  <2>3. MemoryInv'
    <3>1. \A a, b : Granted(a, b)' = Granted(a, b)
        BY <2>1, GrantedStays
    <3>2. ASSUME policy = "memory", ~ late, NEW i \in DOMAIN granted \ kept
          PROVE  granted[i] < clock - Window
      <4>1. CASE i \in stamps
          BY <1>1, <1>3, <3>2, <4>1
      <4>2. CASE i \notin stamps
          BY <3>2, <4>2 DEF MemoryInv
      <4> QED
          BY <4>1, <4>2
    <3> QED
        BY <1>1, <2>1, <3>1, <3>2 DEF MemoryInv
  <2> QED
      BY <1>3, <2>1, <2>2, <2>3 DEF RefusalsAreDeserved
<1>5. CASE ~ Full(kept)
  <2>1. /\ stamps' = kept \cup {Len(granted) + 1} /\ granted' = Append(granted, x) /\ refusal' = refusal
      BY <1>1, <1>2, <1>5 DEF CheckInMemory
  <2>2. Cardinality(kept) < Limit
      BY <1>3, <1>5, ThrottleNumbers DEF Full
  <2>3. Cardinality(stamps') <= Limit
    <3>1. Cardinality(stamps') \in {Cardinality(kept), Cardinality(kept) + 1}
        BY <1>3, <2>1, FS_AddElement
    <3> QED
        BY <1>3, <2>2, <3>1, ThrottleNumbers
  <2>4. /\ granted \in Seq(Nat) /\ Len(granted) \in Nat /\ DOMAIN granted = 1 .. Len(granted)
        /\ DOMAIN granted' = 1 .. (Len(granted) + 1) /\ granted'[Len(granted) + 1] = x
        /\ \A i \in 1 .. Len(granted) : granted'[i] = granted[i] /\ granted[i] \in Nat /\ granted[i] <= clock
      BY <2>1 DEF QuotaStores
  <2>5. ASSUME policy = "memory", ~ late
        PROVE  /\ \A i, j \in DOMAIN granted' : i <= j => granted'[i] <= granted'[j]
               /\ \A i \in DOMAIN granted' \ stamps' : granted'[i] < clock - Window
    <3>1. x = clock
        BY <1>1, <2>5
    <3>2. \A i, j \in 1 .. Len(granted) : i <= j => granted[i] <= granted[j]
        BY <2>4, <2>5 DEF MemoryInv
    <3>3. \A i \in 1 .. Len(granted) : i \notin kept => granted[i] < clock - Window
        BY <1>3, <2>4, <2>5, <3>1 DEF MemoryInv
    <3>4. ASSUME NEW i \in DOMAIN granted', NEW j \in DOMAIN granted', i <= j
          PROVE  granted'[i] <= granted'[j]
      <4>1. i \in 1 .. Len(granted) \/ i = Len(granted) + 1
          BY <2>4
      <4>2. CASE j \in 1 .. Len(granted)
          BY <2>4, <3>2, <3>4, <4>1, <4>2
      <4>3. CASE j = Len(granted) + 1
          BY <1>1, <2>4, <3>1, <4>1, <4>3
      <4> QED
          BY <2>4, <4>2, <4>3
    <3>5. ASSUME NEW i \in DOMAIN granted' \ stamps' PROVE granted'[i] < clock - Window
        BY <2>1, <2>4, <3>3
    <3> QED
        BY <3>4, <3>5
  <2>6. ASSUME policy = "memory", ~ late, NEW at \in Nat
        PROVE  Cardinality(Granted(at, at + Window)') <= Limit
    <3>1. at + Window \in Nat /\ x = clock
        BY <1>1, <2>6, ThrottleNumbers
    <3>2. Cardinality(Granted(at, at + Window)) <= Limit
        BY <2>6 DEF MemoryInv
    <3>3. CASE ~ (at <= x /\ x <= at + Window)
      <4>1. Granted(at, at + Window)' = Granted(at, at + Window)
          BY <2>1, <3>1, <3>3, OneMoreGranted
      <4> QED
          BY <3>2, <4>1
    <3>4. CASE at <= x /\ x <= at + Window
      <4>1. Cardinality(Granted(at, at + Window)') = Cardinality(Granted(at, at + Window)) + 1
          BY <2>1, <3>1, <3>4, OneMoreGranted
      <4>2. ASSUME NEW i \in Granted(at, at + Window) PROVE i \in kept
        <5>1. i \in DOMAIN granted /\ granted[i] >= at /\ granted[i] \in Nat /\ clock - Window <= at
            BY <1>1, <3>1, <3>4, ThrottleNumbers DEF Granted, QuotaStores
        <5>2. ~ (granted[i] < clock - Window)
            BY <1>1, <5>1, ThrottleNumbers
        <5>3. i \in stamps
            BY <2>6, <5>1, <5>2 DEF MemoryInv
        <5> QED
            BY <1>3, <3>1, <5>2, <5>3
      <4>3. Cardinality(Granted(at, at + Window)) <= Cardinality(kept) /\ Cardinality(Granted(at, at + Window)) \in Nat
          BY <1>3, <4>2, FS_Subset, LoadsAreNumbers
      <4> QED
          BY <1>3, <2>2, <4>1, <4>3, ThrottleNumbers
    <3> QED
        BY <3>3, <3>4
  <2>7. MemoryInv'
      BY <1>1, <2>5, <2>6 DEF MemoryInv
  <2>8. RefusalsAreDeserved'
      BY <1>1, <2>1 DEF RefusalsAreDeserved
  <2> QED
      BY <2>3, <2>7, <2>8
<1> QED
    BY <1>4, <1>5

-----------------------------------------------------------------------------
(* In Redis                                                                *)

(* What is held when one caller moves.                                     *)
LEMMA HoldingMoves ==
    ASSUME QuotaStores, NEW t \in Callers, \A u \in Callers \ {t} : caller'[u] = caller[u], NEW a, NEW b
    PROVE  /\ Holding(a, b)' \ {t} = Holding(a, b) \ {t}
           /\ t \in Holding(a, b) <=>
                  /\ caller[t].step = "counted" /\ caller[t].count <= Limit
                  /\ a <= caller[t].now /\ caller[t].now <= b
           /\ t \in Holding(a, b)' <=>
                  /\ caller'[t].step = "counted" /\ caller'[t].count <= Limit
                  /\ a <= caller'[t].now /\ caller'[t].now <= b
<1>1. Holding(a, b)' = {u \in Callers : /\ caller'[u].step = "counted" /\ caller'[u].count <= Limit
                                        /\ a <= caller'[u].now /\ caller'[u].now <= b}
    BY DEF Holding
<1> QED
    BY <1>1 DEF Holding

LEMMA HoldingCount ==
    ASSUME QuotaStores, NEW t \in Callers, \A u \in Callers \ {t} : caller'[u] = caller[u], NEW a, NEW b
    PROVE  /\ t \in Holding(a, b) /\ t \notin Holding(a, b)' =>
                  Cardinality(Holding(a, b)') = Cardinality(Holding(a, b)) - 1
           /\ t \notin Holding(a, b) /\ t \in Holding(a, b)' =>
                  Cardinality(Holding(a, b)') = Cardinality(Holding(a, b)) + 1
           /\ t \notin Holding(a, b) /\ t \notin Holding(a, b)' => Holding(a, b)' = Holding(a, b)
<1>1. Holding(a, b)' \ {t} = Holding(a, b) \ {t}
    BY HoldingMoves
<1>2. IsFiniteSet(Holding(a, b)) /\ Cardinality(Holding(a, b)) \in Nat
    BY LoadsAreNumbers
<1>3. CASE t \in Holding(a, b) /\ t \notin Holding(a, b)'
  <2>1. Holding(a, b)' = Holding(a, b) \ {t}
      BY <1>1, <1>3
  <2> QED
      BY <1>2, <1>3, <2>1, FS_RemoveElement
<1>4. CASE t \notin Holding(a, b) /\ t \in Holding(a, b)'
  <2>1. Holding(a, b)' = Holding(a, b) \cup {t}
      BY <1>1, <1>4
  <2> QED
      BY <1>2, <1>4, <2>1, FS_AddElement
<1>5. CASE t \notin Holding(a, b) /\ t \notin Holding(a, b)'
    BY <1>1, <1>5
<1> QED
    BY <1>3, <1>4, <1>5

LEMMA CountLoad ==
    ASSUME QuotaStores, CallersStand, NEW t \in Callers, CountInRedis(t), NEW a \in Nat, NEW b \in Nat
    PROVE  IF counter'.count <= Limit /\ a <= clock /\ clock <= b
           THEN Load(a, b)' = Load(a, b) + 1 ELSE Load(a, b)' = Load(a, b)
<1>1. /\ caller[t].step = "called" /\ granted' = granted
      /\ caller'[t].step = "counted" /\ caller'[t].now = clock /\ caller'[t].count = counter'.count
      /\ \A u \in Callers \ {t} : caller'[u] = caller[u]
    BY CountStores DEF CountInRedis
<1>2. Granted(a, b)' = Granted(a, b)
    BY <1>1, GrantedStays
<1>3. /\ Cardinality(Granted(a, b)) \in Nat /\ Cardinality(Holding(a, b)) \in Nat
      /\ Load(a, b) = Cardinality(Granted(a, b)) + Cardinality(Holding(a, b))
      /\ Load(a, b)' = Cardinality(Granted(a, b)) + Cardinality(Holding(a, b)')
    BY <1>2, LoadsAreNumbers DEF Load
<1>4. t \notin Holding(a, b)
    BY <1>1, HoldingMoves
<1>5. CASE counter'.count <= Limit /\ a <= clock /\ clock <= b
  <2>1. t \in Holding(a, b)'
      BY <1>1, <1>5, HoldingMoves
  <2>2. Cardinality(Holding(a, b)') = Cardinality(Holding(a, b)) + 1
      BY <1>1, <1>4, <2>1, HoldingCount
  <2> QED
      BY <1>3, <1>5, <2>2
<1>6. CASE ~ (counter'.count <= Limit /\ a <= clock /\ clock <= b)
  <2>1. t \notin Holding(a, b)'
      BY <1>1, <1>6, HoldingMoves
  <2>2. Holding(a, b)' = Holding(a, b)
      BY <1>1, <1>4, <2>1, HoldingCount
  <2> QED
      BY <1>3, <1>6, <2>2
<1> QED
    BY <1>5, <1>6

LEMMA DecideLoad ==
    ASSUME QuotaStores, CallersStand, NEW t \in Callers, DecideInRedis(t), NEW a \in Nat, NEW b \in Nat
    PROVE  Load(a, b)' = Load(a, b)
<1>1. /\ caller[t].step = "counted" /\ caller'[t].step = "away"
      /\ \A u \in Callers \ {t} : caller'[u] = caller[u]
    BY AwayIs, DecideStores DEF DecideInRedis
<1>2. t \notin Holding(a, b)'
    BY <1>1, HoldingMoves
<1>3. /\ Cardinality(Granted(a, b)) \in Nat /\ Cardinality(Holding(a, b)) \in Nat
      /\ Load(a, b) = Cardinality(Granted(a, b)) + Cardinality(Holding(a, b))
      /\ Load(a, b)' = Cardinality(Granted(a, b)') + Cardinality(Holding(a, b)')
    BY LoadsAreNumbers DEF Load
<1>4. PICK x \in Nat : x = caller[t].now
    BY DEF CallersStand, CallerRecords
<1>5. CASE caller[t].count > Limit
  <2>1. granted' = granted
      BY <1>5 DEF DecideInRedis
  <2>2. ~ (caller[t].count <= Limit)
      BY <1>5, ThrottleNumbers DEF CallersStand, CallerRecords
  <2>3. t \notin Holding(a, b)
      BY <1>1, <2>2, HoldingMoves
  <2>4. Holding(a, b)' = Holding(a, b)
      BY <1>1, <1>2, <2>3, HoldingCount
  <2> QED
      BY <1>3, <2>1, <2>4, GrantedStays
<1>6. CASE ~ (caller[t].count > Limit)
  <2>1. granted' = Append(granted, x)
      BY <1>4, <1>6 DEF DecideInRedis
  <2>2. caller[t].count <= Limit
      BY <1>6, ThrottleNumbers DEF CallersStand, CallerRecords
  <2>3. CASE a <= x /\ x <= b
    <3>1. t \in Holding(a, b)
        BY <1>1, <1>4, <2>2, <2>3, HoldingMoves
    <3>2. Cardinality(Holding(a, b)') = Cardinality(Holding(a, b)) - 1
        BY <1>1, <1>2, <3>1, HoldingCount
    <3>3. Cardinality(Granted(a, b)') = Cardinality(Granted(a, b)) + 1
        BY <2>1, <2>3, OneMoreGranted
    <3> QED
        BY <1>3, <3>2, <3>3
  <2>4. CASE ~ (a <= x /\ x <= b)
    <3>1. t \notin Holding(a, b)
        BY <1>1, <1>4, <2>4, HoldingMoves
    <3>2. Holding(a, b)' = Holding(a, b)
        BY <1>1, <1>2, <3>1, HoldingCount
    <3>3. Granted(a, b)' = Granted(a, b)
        BY <2>1, <2>4, OneMoreGranted
    <3> QED
        BY <1>3, <3>2, <3>3
  <2> QED
      BY <2>3, <2>4
<1> QED
    BY <1>5, <1>6

LEMMA DiesLoad ==
    ASSUME QuotaStores, CallersStand, NEW t \in Callers, Dies(t)
    PROVE  \A a, b : Load(a, b)' \in Nat /\ Load(a, b)' <= Load(a, b)
<1> TAKE a, b
<1>1. /\ caller'[t].step = "away" /\ \A u \in Callers \ {t} : caller'[u] = caller[u]
    BY AwayIs, DiesStores
<1>2. Holding(a, b)' \subseteq Holding(a, b)
    BY <1>1, HoldingMoves
<1>3. IsFiniteSet(Holding(a, b)) /\ Cardinality(Holding(a, b)) \in Nat /\ Cardinality(Granted(a, b)) \in Nat
    BY LoadsAreNumbers
<1>4. Cardinality(Holding(a, b)') <= Cardinality(Holding(a, b)) /\ Cardinality(Holding(a, b)') \in Nat
    BY <1>2, <1>3, FS_Subset, FS_CardinalityType
<1>5. Granted(a, b)' = Granted(a, b)
    BY GrantedStays DEF Dies
<1> QED
    BY <1>3, <1>4, <1>5 DEF Load

LEMMA SameLoad ==
    ASSUME granted' = granted, \A t \in Callers : caller[t].step = "counted" \/ caller'[t].step = "counted" =>
               caller'[t] = caller[t]
    PROVE  \A a, b : Load(a, b)' = Load(a, b)
<1> TAKE a, b
<1>1. Holding(a, b)' = Holding(a, b)
    BY DEF Holding
<1> QED
    BY <1>1, GrantedStays DEF Load

(* Nothing of the counter moves.                                           *)
LEMMA RedisStays ==
    ASSUME QuotaStores, RedisInv, UNCHANGED <<policy, clock, counter, granted, tallied, late>>,
           \A t \in Callers : caller[t].step = "counted" \/ caller'[t].step = "counted" => caller'[t] = caller[t]
    PROVE  RedisInv'
<1>1. SUFFICES ASSUME policy = "redis" PROVE RedisInv'
    BY DEF RedisInv
<1>2. PICK origins \in SUBSET Nat : Generations(origins)
    BY <1>1 DEF RedisInv
<1>3. \A a, b : Load(a, b)' = Load(a, b)
    BY SameLoad
<1>4. Alive' <=> Alive
    BY DEF Alive, Current, Gone, Never
<1>5. Covered(origins)'
    BY <1>2, <1>4 DEF Generations, Covered, Covers
<1>6. Apart(origins)' /\ Shared(origins)'
    BY <1>2, <1>3, <1>4 DEF Generations, Apart, Shared
<1>7. ASSUME NEW s \in origins, Lives(s) PROVE Lives(s)'
    BY <1>3, <1>7 DEF Lives
<1>8. Generations(origins)'
    BY <1>2, <1>4, <1>5, <1>6, <1>7 DEF Generations
<1> QED
    BY <1>4, <1>8 DEF RedisInv

(* One more counted: the counter goes on.                                  *)
LEMMA TalliedMore ==
    ASSUME QuotaStores, CallersStand, NEW t \in Callers, CountInRedis(t), NEW s \in Nat, s <= clock
    PROVE  LET n == Cardinality({j \in DOMAIN tallied : s <= tallied[j]})
           IN  n \in Nat /\ Cardinality({j \in DOMAIN tallied : s <= tallied[j]})' = n + 1
<1> DEFINE T == {j \in DOMAIN tallied : s <= tallied[j]}
<1>1. /\ tallied \in Seq(Nat) /\ Len(tallied) \in Nat /\ DOMAIN tallied = 1 .. Len(tallied)
      /\ DOMAIN tallied' = 1 .. (Len(tallied) + 1) /\ tallied'[Len(tallied) + 1] = clock
      /\ \A i \in 1 .. Len(tallied) : tallied'[i] = tallied[i]
    BY DEF CountInRedis, QuotaStores
<1>2. T' = T \cup {Len(tallied) + 1} /\ Len(tallied) + 1 \notin T
    BY <1>1
<1>3. T \in SUBSET DOMAIN tallied
    OBVIOUS
<1>4. IsFiniteSet(T) /\ Cardinality(T) \in Nat
    BY <1>1, <1>3, PositionsAreFinite
<1> QED
    BY <1>2, <1>4, FS_AddElement

LEMMA CountOld ==
    ASSUME QuotaStores, CallersStand, RedisInv, NEW t \in Callers, CountInRedis(t), Alive
    PROVE  \E origins \in SUBSET Nat : Generations(origins)'
<1>1. /\ clock \in Nat /\ clock <= MaxClock /\ counter.count \in Nat /\ counter.expires \in Nat /\ counter.expires <= Never
      /\ UNCHANGED <<policy, clock, granted, late>> /\ granted \in Seq(Nat)
      /\ caller[t].step = "called" /\ policy = "redis"
    BY DEF CountInRedis, QuotaStores
<1>2. PICK origins \in SUBSET Nat : Generations(origins)
    BY <1>1 DEF RedisInv
<1>3. PICK s \in origins : (\A r \in origins : r <= s) /\ Lives(s)
    BY <1>2 DEF Generations
<1>4. /\ counter'.count = counter.count + 1 /\ counter'.expires = counter.expires
      /\ caller'[t].step = "counted" /\ caller'[t].now = clock
      /\ caller'[t].count = counter.count + 1 /\ caller'[t].ttl = counter.expires
      /\ \A u \in Callers \ {t} : caller'[u] = caller[u]
      /\ Alive'
    BY CountStores, CurrentType
<1>5. s \in Nat /\ s <= clock /\ s + Window <= counter.expires
      /\ \A e \in Nat : Load(s, e) <= counter.count
    BY <1>3 DEF Lives
<1>6. \A a, b : Load(a, b) \in Nat
    BY LoadsAreNumbers
<1>7. Apart(origins)'
    BY <1>1, <1>2, <1>4 DEF Generations, Apart
<1>8. Covered(origins)'
  <2>1. Covers(origins, clock)
      BY <1>3, <1>5 DEF Covers
  <2>2. \A u \in Callers : caller'[u].step = "counted" => Covers(origins, caller'[u].now)
      BY <1>2, <1>4, <2>1 DEF Generations, Covered
  <2>3. \A i \in DOMAIN granted : Covers(origins, granted[i])
      BY <1>2 DEF Generations, Covered
  <2> QED
      BY <1>1, <1>4, <2>2, <2>3 DEF Covered, Covers
<1>9. ASSUME NEW r \in origins, NEW e \in Nat, \A q \in origins : q <= r \/ q > e
      PROVE  Load(r, e)' <= Limit
  <2>1. Load(r, e) <= Limit /\ r \in Nat
      BY <1>2, <1>9 DEF Generations, Shared
  <2>2. CASE counter'.count <= Limit /\ r <= clock /\ clock <= e
    <3>1. r = s
        BY <1>1, <1>3, <1>5, <1>9, <2>1, <2>2
    <3>2. Load(r, e)' = Load(r, e) + 1
        BY <1>1, <2>1, <2>2, CountLoad
    <3>3. Load(r, e) <= counter.count
        BY <1>5, <3>1
    <3> QED
        BY <1>1, <1>4, <1>6, <2>2, <3>2, <3>3, ThrottleNumbers
  <2>3. CASE ~ (counter'.count <= Limit /\ r <= clock /\ clock <= e)
    <3>1. Load(r, e)' = Load(r, e)
        BY <1>1, <2>1, <2>3, CountLoad
    <3> QED
        BY <2>1, <3>1
  <2> QED
      BY <2>2, <2>3
<1>10. Shared(origins)'
    BY <1>9 DEF Shared
<1>11. Lives(s)'
  <2>1. \A e \in Nat : Load(s, e)' <= counter'.count
    <3> TAKE e \in Nat
    <3>1. Load(s, e)' \in {Load(s, e), Load(s, e) + 1}
        BY <1>5, CountLoad
    <3> QED
        BY <1>1, <1>4, <1>5, <1>6, <3>1
  <2>2. ASSUME ~ late
        PROVE  /\ \/ counter'.expires = s + Window
                  \/ /\ counter'.expires = Never /\ s = clock
                     /\ \E u \in Callers : caller'[u].step = "counted" /\ caller'[u].ttl = Never
               /\ Cardinality({j \in DOMAIN tallied : s <= tallied[j]})' >= counter'.count
               /\ \A u \in Callers : caller'[u].step = "counted" =>
                     caller'[u].count <= counter'.count /\ (caller'[u].ttl = Never => s = clock)
    <3>1. \/ counter.expires = s + Window
          \/ counter.expires = Never /\ s = clock
        BY <1>3, <2>2 DEF Lives
    <3>2. Cardinality({j \in DOMAIN tallied : s <= tallied[j]})' >= counter'.count
      <4>1. Cardinality({j \in DOMAIN tallied : s <= tallied[j]}) >= counter.count
          BY <1>3, <2>2 DEF Lives
      <4>2. /\ Cardinality({j \in DOMAIN tallied : s <= tallied[j]}) \in Nat
            /\ Cardinality({j \in DOMAIN tallied : s <= tallied[j]})'
                  = Cardinality({j \in DOMAIN tallied : s <= tallied[j]}) + 1
          BY <1>5, TalliedMore
      <4> QED
          BY <1>1, <1>4, <4>1, <4>2
    <3>3. ASSUME NEW u \in Callers, caller'[u].step = "counted"
          PROVE  caller'[u].count <= counter'.count /\ (caller'[u].ttl = Never => s = clock)
      <4>1. CASE u = t
          BY <1>1, <1>4, <1>5, <3>1, <4>1, ThrottleNumbers
      <4>2. CASE u # t
        <5>1. caller'[u] = caller[u] /\ caller[u].count \in Nat
            BY <1>4, <4>2 DEF CallersStand, CallerRecords
        <5>2. caller[u].count <= counter.count /\ (caller[u].ttl = Never => s = clock)
            BY <1>3, <2>2, <3>3, <5>1 DEF Lives
        <5> QED
            BY <1>1, <1>4, <5>1, <5>2
      <4> QED
          BY <4>1, <4>2
    <3> QED
        BY <1>4, <3>1, <3>2, <3>3
  <2>3. Never' = Never
      BY DEF Never
  <2> QED
      BY <1>1, <1>4, <1>5, <2>1, <2>2, <2>3 DEF Lives
<1>12. Generations(origins)'
    BY <1>1, <1>2, <1>3, <1>7, <1>8, <1>10, <1>11 DEF Generations
<1> QED
    BY <1>12

(* One more counted: the counter starts anew.                              *)
LEMMA CountNew ==
    ASSUME QuotaStores, CallersStand, RedisInv, NEW t \in Callers, CountInRedis(t), ~ Alive
    PROVE  \E origins \in SUBSET Nat : Generations(origins)'
<1>1. /\ clock \in Nat /\ clock <= MaxClock
      /\ UNCHANGED <<policy, clock, granted, late>> /\ granted \in Seq(Nat)
      /\ caller[t].step = "called" /\ policy = "redis"
    BY DEF CountInRedis, QuotaStores
<1>2. PICK old \in SUBSET Nat : Generations(old)
    BY <1>1 DEF RedisInv
<1>3. PICK origins \in SUBSET Nat : origins = old \cup {clock}
    BY <1>1
<1>4. /\ counter'.count = 1 /\ counter'.expires = Never
      /\ caller'[t].step = "counted" /\ caller'[t].now = clock
      /\ caller'[t].count = 1 /\ caller'[t].ttl = Never
      /\ \A u \in Callers \ {t} : caller'[u] = caller[u]
      /\ Alive'
    BY CountStores, CurrentType DEF Alive
<1>5. \A a, b : Load(a, b) \in Nat
    BY LoadsAreNumbers
<1>6. \A r \in old : r \in Nat /\ r + Window <= clock /\ r < clock
    BY <1>1, <1>2, ThrottleNumbers DEF Generations, Apart
<1>7. Apart(origins)'
  <2>1. \A r, s \in origins : r < s => r + Window <= s
      BY <1>1, <1>2, <1>3, <1>6 DEF Generations, Apart
  <2> QED
      BY <1>4, <2>1 DEF Apart
<1>8. /\ \A i \in DOMAIN granted : Covers(old, granted[i]) /\ granted[i] < clock /\ granted[i] \in Nat
      /\ \A u \in Callers : caller[u].step = "counted" =>
             Covers(old, caller[u].now) /\ caller[u].now < clock /\ caller[u].now \in Nat
    BY <1>1, <1>2 DEF Generations, Covered, CallersStand, CallerRecords
<1>9. \A at \in Nat : Covers(old, at) /\ at < clock => Covers(origins, at)
    BY <1>3 DEF Covers
<1>10. Covers(origins, clock)
    BY <1>1, <1>3, <1>6 DEF Covers
<1>11. Covered(origins)'
  <2>1. \A u \in Callers : caller'[u].step = "counted" => Covers(origins, caller'[u].now)
      BY <1>4, <1>8, <1>9, <1>10
  <2>2. \A i \in DOMAIN granted : Covers(origins, granted[i])
      BY <1>8, <1>9
  <2> QED
      BY <1>1, <1>4, <2>1, <2>2 DEF Covered, Covers
<1>12. \A e \in Nat : Load(clock, e) = 0
  <2> TAKE e \in Nat
  <2>1. Granted(clock, e) = {}
      BY <1>1, <1>8 DEF Granted
  <2>2. Holding(clock, e) = {}
      BY <1>1, <1>8 DEF Holding
  <2> QED
      BY <2>1, <2>2, FS_EmptySet DEF Load
<1>13. \A e \in Nat : Load(clock, e)' <= 1
    BY <1>1, <1>12, CountLoad
<1>14. ASSUME NEW r \in origins, NEW e \in Nat, \A q \in origins : q <= r \/ q > e
       PROVE  Load(r, e)' <= Limit
  <2>1. CASE r \in old
    <3>1. e < clock /\ r \in Nat
        BY <1>1, <1>3, <1>6, <1>14, <2>1
    <3>2. Load(r, e)' = Load(r, e)
        BY <1>1, <3>1, CountLoad
    <3>3. Load(r, e) <= Limit
        BY <1>2, <1>3, <1>14, <2>1 DEF Generations, Shared
    <3> QED
        BY <3>2, <3>3
  <2>2. CASE r = clock
    <3>1. Load(clock, e) = 0 /\ Load(clock, e)' \in {0, 1}
        BY <1>1, <1>12, CountLoad
    <3> QED
        BY <1>1, <2>2, <3>1, ThrottleNumbers
  <2> QED
      BY <1>3, <2>1, <2>2
<1>15. Shared(origins)'
    BY <1>14 DEF Shared
<1>16. PICK s \in Nat : s = clock
    BY <1>1
<1>17. Lives(s)'
  <2>1. \A e \in Nat : Load(s, e)' <= counter'.count
    <3> TAKE e \in Nat
    <3>1. Load(s, e) = 0 /\ Load(s, e)' \in {0, 1}
        BY <1>1, <1>12, <1>16, CountLoad
    <3> QED
        BY <1>4, <3>1
  <2>2. s + Window <= Never
      BY <1>1, <1>16, ThrottleNumbers
  <2>3. Cardinality({j \in DOMAIN tallied : s <= tallied[j]})' >= 1
    <3>1. /\ Cardinality({j \in DOMAIN tallied : s <= tallied[j]}) \in Nat
          /\ Cardinality({j \in DOMAIN tallied : s <= tallied[j]})'
                = Cardinality({j \in DOMAIN tallied : s <= tallied[j]}) + 1
      <4>1. s <= clock
          BY <1>1, <1>16
      <4> QED
          BY <4>1, TalliedMore
    <3> QED
        BY <3>1
  <2>4. ASSUME ~ late
        PROVE  \A u \in Callers : caller'[u].step = "counted" => u = t
    <3>1. \A u \in Callers : caller[u].step # "counted"
        BY <1>1, <2>4 DEF RedisInv
    <3> QED
        BY <1>4, <3>1
  <2>5. Never' = Never
      BY DEF Never
  <2> QED
      BY <1>1, <1>4, <1>16, <2>1, <2>2, <2>3, <2>4, <2>5 DEF Lives
<1>18. Generations(origins)'
  <2>1. origins \subseteq 0 .. clock
      BY <1>1, <1>3, <1>6
  <2>2. s \in origins /\ \A r \in origins : r <= s
      BY <1>1, <1>3, <1>6, <1>16
  <2> QED
      BY <1>1, <1>7, <1>11, <1>15, <1>17, <2>1, <2>2 DEF Generations
<1> QED
    BY <1>18

LEMMA DecideRedis ==
    ASSUME QuotaStores, CallersStand, RedisInv, RefusalsAreDeserved, NEW t \in Callers, DecideInRedis(t)
    PROVE  RedisInv' /\ RefusalsAreDeserved'
<1>1. /\ clock \in Nat /\ clock <= MaxClock /\ counter.count \in Nat /\ counter.expires \in Nat /\ counter.expires <= Never
      /\ UNCHANGED <<policy, clock, tallied, late>> /\ granted \in Seq(Nat)
      /\ caller[t].step = "counted" /\ policy = "redis"
    BY DEF DecideInRedis, QuotaStores, CallersStand
<1>2. caller'[t].step = "away" /\ \A u \in Callers \ {t} : caller'[u] = caller[u]
    BY AwayIs, DecideStores
<1>3. PICK x \in Nat : x = caller[t].now /\ x <= clock /\ (~ late => x = clock)
  <2>1. caller[t] # Away
      BY <1>1, AwayIs
  <2> QED
      BY <2>1 DEF CallersStand, CallerRecords
<1>4. PICK origins \in SUBSET Nat : Generations(origins)
    BY <1>1 DEF RedisInv
<1>5. \A a, b \in Nat : Load(a, b)' = Load(a, b)
    BY DecideLoad
<1>6. /\ Alive' <=> Alive
      /\ Alive => /\ counter'.count = counter.count
                  /\ IF caller[t].ttl = Never THEN counter'.expires = clock + Window
                                              ELSE counter'.expires = counter.expires
  <2>1. CASE Alive /\ caller[t].ttl = Never
    <3>1. counter' = [counter EXCEPT !.expires = clock + Window]
        BY <2>1, CurrentType DEF DecideInRedis, Expires, Alive
    <3>2. counter'.count = counter.count /\ counter'.expires = clock + Window /\ counter.count >= 1
        BY <2>1, <3>1, CurrentType DEF QuotaStores
    <3>3. Current' = counter'
        BY <1>1, <3>2, ThrottleNumbers DEF Current
    <3>4. counter'.count # 0
        BY <1>1, <3>2
    <3> QED
        BY <2>1, <3>2, <3>3, <3>4 DEF Alive, Gone
  <2>2. CASE Alive /\ caller[t].ttl # Never
    <3>1. counter' = counter
        BY <2>2, CurrentType DEF DecideInRedis, Expires
    <3> QED
        BY <1>1, <2>2, <3>1 DEF Alive, Current, Gone, Never
  <2>3. CASE ~ Alive
    <3>1. counter' = Gone
        BY <2>3 DEF DecideInRedis, Expires, Alive
    <3>2. Gone' = Gone
        BY DEF Gone, Never
    <3> QED
        BY <2>3, <3>1, <3>2 DEF Alive, Current
  <2> QED
      BY <2>1, <2>2, <2>3
<1>7. Apart(origins)' /\ Shared(origins)'
  <2>1. Shared(origins)'
      BY <1>4, <1>5 DEF Generations, Shared
  <2> QED
      BY <1>1, <1>4, <1>6, <2>1 DEF Generations, Apart
<1>8. Covered(origins)'
  <2>1. Covers(origins, x) /\ (~ Alive => x < clock)
      BY <1>1, <1>3, <1>4 DEF Generations, Covered
  <2>2. ASSUME NEW i \in DOMAIN granted'
        PROVE  Covers(origins, granted'[i]) /\ (~ Alive => granted'[i] < clock)
    <3>1. CASE granted' = granted
        BY <1>4, <2>2, <3>1 DEF Generations, Covered
    <3>2. CASE granted' = Append(granted, x)
      <4>1. granted'[i] = x \/ (i \in DOMAIN granted /\ granted'[i] = granted[i])
          BY <1>1, <2>2, <3>2
      <4> QED
          BY <1>4, <2>1, <4>1 DEF Generations, Covered
    <3> QED
        BY <1>3, <3>1, <3>2 DEF DecideInRedis
  <2>3. ASSUME NEW u \in Callers, caller'[u].step = "counted"
        PROVE  Covers(origins, caller'[u].now) /\ (~ Alive => caller'[u].now < clock)
      BY <1>2, <1>4, <2>3 DEF Generations, Covered
  <2> QED
      BY <1>1, <1>6, <2>2, <2>3 DEF Covered, Covers
<1>9. ASSUME Alive, NEW s \in origins, Lives(s) PROVE Lives(s)'
  <2>1. s \in Nat /\ s <= clock /\ s + Window <= counter.expires
        /\ \A e \in Nat : Load(s, e) <= counter.count
      BY <1>9 DEF Lives
  <2>2. s + Window <= counter'.expires
      BY <1>1, <1>6, <1>9, <2>1, ThrottleNumbers
  <2>3. ASSUME ~ late
        PROVE  \/ counter'.expires = s + Window
               \/ /\ counter'.expires = Never /\ s = clock
                  /\ \E u \in Callers : caller'[u].step = "counted" /\ caller'[u].ttl = Never
    <3>1. CASE caller[t].ttl = Never
      <4>1. s = clock
          BY <1>1, <1>9, <2>3, <3>1 DEF Lives
      <4> QED
          BY <1>6, <1>9, <3>1, <4>1
    <3>2. CASE caller[t].ttl # Never
      <4>1. \/ counter.expires = s + Window
            \/ /\ counter.expires = Never /\ s = clock
               /\ \E u \in Callers \ {t} : caller[u].step = "counted" /\ caller[u].ttl = Never
          BY <1>9, <2>3, <3>2 DEF Lives
      <4> QED
          BY <1>2, <1>6, <1>9, <3>2, <4>1
    <3> QED
        BY <3>1, <3>2
  <2>4. ASSUME ~ late
        PROVE  /\ Cardinality({j \in DOMAIN tallied : s <= tallied[j]}) >= counter.count
               /\ \A u \in Callers : caller'[u].step = "counted" =>
                     caller'[u].count <= counter.count /\ (caller'[u].ttl = Never => s = clock)
      BY <1>2, <1>9, <2>4 DEF Lives
  <2>5. Never' = Never
      BY DEF Never
  <2> QED
      BY <1>1, <1>5, <1>6, <1>9, <2>1, <2>2, <2>3, <2>4, <2>5 DEF Lives
<1>10. Generations(origins)'
    BY <1>1, <1>4, <1>6, <1>7, <1>8, <1>9 DEF Generations
<1>11. ASSUME ~ late, NEW u \in Callers, caller'[u].step = "counted" PROVE Alive'
    BY <1>1, <1>2, <1>6, <1>11 DEF RedisInv
<1>12. RefusalsAreDeserved'
  <2>1. CASE ~ (caller[t].count > Limit)
      BY <1>1, <2>1 DEF DecideInRedis, RefusalsAreDeserved
  <2>2. CASE late
      BY <1>1, <2>2 DEF RefusalsAreDeserved
  <2>3. CASE caller[t].count > Limit /\ ~ late
    <3>1. Alive /\ x = clock
        BY <1>1, <1>3, <2>3 DEF RedisInv
    <3>2. PICK s \in origins : Lives(s)
        BY <1>4, <3>1 DEF Generations
    <3>3. s \in Nat /\ s <= clock /\ clock - Window <= s /\ clock - Window \in Int
      <4>1. s \in Nat /\ s <= clock /\ clock \in Nat
          BY <1>1, <3>2 DEF Lives, QuotaStores
      <4>2. \/ counter.expires = s + Window
            \/ counter.expires = Never /\ s = clock
          BY <2>3, <3>2 DEF Lives
      <4>3. counter.expires > clock
        <5>1. Current = counter
            BY <1>1, <3>1, CurrentType DEF Alive
        <5> QED BY <1>1, <5>1, CurrentType
      <4>4. clock - Window <= s /\ clock - Window \in Int
          BY <4>1, <4>2, <4>3, ThrottleNumbers
      <4> QED BY <4>1, <4>4
    <3> DEFINE T == {j \in DOMAIN tallied : s <= tallied[j]}
               W == {j \in DOMAIN tallied : clock - Window <= tallied[j] /\ tallied[j] <= clock}
    <3>4. T \in SUBSET DOMAIN tallied /\ W \in SUBSET DOMAIN tallied /\ tallied \in Seq(Nat)
        BY DEF QuotaStores
    <3>5. IsFiniteSet(T) /\ Cardinality(T) \in Nat /\ IsFiniteSet(W) /\ Cardinality(W) \in Nat
        BY <3>4, PositionsAreFinite
    <3>6. T \subseteq W
        BY <1>1, <3>3 DEF QuotaStores
    <3>7. Cardinality(T) <= Cardinality(W)
        BY <3>5, <3>6, FS_Subset
    <3>8. Cardinality(T) >= counter.count /\ caller[t].count <= counter.count /\ caller[t].count \in Nat
        BY <1>1, <2>3, <3>2 DEF Lives, CallersStand, CallerRecords
    <3>9. Cardinality(W) > Limit
        BY <1>1, <2>3, <3>5, <3>7, <3>8, ThrottleNumbers
    <3>10. refusal' = (Within(tallied, clock - Window, clock) > Limit)
        BY <1>3, <2>3, <3>1 DEF DecideInRedis
    <3> QED
        BY <3>9, <3>10 DEF Within, RefusalsAreDeserved
  <2> QED
      BY <2>1, <2>2, <2>3
<1>13. (\E s \in SUBSET Nat : Generations(s)') /\ (~ late' => \A u \in Callers : caller'[u].step = "counted" => Alive')
    BY <1>1, <1>10, <1>11
<1> QED
    BY <1>12, <1>13 DEF RedisInv

LEMMA DiesRedis ==
    ASSUME QuotaStores, CallersStand, RedisInv, NEW t \in Callers, Dies(t)
    PROVE  RedisInv'
<1>1. SUFFICES ASSUME policy = "redis" PROVE RedisInv'
    BY DEF RedisInv, Dies
<1>2. UNCHANGED <<policy, clock, stamps, counter, calls, granted, tallied, refusal>> /\ late' = TRUE
    BY DEF Dies
<1>3. caller'[t].step = "away" /\ \A u \in Callers \ {t} : caller'[u] = caller[u]
    BY AwayIs, DiesStores
<1>4. PICK origins \in SUBSET Nat : Generations(origins)
    BY <1>1 DEF RedisInv
<1>5. \A a, b : Load(a, b)' \in Nat /\ Load(a, b)' <= Load(a, b) /\ Load(a, b) \in Nat
    BY DiesLoad, LoadsAreNumbers
<1>6. Alive' <=> Alive
    BY <1>2 DEF Alive, Current, Gone, Never
<1>7. Covered(origins)'
    BY <1>2, <1>3, <1>4, <1>6 DEF Generations, Covered, Covers
<1>8. Apart(origins)'
    BY <1>2, <1>4, <1>6 DEF Generations, Apart
<1>9. Shared(origins)'
    BY <1>4, <1>5, ThrottleNumbers DEF Generations, Shared
<1>10. ASSUME NEW s \in origins, Lives(s) PROVE Lives(s)'
  <2>1. \A e \in Nat : Load(s, e)' <= counter.count
      BY <1>5, <1>10 DEF Lives, QuotaStores
  <2> QED
      BY <1>2, <1>10, <2>1 DEF Lives
<1>11. Generations(origins)'
    BY <1>2, <1>4, <1>6, <1>7, <1>8, <1>9, <1>10 DEF Generations
<1> QED
    BY <1>2, <1>11 DEF RedisInv

LEMMA TickRedis ==
    ASSUME QuotaStores, CallersStand, RedisInv, ClockTicks
    PROVE  RedisInv'
<1>1. SUFFICES ASSUME policy = "redis" PROVE RedisInv'
    BY DEF RedisInv, ClockTicks
<1>2. /\ UNCHANGED <<policy, stamps, counter, caller, calls, granted, tallied, refusal>>
      /\ clock' = clock + 1 /\ clock \in Nat /\ clock' \in Nat /\ clock < clock' /\ (late => late')
      /\ ~ late' => \A t \in Callers : caller[t].step = "away"
      /\ counter.expires \in Nat
    BY AwayIs, TickStores DEF ClockTicks, QuotaStores
<1>3. PICK origins \in SUBSET Nat : Generations(origins)
    BY <1>1 DEF RedisInv
<1>4. \A a, b : Load(a, b)' = Load(a, b)
    BY <1>2, SameLoad
<1>5. /\ Alive' => Alive
      /\ Alive /\ ~ Alive' => counter.expires <= clock'
    BY <1>2 DEF Alive, Current, Gone, Never
<1>6. \A i \in DOMAIN granted : granted[i] \in Nat /\ granted[i] < clock'
    BY <1>2 DEF QuotaStores
<1>7. \A t \in Callers : caller[t].now \in Nat /\ caller[t].now < clock'
    BY <1>2 DEF CallersStand, CallerRecords
<1>8. Covered(origins)'
    BY <1>2, <1>3, <1>6, <1>7 DEF Generations, Covered, Covers
<1>9. Apart(origins)'
  <2>1. ASSUME ~ Alive', NEW r \in origins PROVE r + Window <= clock'
    <3>1. CASE Alive
      <4>1. PICK s \in origins : (\A q \in origins : q <= s) /\ Lives(s)
          BY <1>3, <3>1 DEF Generations
      <4>2. r <= s /\ s + Window <= counter.expires /\ s \in Nat /\ r \in Nat
          BY <2>1, <4>1 DEF Lives
      <4> QED
          BY <1>2, <1>5, <2>1, <3>1, <4>2, ThrottleNumbers
    <3>2. CASE ~ Alive
      <4>1. r + Window <= clock /\ r \in Nat
          BY <1>3, <2>1, <3>2 DEF Generations, Apart
      <4> QED
          BY <1>2, <4>1, ThrottleNumbers
    <3> QED
        BY <3>1, <3>2
  <2> QED
      BY <1>3, <2>1 DEF Generations, Apart
<1>10. Shared(origins)'
    BY <1>3, <1>4 DEF Generations, Shared
<1>11. ASSUME NEW s \in origins, Lives(s) PROVE Lives(s)'
  <2>1. s \in Nat /\ s <= clock' /\ s + Window <= counter.expires
        /\ \A e \in Nat : Load(s, e) <= counter.count
    <3>1. /\ s \in Nat /\ s <= clock /\ s + Window <= counter.expires
          /\ \A e \in Nat : Load(s, e) <= counter.count
        BY <1>11 DEF Lives
    <3> QED
        BY <1>2, <3>1
  <2>2. ASSUME ~ late'
        PROVE  /\ counter.expires = s + Window
               /\ Cardinality({j \in DOMAIN tallied : s <= tallied[j]}) >= counter.count
               /\ \A u \in Callers : caller[u].step # "counted"
    <3>1. ~ late /\ \A u \in Callers : caller[u].step # "counted"
        BY <1>2, <2>2
    <3> QED
        BY <1>11, <3>1 DEF Lives
  <2> QED
      BY <1>2, <1>4, <2>1, <2>2 DEF Lives
<1>12. Generations(origins)'
  <2>1. origins \subseteq 0 .. clock'
      BY <1>2, <1>3 DEF Generations
  <2> QED
      BY <1>2, <1>3, <1>5, <1>8, <1>9, <1>10, <1>11, <2>1 DEF Generations
<1> QED
    BY <1>2, <1>12 DEF RedisInv

-----------------------------------------------------------------------------
(* The steps                                                               *)

LEMMA WaitingIsFinite == IsFiniteSet(Waiting) /\ Cardinality(Waiting) \in Nat
<1>1. Waiting \subseteq Callers
    BY DEF Waiting
<1> QED
    BY <1>1, ThrottleNumbers, FS_Subset, FS_CardinalityType

LEMMA FewerWait ==
    ASSUME QuotaStores, CallersStand, CallsCounted, NEW t \in Callers,
           \A u \in Callers \ {t} : caller'[u] = caller[u], calls' = calls,
           counter'.count \in Nat, caller'[t].step # "called",
           \/ counter'.count <= counter.count
           \/ counter'.count <= counter.count + 1 /\ caller[t].step = "called"
    PROVE  CallsCounted'
<1>1. /\ Waiting' \subseteq Waiting /\ t \notin Waiting'
      /\ t \in Waiting <=> caller[t].step = "called"
    BY DEF Waiting
<1>2. /\ IsFiniteSet(Waiting) /\ Cardinality(Waiting) \in Nat /\ calls \in Nat /\ counter.count \in Nat
      /\ counter.count + Cardinality(Waiting) <= calls
    BY WaitingIsFinite, ThrottleNumbers DEF QuotaStores, CallsCounted
<1>3. Cardinality(Waiting') <= Cardinality(Waiting) /\ Cardinality(Waiting') \in Nat
    BY <1>1, <1>2, FS_Subset, FS_CardinalityType
<1>4. CASE t \in Waiting
  <2>1. Waiting' \subseteq Waiting \ {t}
      BY <1>1
  <2>2. IsFiniteSet(Waiting \ {t}) /\ Cardinality(Waiting \ {t}) = Cardinality(Waiting) - 1
      BY <1>2, <1>4, FS_RemoveElement
  <2>3. Cardinality(Waiting') <= Cardinality(Waiting \ {t})
      BY <2>1, <2>2, FS_Subset
  <2>4. counter'.count <= counter.count + 1
      BY <1>2
  <2> QED
      BY <1>2, <1>3, <2>2, <2>3, <2>4 DEF CallsCounted
<1>5. CASE t \notin Waiting
  <2>1. counter'.count <= counter.count
      BY <1>1, <1>5
  <2> QED
      BY <1>2, <1>3, <2>1 DEF CallsCounted
<1> QED
    BY <1>4, <1>5

LEMMA OneMoreWaits ==
    ASSUME QuotaStores, CallersStand, CallsCounted, NEW t \in Callers, Calls(t)
    PROVE  CallsCounted'
<1>1. /\ caller[t].step = "away" /\ calls' = calls + 1 /\ counter' = counter
      /\ caller'[t].step = "called" /\ \A u \in Callers \ {t} : caller'[u] = caller[u]
    BY AwayIs, CallsStores DEF Calls
<1>2. Waiting' = Waiting \cup {t} /\ t \notin Waiting
    BY <1>1 DEF Waiting
<1>3. Cardinality(Waiting') = Cardinality(Waiting) + 1 /\ Cardinality(Waiting) \in Nat
    BY <1>2, WaitingIsFinite, FS_AddElement
<1> QED
    BY <1>1, <1>3, ThrottleNumbers DEF CallsCounted, QuotaStores

LEMMA SameWait ==
    ASSUME CallsCounted, UNCHANGED <<counter, caller, calls>>
    PROVE  CallsCounted'
<1>1. Waiting' = Waiting
    BY DEF Waiting
<1> QED
    BY <1>1 DEF CallsCounted

LEMMA QuotaInit ==
    ASSUME ThrottleInit
    PROVE  ThrottleInv
<1>1. /\ clock = 0 /\ stamps = {} /\ granted = <<>> /\ tallied = <<>> /\ refusal = TRUE /\ late = FALSE
      /\ counter = [count |-> 0, expires |-> Never] /\ policy \in {"memory", "redis"} /\ calls = 0
    BY DEF ThrottleInit, Gone
<1>2. QuotaStores
  <2>1. granted \in Seq(Nat) /\ tallied \in Seq(Nat) /\ DOMAIN granted = {} /\ DOMAIN tallied = {}
      BY <1>1
  <2>2. counter \in [count : Nat, expires : Nat] /\ counter.expires <= Never /\ counter = Gone
      BY <1>1, ThrottleNumbers DEF Gone
  <2>3. clock \in 0 .. MaxClock /\ calls \in 0 .. MaxCalls /\ stamps \subseteq DOMAIN granted
      BY <1>1, ThrottleNumbers
  <2>4. (\A i \in DOMAIN granted : granted[i] <= clock) /\ (\A i \in DOMAIN tallied : tallied[i] <= clock)
      BY <2>1
  <2>5. late \in BOOLEAN /\ refusal \in BOOLEAN /\ policy \in {"memory", "redis"}
      BY <1>1
  <2> QED
      BY <2>1, <2>2, <2>3, <2>4, <2>5 DEF QuotaStores
<1>3. CallersStand
    BY AwayIs DEF ThrottleInit, CallersStand
<1>4. Cardinality(stamps) <= Limit
    BY <1>1, FS_EmptySet, ThrottleNumbers
<1>5. \A a, b : Granted(a, b) = {} /\ Holding(a, b) = {} /\ Cardinality(Granted(a, b)) = 0 /\ Load(a, b) = 0
  <2> TAKE a, b
  <2>1. Granted(a, b) = {}
      BY <1>1 DEF Granted
  <2>2. Holding(a, b) = {}
      BY AwayIs DEF ThrottleInit, Holding
  <2> QED
      BY <2>1, <2>2, FS_EmptySet DEF Load
<1>6. MemoryInv
    BY <1>1, <1>5, ThrottleNumbers DEF MemoryInv
<1>7. ~ Alive
    BY <1>1, ThrottleNumbers DEF Alive, Current, Gone
<1>8. Generations({})
    BY <1>1, <1>5, <1>7, AwayIs DEF Generations, Apart, Covered, Shared, ThrottleInit
<1>9. RedisInv
    BY <1>7, <1>8, AwayIs DEF RedisInv, ThrottleInit
<1>10. CallsCounted
  <2>1. Waiting = {}
      BY AwayIs DEF ThrottleInit, Waiting
  <2> QED
      BY <1>1, <2>1, FS_EmptySet DEF CallsCounted
<1> QED
    BY <1>1, <1>2, <1>3, <1>4, <1>6, <1>9, <1>10 DEF ThrottleInv, RefusalsAreDeserved

LEMMA QuotaStep ==
    ASSUME ThrottleInv, [ThrottleNext]_throttleVars
    PROVE  ThrottleInv'
<1> USE DEF ThrottleInv
<1>1. ASSUME NEW t \in Callers, Calls(t) PROVE ThrottleInv'
  <2>1. /\ UNCHANGED <<policy, clock, stamps, counter, granted, tallied, refusal, late>>
        /\ caller[t].step = "away"
      BY <1>1, AwayIs DEF Calls
  <2>2. /\ QuotaStores' /\ CallersStand' /\ caller'[t].step = "called"
        /\ \A u \in Callers \ {t} : caller'[u] = caller[u]
      BY <1>1, CallsStores
  <2>3. \A u \in Callers : caller[u].step = "counted" \/ caller'[u].step = "counted" => caller'[u] = caller[u]
      BY <2>1, <2>2
  <2>4. MemoryInv'
      BY <2>1, OldStay
  <2>5. RedisInv'
      BY <2>1, <2>3, RedisStays
  <2>6. CallsCounted'
      BY <1>1, OneMoreWaits
  <2> QED
      BY <2>1, <2>2, <2>4, <2>5, <2>6 DEF RefusalsAreDeserved
<1>2. ASSUME NEW t \in Callers, CheckInMemory(t) PROVE ThrottleInv'
  <2>1. /\ UNCHANGED <<counter, calls>>
        /\ caller'[t] = Away /\ \A u \in Callers \ {t} : caller'[u] = caller[u]
      BY <1>2, GoesAway DEF CheckInMemory
  <2>2. CallsCounted'
      BY <2>1, FewerWait, AwayIs DEF QuotaStores
  <2> QED
      BY <1>2, <2>2, CheckStores, CheckMemory DEF RedisInv, CheckInMemory
<1>3. ASSUME NEW t \in Callers, CountInRedis(t) PROVE ThrottleInv'
  <2>1. UNCHANGED <<policy, clock, stamps, granted, refusal, late>>
      BY <1>3 DEF CountInRedis
  <2>2. QuotaStores' /\ CallersStand' /\ Alive'
      BY <1>3, CountStores
  <2>3. MemoryInv'
      BY <2>1, OldStay
  <2>4. \E origins \in SUBSET Nat : Generations(origins)'
      BY <1>3, CountOld, CountNew
  <2>5. RedisInv'
      BY <2>2, <2>4 DEF RedisInv
  <2>6. CallsCounted'
    <3>1. /\ counter'.count = Current.count + 1 /\ caller'[t].step = "counted"
          /\ \A u \in Callers \ {t} : caller'[u] = caller[u]
        BY <1>3, CountStores
    <3>2. Current.count \in Nat /\ Current.count <= counter.count /\ counter.count \in Nat
        BY CurrentType DEF QuotaStores
    <3>3. caller[t].step = "called" /\ calls' = calls
        BY <1>3 DEF CountInRedis
    <3>4. counter'.count \in Nat /\ counter'.count <= counter.count + 1
        BY <3>1, <3>2
    <3> QED
        BY <3>1, <3>3, <3>4, FewerWait
  <2> QED
      BY <2>1, <2>2, <2>3, <2>5, <2>6 DEF RefusalsAreDeserved
<1>4. ASSUME NEW t \in Callers, DecideInRedis(t) PROVE ThrottleInv'
  <2>1. policy' = "redis" /\ stamps' = stamps
      BY <1>4 DEF DecideInRedis, CallersStand
  <2>2. MemoryInv'
      BY <2>1 DEF MemoryInv
  <2>3. CallsCounted'
    <3>1. /\ QuotaStores' /\ caller'[t].step = "away" /\ \A u \in Callers \ {t} : caller'[u] = caller[u]
        BY <1>4, DecideStores, AwayIs
    <3>2. counter'.count \in Nat /\ counter'.count = Current.count /\ calls' = calls
        BY <1>4, <3>1, CurrentType DEF DecideInRedis, Expires, QuotaStores
    <3>3. Current.count <= counter.count
        BY CurrentType DEF QuotaStores
    <3> QED
        BY <3>1, <3>2, <3>3, FewerWait
  <2> QED
      BY <1>4, <2>1, <2>2, <2>3, DecideStores, DecideRedis
<1>5. ASSUME NEW t \in Callers, Dies(t) PROVE ThrottleInv'
  <2>1. UNCHANGED <<policy, clock, stamps, counter, calls, granted, tallied, refusal>> /\ late' = TRUE
      BY <1>5 DEF Dies
  <2>2. policy = "redis"
      BY <1>5 DEF Dies, CallersStand
  <2>3. CallsCounted'
    <3>1. caller'[t].step = "away" /\ \A u \in Callers \ {t} : caller'[u] = caller[u]
        BY <1>5, DiesStores, AwayIs
    <3>2. calls' = calls /\ counter' = counter
        BY <2>1
    <3>3. counter'.count \in Nat /\ counter'.count <= counter.count
        BY <3>2, CurrentType DEF QuotaStores
    <3> QED
        BY <3>1, <3>2, <3>3, FewerWait
  <2>4. MemoryInv' /\ RefusalsAreDeserved'
      BY <2>1, <2>2 DEF MemoryInv, RefusalsAreDeserved
  <2>5. QuotaStores' /\ CallersStand'
      BY <1>5, DiesStores
  <2>6. RedisInv'
      BY <1>5, DiesRedis
  <2> QED
      BY <2>1, <2>3, <2>4, <2>5, <2>6
<1>6. ASSUME CollectGarbage PROVE ThrottleInv'
  <2>1. UNCHANGED <<policy, clock, counter, caller, calls, granted, tallied, refusal, late>>
      BY <1>6 DEF CollectGarbage
  <2>2. QuotaStores' /\ CallersStand' /\ stamps' \subseteq stamps
      BY <1>6, CollectStores
  <2>3. Cardinality(stamps') <= Limit
    <3>1. stamps \in SUBSET DOMAIN granted /\ granted \in Seq(Nat) /\ stamps' \in SUBSET DOMAIN granted
        BY <2>2 DEF QuotaStores
    <3>2. IsFiniteSet(stamps) /\ Cardinality(stamps) \in Nat /\ Cardinality(stamps') \in Nat
        BY <3>1, PositionsAreFinite
    <3>3. Cardinality(stamps') <= Cardinality(stamps)
        BY <2>2, <3>2, FS_Subset
    <3> QED
        BY <3>2, <3>3, ThrottleNumbers
  <2>4. MemoryInv'
      BY <1>6, CollectMemory
  <2>5. RedisInv'
      BY <2>1, RedisStays
  <2> QED
      BY <2>1, <2>2, <2>3, <2>4, <2>5, SameWait DEF RefusalsAreDeserved
<1>7. ASSUME ClockTicks PROVE ThrottleInv'
  <2>1. UNCHANGED <<policy, stamps, counter, caller, calls, granted, tallied, refusal>> /\ (late => late')
      BY <1>7 DEF ClockTicks
  <2> QED
      BY <1>7, <2>1, TickStores, TickMemory, TickRedis, SameWait DEF RefusalsAreDeserved
<1>8. ASSUME UNCHANGED throttleVars PROVE ThrottleInv'
  <2>1. UNCHANGED <<policy, clock, stamps, counter, caller, calls, granted, tallied, refusal, late>>
      BY <1>8 DEF throttleVars
  <2>2. QuotaStores' /\ CallersStand'
      BY <2>1 DEF QuotaStores, CallersStand, Gone, Never, Away
  <2>3. MemoryInv'
      BY <2>1, OldStay
  <2>4. RedisInv'
      BY <2>1, RedisStays
  <2> QED
      BY <2>1, <2>2, <2>3, <2>4, SameWait DEF RefusalsAreDeserved
<1> QED
    BY <1>1, <1>2, <1>3, <1>4, <1>5, <1>6, <1>7, <1>8 DEF ThrottleNext

-----------------------------------------------------------------------------
(* The quota                                                               *)

(* The calls of one generation of the counter.                             *)
LEMMA OneGeneration ==
    ASSUME QuotaStores, NEW origins \in SUBSET Nat, Generations(origins), NEW from \in Nat, NEW to \in Nat,
           \A s \in origins : s <= to => s <= from
    PROVE  Cardinality(Granted(from, to)) <= Limit
<1>1. CASE Granted(from, to) = {}
    BY <1>1, FS_EmptySet, ThrottleNumbers
<1>2. CASE Granted(from, to) # {}
  <2>1. PICK i \in DOMAIN granted : from <= granted[i] /\ granted[i] <= to
      BY <1>2 DEF Granted
  <2>2. granted[i] \in Nat
      BY <2>1 DEF QuotaStores
  <2>3. PICK s \in origins : s <= granted[i] /\ \A r \in origins : r <= s \/ r > granted[i]
      BY <2>1 DEF Generations, Covered, Covers
  <2>4. s \in Nat /\ s <= from
      BY <2>1, <2>2, <2>3
  <2>5. \A r \in origins : r <= s \/ r > to
      BY <2>1, <2>2, <2>3, <2>4
  <2>6. Load(s, to) <= Limit
      BY <2>5 DEF Generations, Shared
  <2>7. Granted(from, to) \subseteq Granted(s, to)
      BY <2>4 DEF Granted, QuotaStores
  <2>8. Cardinality(Granted(from, to)) <= Cardinality(Granted(s, to))
      BY <2>7, LoadsAreNumbers, FS_Subset
  <2> QED
      BY <2>6, <2>8, LoadsAreNumbers, ThrottleNumbers DEF Load
<1> QED
    BY <1>1, <1>2

LEMMA QuotaFollows ==
    ASSUME ThrottleInv
    PROVE  QuotaIsFair
<1> USE DEF ThrottleInv
<1>1. clock \in Nat /\ late \in BOOLEAN
    BY DEF QuotaStores
<1>2. SUFFICES ASSUME NEW at \in 0 .. clock
               PROVE  /\ policy = "memory" /\ ~ late => Within(granted, at, at + Window) <= Limit
                      /\ policy = "redis" => Within(granted, at, at + Window - 1) <= 2 * Limit
    BY DEF QuotaIsFair, QuotaHolds
<1>3. \A a, b : Within(granted, a, b) = Cardinality(Granted(a, b))
    BY DEF Within, Granted
<1>4. CASE policy = "memory" /\ ~ late
    BY <1>1, <1>3, <1>4 DEF MemoryInv
<1>5. CASE policy = "redis"
  <2>1. PICK origins \in SUBSET Nat : Generations(origins)
      BY <1>5 DEF RedisInv
  <2>2. PICK e \in Nat : e = at + Window - 1 /\ at \in Nat
      BY <1>1, ThrottleNumbers
  <2>3. CASE \A s \in origins : s <= e => s <= at
    <3>1. Cardinality(Granted(at, e)) <= Limit
        BY <2>1, <2>2, <2>3, OneGeneration
    <3> QED
        BY <1>3, <1>5, <2>2, <3>1, LoadsAreNumbers, ThrottleNumbers
  <2>4. CASE \E s \in origins : s <= e /\ ~ (s <= at)
    <3>1. PICK s \in origins : s <= e /\ s > at /\ s \in Nat
        BY <2>2, <2>4
    <3>2. s - 1 \in Nat
        BY <2>2, <3>1
    <3>3. \A r \in origins : r \in Nat /\ (r < s => r + Window <= s) /\ (s < r => s + Window <= r)
        BY <2>1, <3>1 DEF Generations, Apart
    <3>4. Cardinality(Granted(at, s - 1)) <= Limit
      <4>1. \A r \in origins : r <= s - 1 => r <= at
          BY <2>2, <3>1, <3>3, ThrottleNumbers
      <4> QED
          BY <2>1, <2>2, <3>2, <4>1, OneGeneration
    <3>5. Cardinality(Granted(s, e)) <= Limit
      <4>1. \A r \in origins : r <= e => r <= s
          BY <2>2, <3>1, <3>3, ThrottleNumbers
      <4> QED
          BY <2>1, <2>2, <3>1, <4>1, OneGeneration
    <3>6. Granted(at, e) \subseteq Granted(at, s - 1) \cup Granted(s, e)
      <4>1. \A i \in DOMAIN granted : granted[i] \in Nat
          BY DEF QuotaStores
      <4> QED
          BY <2>2, <3>1, <4>1 DEF Granted
    <3>7. PICK F, S : F = Granted(at, s - 1) /\ S = Granted(s, e)
        OBVIOUS
    <3>8. /\ IsFiniteSet(F) /\ IsFiniteSet(S) /\ IsFiniteSet(F \cup S) /\ IsFiniteSet(F \cap S)
          /\ Cardinality(F \cup S) = Cardinality(F) + Cardinality(S) - Cardinality(F \cap S)
          /\ Cardinality(F \cap S) \in Nat /\ Cardinality(F) \in Nat /\ Cardinality(S) \in Nat
      <4>1. IsFiniteSet(F) /\ IsFiniteSet(S)
          BY <3>7, LoadsAreNumbers
      <4>2. IsFiniteSet(F \cap S)
          BY <4>1, FS_Intersection
      <4>3. Cardinality(F) \in Nat /\ Cardinality(S) \in Nat /\ Cardinality(F \cap S) \in Nat
          BY <4>1, <4>2, FS_CardinalityType
      <4> QED
          BY <4>1, <4>2, <4>3, FS_Union
    <3>9. Cardinality(Granted(at, e)) <= Cardinality(F \cup S) /\ Cardinality(Granted(at, e)) \in Nat
        BY <3>6, <3>7, <3>8, FS_Subset, LoadsAreNumbers
    <3>10. Cardinality(F) <= Limit /\ Cardinality(S) <= Limit
        BY <3>4, <3>5, <3>7
    <3>11. Cardinality(Granted(at, e)) <= 2 * Limit
        BY <3>8, <3>9, <3>10, ThrottleNumbers
    <3> QED
        BY <1>3, <1>5, <2>2, <3>11
  <2> QED
      BY <2>3, <2>4
<1> QED
    BY <1>4, <1>5

(* The inductive invariant.                                                *)
THEOREM ThrottleCorrect == ThrottleSpec => []ThrottleInv
<1>1. ThrottleInit => ThrottleInv
    BY QuotaInit
<1>2. ThrottleInv /\ [ThrottleNext]_throttleVars => ThrottleInv'
    BY QuotaStep
<1> QED
    BY <1>1, <1>2, PTL DEF ThrottleSpec

(* The types; a key never holds more times than the quota.                 *)
THEOREM ThrottleTypeCorrect == ThrottleSpec => []ThrottleTypeOK
<1>1. ASSUME ThrottleInv PROVE ThrottleTypeOK
  <2> USE <1>1 DEF ThrottleInv
  <2>1. clock \in Nat /\ \A i \in DOMAIN granted : granted[i] \in 0 .. clock
      BY ThrottleNumbers DEF QuotaStores
  <2>2. counter.count \in 0 .. MaxCalls
      BY WaitingIsFinite, ThrottleNumbers DEF CallsCounted, QuotaStores
  <2> QED
      BY <2>1, <2>2 DEF ThrottleTypeOK, QuotaStores
<1> QED
    BY <1>1, ThrottleCorrect, PTL

(* However many callers there are and however long the window: no period   *)
(* sees more calls go through than the quota says, and nobody is refused   *)
(* for what happened before the window.                                    *)
THEOREM QuotaKept == ThrottleSpec => []QuotaIsFair
<1>1. ThrottleInv => QuotaIsFair
    BY QuotaFollows
<1> QED
    BY <1>1, ThrottleCorrect, PTL

(***************************************************************************)
(* AddOns                                                                  *)
(***************************************************************************)

-----------------------------------------------------------------------------
(* Sequences, their members and how often they occur                       *)

Where(s, K, x) == {i \in K : s[i] = x}
Count(s, x)    == Cardinality({j \in DOMAIN s : s[j] = x})

LEMMA Numbered ==
    ASSUME NEW n \in Nat, NEW K \in SUBSET (1 .. n)
    PROVE  IsFiniteSet(K) /\ Cardinality(K) \in Nat
<1>1. n \in Int /\ 1 \in Int
    OBVIOUS
<1> QED
    BY <1>1, FS_Interval, FS_Subset, FS_CardinalityType

(* A position of K has a rank in it, and later positions a greater one.    *)
LEMMA RanksGrow ==
    ASSUME NEW n \in Nat, NEW K \in SUBSET (1 .. n), NEW i \in K
    PROVE  /\ Rank(K, i) \in 1 .. Cardinality(K)
           /\ \A h \in K : i < h => Rank(K, i) < Rank(K, h)
<1>1. IsFiniteSet(K) /\ Cardinality(K) \in Nat
    BY Numbered
<1>0. \A g \in K : g \in Nat
    OBVIOUS
<1> DEFINE Below(h) == {g \in K : g <= h}
<1>2. \A h : Below(h) \in SUBSET K /\ IsFiniteSet(Below(h)) /\ Cardinality(Below(h)) \in Nat
             /\ Cardinality(Below(h)) <= Cardinality(K) /\ Rank(K, h) = Cardinality(Below(h))
  <2> TAKE h
  <2>1. Below(h) \in SUBSET K
      OBVIOUS
  <2> QED
      BY <1>1, <2>1, FS_Subset, FS_CardinalityType DEF Rank
<1>3. Cardinality(Below(i)) >= 1
  <2>1. {i} \subseteq Below(i)
      OBVIOUS
  <2>2. Cardinality({i}) = 1
      BY FS_Singleton
  <2> QED
      BY <1>2, <2>1, <2>2, FS_Subset
<1>4. ASSUME NEW h \in K, i < h PROVE Rank(K, i) < Rank(K, h)
  <2>1. PICK A, C : A = Below(i) /\ C = Below(h)
      OBVIOUS
  <2>2. i \in Nat /\ h \in Nat /\ h \in C /\ h \notin A
      BY <1>0, <1>4, <2>1
  <2>3. \A g \in A : g \in C /\ g # h
      BY <1>0, <1>4, <2>1, <2>2
  <2>4. /\ IsFiniteSet(C) /\ Cardinality(C) \in Nat /\ Cardinality(A) \in Nat
        /\ Rank(K, h) = Cardinality(C) /\ Rank(K, i) = Cardinality(A)
      BY <1>2, <2>1
  <2>5. IsFiniteSet(C \ {h}) /\ Cardinality(C \ {h}) = Cardinality(C) - 1
      BY <2>2, <2>4, FS_RemoveElement
  <2>6. Cardinality(A) <= Cardinality(C \ {h})
      BY <2>3, <2>5, FS_Subset
  <2> QED
      BY <2>4, <2>5, <2>6
<1> HIDE DEF Below
<1> QED
    BY <1>1, <1>2, <1>3, <1>4

(* The positions K, in their order.                                        *)
Order(K) == [j \in 1 .. Cardinality(K) |-> CHOOSE i \in K : Rank(K, i) = j]

(* As many ranks as positions: each is the rank of exactly one.            *)
LEMMA OrderOfPositions ==
    ASSUME NEW n \in Nat, NEW K \in SUBSET (1 .. n)
    PROVE  /\ Cardinality(K) \in Nat
           /\ Order(K) \in Bijection(1 .. Cardinality(K), K)
           /\ \A i, j \in 1 .. Cardinality(K) : i < j => Order(K)[i] < Order(K)[j]
<1> DEFINE m == Cardinality(K)
           r == [i \in K |-> Rank(K, i)]
<1>1. IsFiniteSet(K) /\ m \in Nat
    BY Numbered
<1>2. \A i \in K : i \in Nat /\ r[i] = Rank(K, i) /\ r[i] \in 1 .. m
  <2> TAKE i \in K
  <2>1. Rank(K, i) \in 1 .. m
      BY RanksGrow
  <2> QED
      BY <2>1
<1>3. \A i, h \in K : i < h => r[i] < r[h]
    BY RanksGrow
<1>4. r \in [K -> 1 .. m]
    BY <1>2
<1>5. ASSUME NEW i \in K, NEW h \in K, r[i] = r[h] PROVE i = h
  <2>1. ~ (i < h) /\ ~ (h < i)
      BY <1>2, <1>3, <1>5
  <2> QED
      BY <1>2, <2>1
<1>6. r \in Injection(K, 1 .. m)
    BY <1>4, <1>5 DEF Injection, IsInjective
<1>7. IsFiniteSet(1 .. m) /\ Cardinality(1 .. m) = m
    BY <1>1, FS_Interval
<1>8. r \in Surjection(K, 1 .. m)
    BY <1>6, <1>7, FS_Injection
<1>9. \A j \in 1 .. m : \E i \in K : r[i] = j
    BY <1>8 DEF Surjection
<1>10. \A j \in 1 .. m : Order(K)[j] \in K /\ r[Order(K)[j]] = j
    BY <1>2, <1>9 DEF Order
<1>11. Order(K) \in [1 .. m -> K]
    BY <1>10 DEF Order
<1> HIDE DEF r, m
<1>12. \A i \in K : \E j \in 1 .. m : Order(K)[j] = i
    BY <1>2, <1>5, <1>10
<1>13. \A i, j \in 1 .. m : Order(K)[i] = Order(K)[j] => i = j
    BY <1>10
<1>14. Order(K) \in Bijection(1 .. m, K)
    BY <1>11, <1>12, <1>13 DEF Bijection, Injection, Surjection, IsInjective
<1>15. ASSUME NEW i \in 1 .. m, NEW j \in 1 .. m, i < j PROVE Order(K)[i] < Order(K)[j]
  <2>1. PICK a \in K, b \in K : a = Order(K)[i] /\ b = Order(K)[j] /\ r[a] = i /\ r[b] = j
      BY <1>10
  <2>2. ~ (b < a) /\ a # b
      BY <1>1, <1>3, <1>15, <2>1
  <2> QED
      BY <1>2, <2>1, <2>2
<1> QED
    BY <1>1, <1>14, <1>15 DEF m

(* Members keeps the order, and each value as often as it is at K.         *)
LEMMA MembersAre ==
    ASSUME NEW B, NEW s \in Seq(B), NEW K \in SUBSET DOMAIN s
    PROVE  /\ Cardinality(K) \in Nat
           /\ Members(s, K) \in Seq(B) /\ DOMAIN Members(s, K) = 1 .. Cardinality(K)
           /\ \A j \in 1 .. Cardinality(K) : Order(K)[j] \in K /\ Members(s, K)[j] = s[Order(K)[j]]
           /\ \A i, j \in 1 .. Cardinality(K) : i < j => Order(K)[i] < Order(K)[j]
           /\ \A x : Count(Members(s, K), x) = Cardinality(Where(s, K, x))
<1>1. Len(s) \in Nat /\ DOMAIN s = 1 .. Len(s) /\ \A i \in DOMAIN s : s[i] \in B
    OBVIOUS
<1> DEFINE m == Cardinality(K)
           f == Order(K)
<1>2. m \in Nat /\ f \in Bijection(1 .. m, K) /\ \A i, j \in 1 .. m : i < j => f[i] < f[j]
    BY <1>1, OrderOfPositions
<1>3. /\ f \in [1 .. m -> K] /\ \A i \in K : \E j \in 1 .. m : f[j] = i
      /\ \A i, j \in 1 .. m : f[i] = f[j] => i = j
    BY <1>2 DEF Bijection, Injection, Surjection, IsInjective
<1>4. Members(s, K) = [j \in 1 .. m |-> s[f[j]]]
    BY DEF Members, Order
<1>5. Members(s, K) \in Seq(B) /\ DOMAIN Members(s, K) = 1 .. m
    BY <1>1, <1>2, <1>3, <1>4
<1>6. ASSUME NEW x PROVE Count(Members(s, K), x) = Cardinality(Where(s, K, x))
  <2> DEFINE S == {j \in 1 .. m : s[f[j]] = x}
             T == {i \in K : s[i] = x}
             g == [j \in S |-> f[j]]
  <2>1. g \in Bijection(S, T)
    <3>1. g \in [S -> T]
        BY <1>3
    <3>2. \A i \in T : \E j \in S : g[j] = i
        BY <1>3
    <3>3. \A i, j \in S : g[i] = g[j] => i = j
        BY <1>3
    <3> QED
        BY <3>1, <3>2, <3>3 DEF Bijection, Injection, Surjection, IsInjective
  <2>2. S \in SUBSET (1 .. m)
      OBVIOUS
  <2>3. IsFiniteSet(S)
      BY <1>2, <2>2, Numbered
  <2>4. Cardinality(T) = Cardinality(S)
      BY <2>1, <2>3, FS_Bijection DEF ExistsBijection
  <2>5. Count(Members(s, K), x) = Cardinality(S)
      BY <1>4 DEF Count
  <2> QED
      BY <2>4, <2>5 DEF Where
<1> QED
    BY <1>2, <1>3, <1>4, <1>5, <1>6

(* A value occurs in both parts together.                                  *)
LEMMA CountOfBoth ==
    ASSUME NEW B, NEW s \in Seq(B), NEW t \in Seq(B), NEW x
    PROVE  /\ Count(s, x) \in Nat /\ Count(t, x) \in Nat
           /\ Count(s \o t, x) = Count(s, x) + Count(t, x)
<1> DEFINE n == Len(s)
           S == {j \in 1 .. n : s[j] = x}
           T == {j \in 1 .. Len(t) : t[j] = x}
           U == {j \in 1 .. n + Len(t) : (s \o t)[j] = x}
           V == {j \in n + 1 .. n + Len(t) : t[j - n] = x}
<1>1. /\ n \in Nat /\ Len(t) \in Nat /\ DOMAIN s = 1 .. n /\ DOMAIN t = 1 .. Len(t)
      /\ DOMAIN (s \o t) = 1 .. n + Len(t)
      /\ \A j \in 1 .. n : (s \o t)[j] = s[j]
      /\ \A j \in n + 1 .. n + Len(t) : (s \o t)[j] = t[j - n]
    OBVIOUS
<1>2. Count(s, x) = Cardinality(S) /\ Count(t, x) = Cardinality(T) /\ Count(s \o t, x) = Cardinality(U)
    BY <1>1 DEF Count
<1>3. IsFiniteSet(S) /\ Cardinality(S) \in Nat /\ IsFiniteSet(T) /\ Cardinality(T) \in Nat
  <2>1. S \in SUBSET (1 .. n) /\ T \in SUBSET (1 .. Len(t))
      OBVIOUS
  <2> QED
      BY <1>1, <2>1, Numbered
<1>4. U = S \cup V /\ S \cap V = {}
    BY <1>1
<1>5. IsFiniteSet(V) /\ Cardinality(V) = Cardinality(T)
  <2> DEFINE g == [j \in T |-> j + n]
  <2>1. g \in [T -> V] /\ (\A i, j \in T : g[i] = g[j] => i = j)
      BY <1>1
  <2>2. \A i \in V : \E j \in T : g[j] = i
    <3> TAKE i \in V
    <3>1. i - n \in T /\ (i - n) + n = i
        BY <1>1
    <3> QED
        BY <3>1
  <2>3. g \in Bijection(T, V)
      BY <2>1, <2>2 DEF Bijection, Injection, Surjection, IsInjective
  <2> QED
      BY <1>3, <2>3, FS_Bijection DEF ExistsBijection
<1> HIDE DEF S, T, U, V, n
<1>6. Cardinality(S \cup V) = Cardinality(S) + Cardinality(V)
  <2>1. Cardinality(S \cup V) = Cardinality(S) + Cardinality(V) - Cardinality(S \cap V)
      BY <1>3, <1>5, FS_Union
  <2>2. Cardinality(S \cap V) = 0 /\ Cardinality(V) \in Nat
      BY <1>3, <1>4, <1>5, FS_EmptySet
  <2> QED
      BY <1>3, <2>1, <2>2
<1> QED
    BY <1>2, <1>3, <1>4, <1>5, <1>6

-----------------------------------------------------------------------------
(* The order of the hooks                                                  *)

Descending(s) == \A i, j \in DOMAIN s : i < j => s[i].priority >= s[j].priority

LEMMA Bundles ==
    /\ MaxFound \in Nat
    /\ \A b \in PluginBundles : b.id \in PluginIds /\ b.priority \in Int /\ b.hooks \in Seq(Points)
BY AddOnsAssumption

LEMMA TimesAreNumbers ==
    ASSUME NEW b \in PluginBundles, NEW p
    PROVE  Times(b, p) \in Nat
<1>1. b.hooks \in Seq(Points) /\ Len(b.hooks) \in Nat /\ DOMAIN b.hooks = 1 .. Len(b.hooks)
    BY Bundles
<1>2. {k \in DOMAIN b.hooks : b.hooks[k] = p} \in SUBSET (1 .. Len(b.hooks))
    BY <1>1
<1> QED
    BY <1>1, <1>2, Numbered DEF Times

LEMMA DescendingMembers ==
    ASSUME NEW s \in Seq(PluginBundles), Descending(s), NEW K \in SUBSET DOMAIN s
    PROVE  Descending(Members(s, K))
<1>1. /\ DOMAIN Members(s, K) = 1 .. Cardinality(K)
      /\ \A j \in 1 .. Cardinality(K) : Order(K)[j] \in K /\ Members(s, K)[j] = s[Order(K)[j]]
      /\ \A i, j \in 1 .. Cardinality(K) : i < j => Order(K)[i] < Order(K)[j]
    BY MembersAre
<1> QED
    BY <1>1 DEF Descending

(* Two descending sequences, the first above the second.                   *)
LEMMA DescendingBoth ==
    ASSUME NEW s \in Seq(PluginBundles), NEW t \in Seq(PluginBundles), Descending(s), Descending(t),
           \A i \in DOMAIN s, j \in DOMAIN t : s[i].priority >= t[j].priority
    PROVE  s \o t \in Seq(PluginBundles) /\ Descending(s \o t)
           /\ \A i \in DOMAIN (s \o t) : \/ \E j \in DOMAIN s : (s \o t)[i] = s[j]
                                         \/ \E j \in DOMAIN t : (s \o t)[i] = t[j]
<1>1. PICK n \in Nat, m \in Nat : n = Len(s) /\ m = Len(t)
    OBVIOUS
<1>2. PICK u : u = s \o t
    OBVIOUS
<1>3. /\ u \in Seq(PluginBundles) /\ DOMAIN s = 1 .. n /\ DOMAIN t = 1 .. m /\ DOMAIN u = 1 .. n + m
      /\ \A j \in 1 .. n : u[j] = s[j]
      /\ \A j \in n + 1 .. n + m : u[j] = t[j - n]
    BY <1>1, <1>2
<1>4. \A j \in DOMAIN u : j \in 1 .. n \/ (j \in n + 1 .. n + m /\ j - n \in 1 .. m)
    BY <1>3
<1>5. ASSUME NEW i \in DOMAIN u, NEW j \in DOMAIN u, i < j PROVE u[i].priority >= u[j].priority
  <2>1. CASE j \in 1 .. n
    <3>1. i \in 1 .. n
        BY <1>4, <1>5, <2>1
    <3> QED
        BY <1>3, <1>5, <2>1, <3>1 DEF Descending
  <2>2. CASE j \in n + 1 .. n + m /\ j - n \in 1 .. m
    <3>1. CASE i \in 1 .. n
        BY <1>3, <2>2, <3>1
    <3>2. CASE i \in n + 1 .. n + m /\ i - n \in 1 .. m
      <4>1. i - n < j - n
          BY <1>5, <2>2, <3>2
      <4> QED
          BY <1>3, <2>2, <3>2, <4>1 DEF Descending
    <3> QED
        BY <1>4, <3>1, <3>2
  <2> QED
      BY <1>4, <2>1, <2>2
<1>6. \A i \in DOMAIN u : (\E j \in DOMAIN s : u[i] = s[j]) \/ (\E j \in DOMAIN t : u[i] = t[j])
    BY <1>3, <1>4
<1> QED
    BY <1>2, <1>5, <1>6 DEF Descending

LEMMA CopiesAre ==
    ASSUME NEW b \in PluginBundles, NEW n \in Nat
    PROVE  /\ Copies(b, n) \in Seq(PluginBundles) /\ Descending(Copies(b, n))
           /\ \A i \in DOMAIN Copies(b, n) : Copies(b, n)[i] = b
           /\ Count(Copies(b, n), b) = n
           /\ \A x : x # b => Count(Copies(b, n), x) = 0
<1>1. /\ Copies(b, n) \in Seq(PluginBundles) /\ DOMAIN Copies(b, n) = 1 .. n
      /\ \A i \in 1 .. n : Copies(b, n)[i] = b
    BY DEF Copies
<1>2. b.priority \in Int
    BY Bundles
<1>3. {j \in DOMAIN Copies(b, n) : Copies(b, n)[j] = b} = 1 .. n
    BY <1>1
<1>4. \A x : x # b => {j \in DOMAIN Copies(b, n) : Copies(b, n)[j] = x} = {}
    BY <1>1
<1>5. Cardinality(1 .. n) = n
    BY FS_Interval
<1>6. Count(Copies(b, n), b) = n /\ \A x : x # b => Count(Copies(b, n), x) = 0
    BY <1>3, <1>4, <1>5, FS_EmptySet DEF Count
<1> QED
    BY <1>1, <1>2, <1>6 DEF Descending

(* A new plugin put in its place: the order holds, it occurs as often as   *)
(* asked, and the others as often as before.                               *)
LEMMA PlacedIs ==
    ASSUME NEW s \in Seq(PluginBundles), Descending(s), NEW b \in PluginBundles, NEW n \in Nat,
           \A i \in DOMAIN s : s[i] # b
    PROVE  /\ Placed(s, b, n) \in Seq(PluginBundles) /\ Descending(Placed(s, b, n))
           /\ \A i \in DOMAIN Placed(s, b, n) :
                 Placed(s, b, n)[i] = b \/ \E j \in DOMAIN s : Placed(s, b, n)[i] = s[j]
           /\ Count(Placed(s, b, n), b) = n
           /\ \A x : x # b => Count(Placed(s, b, n), x) = Count(s, x)
<1>1. \A i \in DOMAIN s : s[i] \in PluginBundles /\ s[i].priority \in Int /\ b.priority \in Int
    BY Bundles
<1>2. PICK K, H : /\ K = {i \in DOMAIN s : s[i].priority >= b.priority}
                  /\ H = {i \in DOMAIN s : s[i].priority < b.priority}
    OBVIOUS
<1>3. PICK u, c, v : u = Members(s, K) /\ c = Copies(b, n) /\ v = Members(s, H)
    OBVIOUS
<1>4. K \in SUBSET DOMAIN s /\ H \in SUBSET DOMAIN s
    BY <1>2
<1>5. /\ u \in Seq(PluginBundles) /\ Descending(u)
      /\ \A i \in DOMAIN u : \E j \in K : u[i] = s[j]
      /\ \A x : Count(u, x) = Cardinality(Where(s, K, x))
  <2>1. u \in Seq(PluginBundles) /\ Descending(u)
      BY <1>3, <1>4, MembersAre, DescendingMembers
  <2>2. (\A i \in DOMAIN u : \E j \in K : u[i] = s[j]) /\ \A x : Count(u, x) = Cardinality(Where(s, K, x))
      BY <1>3, <1>4, MembersAre
  <2> QED
      BY <2>1, <2>2
<1>6. /\ v \in Seq(PluginBundles) /\ Descending(v)
      /\ \A i \in DOMAIN v : \E j \in H : v[i] = s[j]
      /\ \A x : Count(v, x) = Cardinality(Where(s, H, x))
  <2>1. v \in Seq(PluginBundles) /\ Descending(v)
      BY <1>3, <1>4, MembersAre, DescendingMembers
  <2>2. (\A i \in DOMAIN v : \E j \in H : v[i] = s[j]) /\ \A x : Count(v, x) = Cardinality(Where(s, H, x))
      BY <1>3, <1>4, MembersAre
  <2> QED
      BY <2>1, <2>2
<1>7. /\ c \in Seq(PluginBundles) /\ Descending(c) /\ (\A i \in DOMAIN c : c[i] = b)
      /\ Count(c, b) = n /\ \A x : x # b => Count(c, x) = 0
    BY <1>3, CopiesAre
<1>8. PICK d, w : d = u \o c /\ w = d \o v
    OBVIOUS
<1>9. Placed(s, b, n) = w
    BY <1>2, <1>3, <1>8 DEF Placed
<1>10. \A i \in DOMAIN u, j \in DOMAIN c : u[i].priority >= c[j].priority
    BY <1>2, <1>5, <1>7
<1>11. /\ d \in Seq(PluginBundles) /\ Descending(d)
       /\ \A i \in DOMAIN d : (\E j \in DOMAIN u : d[i] = u[j]) \/ (\E j \in DOMAIN c : d[i] = c[j])
    BY <1>5, <1>7, <1>8, <1>10, DescendingBoth
<1>12. \A i \in DOMAIN d, j \in DOMAIN v : d[i].priority >= v[j].priority
  <2> TAKE i \in DOMAIN d, j \in DOMAIN v
  <2>1. d[i].priority >= b.priority /\ d[i].priority \in Int
    <3>1. CASE \E h \in DOMAIN u : d[i] = u[h]
        BY <1>1, <1>2, <1>5, <3>1
    <3>2. CASE \E h \in DOMAIN c : d[i] = c[h]
        BY <1>7, <3>2, Bundles
    <3> QED
        BY <1>11, <3>1, <3>2
  <2>2. v[j].priority < b.priority /\ v[j].priority \in Int
      BY <1>1, <1>2, <1>6
  <2>3. b.priority \in Int
      BY Bundles
  <2> QED
      BY <2>1, <2>2, <2>3
<1>13. /\ w \in Seq(PluginBundles) /\ Descending(w)
       /\ \A i \in DOMAIN w : (\E j \in DOMAIN d : w[i] = d[j]) \/ (\E j \in DOMAIN v : w[i] = v[j])
  <2>1. v \in Seq(PluginBundles) /\ Descending(v) /\ d \in Seq(PluginBundles) /\ Descending(d)
      BY <1>6, <1>11
  <2>2. /\ d \o v \in Seq(PluginBundles) /\ Descending(d \o v)
        /\ \A i \in DOMAIN (d \o v) : \/ \E j \in DOMAIN d : (d \o v)[i] = d[j]
                                      \/ \E j \in DOMAIN v : (d \o v)[i] = v[j]
      BY <1>12, <2>1, DescendingBoth
  <2> QED
      BY <1>8, <2>2
<1>14. \A x : /\ Count(w, x) = Count(u, x) + Count(c, x) + Count(v, x)
              /\ Count(u, x) \in Nat /\ Count(c, x) \in Nat /\ Count(v, x) \in Nat
  <2> TAKE x
  <2>1. Count(d, x) = Count(u, x) + Count(c, x) /\ Count(u, x) \in Nat /\ Count(c, x) \in Nat
      BY <1>5, <1>7, <1>8, CountOfBoth
  <2>2. Count(w, x) = Count(d, x) + Count(v, x) /\ Count(v, x) \in Nat
    <3>1. v \in Seq(PluginBundles) /\ d \in Seq(PluginBundles)
        BY <1>6, <1>11
    <3> QED
        BY <1>8, <3>1, CountOfBoth
  <2> QED
      BY <2>1, <2>2
<1>15. Count(w, b) = n
  <2>1. Where(s, K, b) = {} /\ Where(s, H, b) = {}
      BY <1>4 DEF Where
  <2>2. Count(u, b) = 0 /\ Count(v, b) = 0
      BY <1>5, <1>6, <2>1, FS_EmptySet
  <2> QED
      BY <1>7, <1>14, <2>2
<1>16. ASSUME NEW x, x # b PROVE Count(w, x) = Count(s, x)
  <2>1. Count(s, x) = Cardinality(Where(s, DOMAIN s, x))
      BY DEF Count, Where
  <2>2. Count(c, x) = 0
      BY <1>7, <1>16
  <2>3. CASE Where(s, DOMAIN s, x) = {}
    <3>1. Where(s, K, x) = {} /\ Where(s, H, x) = {}
        BY <1>4, <2>3 DEF Where
    <3>2. Count(u, x) = 0 /\ Count(v, x) = 0 /\ Count(s, x) = 0
        BY <1>5, <1>6, <2>1, <2>3, <3>1, FS_EmptySet
    <3> QED
        BY <1>14, <2>2, <3>2
  <2>4. CASE Where(s, DOMAIN s, x) # {}
    <3>1. x.priority \in Int /\ b.priority \in Int
        BY <1>1, <2>4 DEF Where
    <3>2. CASE x.priority >= b.priority
      <4>1. Where(s, K, x) = Where(s, DOMAIN s, x) /\ Where(s, H, x) = {}
          BY <1>2, <3>1, <3>2 DEF Where
      <4>2. Count(u, x) = Count(s, x) /\ Count(v, x) = 0
          BY <1>5, <1>6, <2>1, <4>1, FS_EmptySet
      <4> QED
          BY <1>14, <2>2, <4>2
    <3>3. CASE x.priority < b.priority
      <4>1. Where(s, H, x) = Where(s, DOMAIN s, x) /\ Where(s, K, x) = {}
          BY <1>2, <3>1, <3>3 DEF Where
      <4>2. Count(v, x) = Count(s, x) /\ Count(u, x) = 0
          BY <1>5, <1>6, <2>1, <4>1, FS_EmptySet
      <4> QED
          BY <1>14, <2>2, <4>2
    <3> QED
        BY <3>1, <3>2, <3>3
  <2> QED
      BY <2>3, <2>4
<1>17. \A i \in DOMAIN w : w[i] = b \/ \E j \in DOMAIN s : w[i] = s[j]
  <2> TAKE i \in DOMAIN w
  <2>1. CASE \E j \in DOMAIN v : w[i] = v[j]
      BY <1>4, <1>6, <2>1
  <2>2. CASE \E j \in DOMAIN d : w[i] = d[j]
    <3>1. PICK j \in DOMAIN d : w[i] = d[j]
        BY <2>2
    <3>2. CASE \E h \in DOMAIN u : d[j] = u[h]
        BY <1>4, <1>5, <3>1, <3>2
    <3>3. CASE \E h \in DOMAIN c : d[j] = c[h]
        BY <1>7, <3>1, <3>3
    <3> QED
        BY <1>11, <3>2, <3>3
  <2> QED
      BY <1>13, <2>1, <2>2
<1> QED
    BY <1>9, <1>13, <1>15, <1>16, <1>17

-----------------------------------------------------------------------------
(* The bundles looked at                                                   *)

(* q is what is left of f.                                                 *)
Ahead(q, f) == Len(q) <= Len(f) /\ \A i \in 1 .. Len(q) : q[i] = f[Len(f) - Len(q) + i]

(* Looking at the next bundle.                                             *)
LEMMA OneLess ==
    ASSUME NEW B, NEW f \in Seq(B), NEW q \in Seq(B), Ahead(q, f), q # <<>>
    PROVE  /\ Tail(q) \in Seq(B) /\ Ahead(Tail(q), f)
           /\ Len(f) - Len(q) \in Nat /\ Len(f) - Len(q) + 1 \in DOMAIN f
           /\ Len(f) - Len(Tail(q)) = (Len(f) - Len(q)) + 1
           /\ Head(q) = f[(Len(f) - Len(q)) + 1] /\ Head(q) \in B
<1>1. /\ Len(f) \in Nat /\ Len(q) \in Nat /\ Len(q) >= 1 /\ Len(Tail(q)) = Len(q) - 1 /\ DOMAIN f = 1 .. Len(f)
      /\ Tail(q) \in Seq(B) /\ \A i \in 1 .. Len(q) - 1 : Tail(q)[i] = q[i + 1]
      /\ Head(q) = q[1] /\ Head(q) \in B
    OBVIOUS
<1>2. Len(q) <= Len(f) /\ \A i \in 1 .. Len(q) : q[i] = f[Len(f) - Len(q) + i]
    BY DEF Ahead
<1>3. Ahead(Tail(q), f)
  <2>1. ASSUME NEW i \in 1 .. Len(q) - 1 PROVE Tail(q)[i] = f[Len(f) - (Len(q) - 1) + i]
    <3>1. i + 1 \in 1 .. Len(q) /\ Len(f) - Len(q) + (i + 1) = Len(f) - (Len(q) - 1) + i
        BY <1>1
    <3>2. Tail(q)[i] = q[i + 1] /\ q[i + 1] = f[Len(f) - Len(q) + (i + 1)]
        BY <1>1, <1>2, <3>1
    <3> QED
        BY <3>1, <3>2
  <2> QED
      BY <1>1, <1>2, <2>1 DEF Ahead
<1> QED
    BY <1>1, <1>2, <1>3

(* A nonempty set of positions has a first one.                            *)
LEMMA Least ==
    ASSUME NEW n \in Nat, NEW K \in SUBSET (1 .. n), K # {}
    PROVE  \E i \in K : \A h \in K : i <= h
<1>1. /\ Cardinality(K) \in Nat /\ Order(K) \in Bijection(1 .. Cardinality(K), K)
      /\ \A i, j \in 1 .. Cardinality(K) : i < j => Order(K)[i] < Order(K)[j]
    BY OrderOfPositions
<1>2. \A h \in K : \E j \in 1 .. Cardinality(K) : Order(K)[j] = h
    BY <1>1 DEF Bijection, Surjection
<1>3. 1 \in 1 .. Cardinality(K) /\ Order(K)[1] \in K
  <2>1. PICK h \in K : TRUE
      OBVIOUS
  <2>2. PICK j \in 1 .. Cardinality(K) : Order(K)[j] = h
      BY <1>2
  <2>3. 1 \in 1 .. Cardinality(K)
      BY <1>1, <2>2
  <2>4. Order(K) \in [1 .. Cardinality(K) -> K]
      BY <1>1 DEF Bijection, Injection
  <2> QED
      BY <2>3, <2>4
<1>4. ASSUME NEW h \in K PROVE Order(K)[1] <= h
  <2>1. PICK j \in 1 .. Cardinality(K) : Order(K)[j] = h
      BY <1>2
  <2>2. j = 1 \/ 1 < j
      BY <1>1, <2>1
  <2>3. h \in Int
      OBVIOUS
  <2>4. CASE j = 1
      BY <2>1, <2>3, <2>4
  <2>5. CASE 1 < j
    <3>1. Order(K)[1] < Order(K)[j]
        BY <1>1, <1>3, <2>1, <2>5
    <3>2. Order(K)[1] \in Int
      <4>1. \A k \in K : k \in Int
          OBVIOUS
      <4> QED
          BY <1>3, <4>1
    <3> QED
        BY <2>1, <2>3, <3>1, <3>2
  <2> QED
      BY <2>2, <2>4, <2>5
<1> QED
    BY <1>3, <1>4

(* Every identifier that loads at all has a first copy that does.          *)
LEMMA FirstsAre ==
    ASSUME NEW B, NEW f \in Seq(B), NEW registry
    PROVE  /\ \A j \in DOMAIN f :
                 Loads(registry, f[j]) /\ (\A h \in 1 .. j - 1 : f[h].id = f[j].id => ~ Loads(registry, f[h]))
                     => f[j] \in Firsts(registry, f)
           /\ \A b \in Firsts(registry, f) : \E j \in DOMAIN f : f[j] = b /\ Loads(registry, b)
           /\ \A j \in DOMAIN f : Loads(registry, f[j]) => \E b \in Firsts(registry, f) : b.id = f[j].id
<1>1. \A j \in DOMAIN f :
          Loads(registry, f[j]) /\ (\A h \in 1 .. j - 1 : f[h].id = f[j].id => ~ Loads(registry, f[h]))
              => f[j] \in Firsts(registry, f)
    BY DEF Firsts, Loads
<1>2. \A b \in Firsts(registry, f) : \E j \in DOMAIN f : f[j] = b /\ Loads(registry, b)
    BY DEF Firsts, Loads
<1>3. ASSUME NEW j \in DOMAIN f, Loads(registry, f[j]) PROVE \E b \in Firsts(registry, f) : b.id = f[j].id
  <2>1. Len(f) \in Nat /\ DOMAIN f = 1 .. Len(f)
      OBVIOUS
  <2> DEFINE K == {h \in 1 .. Len(f) : f[h].id = f[j].id /\ Loads(registry, f[h])}
  <2>2. K \in SUBSET (1 .. Len(f)) /\ j \in K
      BY <1>3, <2>1
  <2>3. PICK i \in K : \A h \in K : i <= h
      BY <2>1, <2>2, Least
  <2>4. \A h \in 1 .. i - 1 : f[h].id = f[i].id => ~ Loads(registry, f[h])
      BY <2>1, <2>3
  <2> QED
      BY <1>1, <2>1, <2>3, <2>4
<1> QED
    BY <1>1, <1>2, <1>3

-----------------------------------------------------------------------------
(* The invariant                                                           *)

Phases == {"plugins", "extensions", "running", "failed"}
AddOnStores ==
    /\ hooks \in [Points -> Seq(PluginBundles)]
    /\ found \in [plugins : Seq(PluginBundles), extensions : Seq(ExtensionBundles)]
    /\ queue \in [plugins : Seq(PluginBundles), extensions : Seq(ExtensionBundles)]
    /\ phase \in Phases /\ registered \subseteq PluginIds /\ extensions \subseteq ExtensionBundles
    /\ firing \in [point : Points \cup {"none"}, todo : Seq(PluginBundles), ended : {"no", "done", "aborted"}]
    /\ ran \in Seq([hook : PluginBundles, asked : BOOLEAN])

(* Plugins have been looked at in order, and are registered as found.      *)
LookedAt(kind) == Len(found[kind]) - Len(queue[kind])
LoadingInv ==
    /\ Ahead(queue.plugins, found.plugins) /\ Ahead(queue.extensions, found.extensions)
    /\ phase = "plugins" =>
          \A id : id \in registered <=>
              \E j \in 1 .. LookedAt("plugins") :
                  found.plugins[j].id = id /\ Loads(trust, found.plugins[j])
    /\ phase = "extensions" => registered = {b.id : b \in Firsts(trust, found.plugins)}

HooksInv ==
    \A p \in Points :
        /\ Descending(hooks[p])
        /\ \A i \in DOMAIN hooks[p] :
              /\ hooks[p][i].id \in registered
              /\ hooks[p][i] \in Firsts(trust, found.plugins)
              /\ Count(hooks[p], hooks[p][i]) = Times(hooks[p][i], p)

ExtensionsInv ==
    /\ extensions \subseteq Firsts(installed, found.extensions)
    /\ \A d, e \in extensions : d.id = e.id => d = e
    /\ KeysMatchExtensions

FiringInv == (firing.ended = "no" <=> firing.todo # <<>>) /\ OnlyTrustedVeto

AddOnsInv == AddOnStores /\ LoadingInv /\ HooksInv /\ ExtensionsInv /\ FiringInv

LEMMA DirectoriesAreSequences ==
    ASSUME NEW B, NEW d \in Directories(B)
    PROVE  d \in Seq(B)
<1>1. PICK n \in 0 .. MaxFound : d \in [1 .. n -> B]
    BY DEF Directories
<1>2. n \in Nat
    BY <1>1, Bundles
<1> QED
    BY <1>1, <1>2

LEMMA AddOnsStart ==
    ASSUME AddOnsInit
    PROVE  AddOnsInv
<1>1. /\ queue = found /\ phase = "plugins" /\ registered = {} /\ ran = <<>>
      /\ extensions = {} /\ routes = {} /\ commands = {}
      /\ firing = [point |-> "none", todo |-> <<>>, ended |-> "done"]
      /\ hooks = [p \in Points |-> <<>>]
      /\ found \in [plugins : Directories(PluginBundles), extensions : Directories(ExtensionBundles)]
    BY DEF AddOnsInit, Quiet
<1>2. found \in [plugins : Seq(PluginBundles), extensions : Seq(ExtensionBundles)]
  <2>1. found.plugins \in Seq(PluginBundles) /\ found.extensions \in Seq(ExtensionBundles)
      BY <1>1, DirectoriesAreSequences
  <2> QED
      BY <1>1, <2>1
<1>3. AddOnStores
    BY <1>1, <1>2 DEF AddOnStores, Phases
<1>4. LoadingInv
    BY <1>1, <1>2 DEF LoadingInv, LookedAt, Ahead
<1>5. HooksInv
    BY <1>1 DEF HooksInv, Descending
<1>6. ExtensionsInv
    BY <1>1 DEF ExtensionsInv, KeysMatchExtensions
<1>7. FiringInv
    BY <1>1 DEF FiringInv, OnlyTrustedVeto
<1> QED
    BY <1>3, <1>4, <1>5, <1>6, <1>7 DEF AddOnsInv

LEMMA LoadingStays ==
    ASSUME LoadingInv, found' = found, queue' = queue, trust' = trust, phase' = phase,
           registered' = registered
    PROVE  LoadingInv'
<1>1. Ahead(queue.plugins, found.plugins)' /\ Ahead(queue.extensions, found.extensions)'
    BY DEF LoadingInv, Ahead
<1>2. \A b : Loads(trust, b)' <=> Loads(trust, b)
    BY DEF Loads, Approves
<1>3. Firsts(trust, found.plugins)' = Firsts(trust, found.plugins)
    BY DEF Firsts, Approves
<1>4. phase = "plugins" =>
          \A id : id \in registered <=>
              \E j \in 1 .. LookedAt("plugins") : found.plugins[j].id = id /\ Loads(trust, found.plugins[j])
    BY DEF LoadingInv
<1>5. phase = "extensions" => registered = {b.id : b \in Firsts(trust, found.plugins)}
    BY DEF LoadingInv
<1>6. LookedAt("plugins")' = LookedAt("plugins")
    BY DEF LookedAt
<1>7. phase' = "plugins" =>
          \A id : id \in registered' <=>
              \E j \in 1 .. LookedAt("plugins")' : found'.plugins[j].id = id /\ Loads(trust, found.plugins[j])'
    BY <1>4, <1>6 DEF Loads, Approves
<1> QED
    BY <1>1, <1>3, <1>5, <1>7 DEF LoadingInv

-----------------------------------------------------------------------------
(* Each operation preserves it                                             *)

(* The bundle looked at is the first of its identifier, or a copy of one   *)
(* that is registered already.                                             *)
LEMMA LoadPluginKeepsLoading ==
    ASSUME AddOnsInv, LoadPlugin
    PROVE  /\ LoadingInv'
           /\ LET b == Head(queue.plugins)
              IN  /\ b \in PluginBundles
                  /\ Loads(trust, b) /\ b.id \notin registered => b \in Firsts(trust, found.plugins)
<1>1. /\ phase = "plugins" /\ queue.plugins # <<>> /\ phase' = phase /\ trust' = trust /\ found' = found
      /\ queue' = [queue EXCEPT !.plugins = Tail(@)]
      /\ registered' = IF Loads(trust, Head(queue.plugins)) /\ Head(queue.plugins).id \notin registered
                       THEN registered \cup {Head(queue.plugins).id} ELSE registered
    BY DEF LoadPlugin, Register, approvals, pluginVars
<1>2. /\ found.plugins \in Seq(PluginBundles) /\ found.extensions \in Seq(ExtensionBundles)
      /\ queue \in [plugins : Seq(PluginBundles), extensions : Seq(ExtensionBundles)]
      /\ Ahead(queue.plugins, found.plugins) /\ Ahead(queue.extensions, found.extensions)
      /\ \A id : id \in registered <=>
            \E j \in 1 .. Len(found.plugins) - Len(queue.plugins) :
                found.plugins[j].id = id /\ Loads(trust, found.plugins[j])
    BY <1>1 DEF AddOnsInv, AddOnStores, LoadingInv, LookedAt
<1>3. queue'.plugins = Tail(queue.plugins) /\ queue'.extensions = queue.extensions
    BY <1>1, <1>2
<1>4. PICK f : f = found.plugins
    OBVIOUS
<1>5. PICK q : q = queue.plugins
    OBVIOUS
<1>6. f \in Seq(PluginBundles) /\ q \in Seq(PluginBundles) /\ Ahead(q, f) /\ q # <<>>
    BY <1>1, <1>2, <1>4, <1>5
<1>7. PICK k : k = Len(f) - Len(q)
    OBVIOUS
<1>8. /\ Ahead(Tail(q), f) /\ k \in Nat /\ k + 1 \in DOMAIN f /\ Len(f) - Len(Tail(q)) = k + 1
      /\ Head(q) = f[k + 1] /\ Head(q) \in PluginBundles
    BY <1>6, <1>7, OneLess
<1>9. \A id : id \in registered <=> \E j \in 1 .. k : f[j].id = id /\ Loads(trust, f[j])
    BY <1>2, <1>4, <1>5, <1>7
<1>10. Loads(trust, f[k + 1]) /\ f[k + 1].id \notin registered => f[k + 1] \in Firsts(trust, f)
  <2>1. HAVE Loads(trust, f[k + 1]) /\ f[k + 1].id \notin registered
  <2>2. ASSUME NEW h \in 1 .. (k + 1) - 1, f[h].id = f[k + 1].id, Loads(trust, f[h]) PROVE FALSE
    <3>1. h \in 1 .. k
        BY <1>8
    <3>2. f[k + 1].id \in registered
        BY <1>9, <2>2, <3>1
    <3> QED
        BY <2>1, <3>2
  <2> QED
      BY <1>6, <1>8, <2>1, <2>2, FirstsAre
<1>11. registered' = IF Loads(trust, f[k + 1]) /\ f[k + 1].id \notin registered
                     THEN registered \cup {f[k + 1].id} ELSE registered
    BY <1>1, <1>5, <1>8
<1>12. ASSUME NEW id
       PROVE  id \in registered' <=> \E j \in 1 .. k + 1 : f[j].id = id /\ Loads(trust, f[j])
  <2>1. \A j : j \in 1 .. k + 1 <=> j \in 1 .. k \/ j = k + 1
      BY <1>8
  <2>2. (\E j \in 1 .. k + 1 : f[j].id = id /\ Loads(trust, f[j]))
            <=> id \in registered \/ (f[k + 1].id = id /\ Loads(trust, f[k + 1]))
      BY <1>9, <2>1
  <2> QED
      BY <1>11, <2>2
<1>13. LoadingInv'
  <2>1. Ahead(queue'.plugins, found'.plugins) /\ Ahead(queue'.extensions, found'.extensions)
      BY <1>1, <1>2, <1>3, <1>4, <1>5, <1>8
  <2>2. Len(found'.plugins) - Len(queue'.plugins) = k + 1
      BY <1>1, <1>3, <1>4, <1>5, <1>8
  <2>3. \A id : id \in registered' <=>
            \E j \in 1 .. Len(found'.plugins) - Len(queue'.plugins) :
                found'.plugins[j].id = id /\ Loads(trust', found'.plugins[j])
      BY <1>1, <1>4, <1>12, <2>2
  <2>4. Ahead(queue.plugins, found.plugins)' /\ Ahead(queue.extensions, found.extensions)'
      BY <2>1
  <2> QED
      BY <1>1, <2>3, <2>4 DEF LoadingInv, LookedAt, Loads, Approves
<1> QED
    BY <1>4, <1>5, <1>8, <1>10, <1>13

LEMMA LoadPluginKeeps ==
    ASSUME AddOnsInv, LoadPlugin
    PROVE  AddOnsInv'
<1>1. /\ phase' = phase /\ found' = found /\ trust' = trust /\ installed' = installed
      /\ extensions' = extensions /\ routes' = routes /\ commands' = commands
      /\ firing' = firing /\ ran' = ran /\ queue' = [queue EXCEPT !.plugins = Tail(@)]
      /\ queue.plugins # <<>>
    BY DEF LoadPlugin, approvals, extensionVars
<1>2. AddOnStores
    BY DEF AddOnsInv
<1>3. /\ Ahead(queue.plugins, found.plugins) /\ queue.plugins \in Seq(PluginBundles)
      /\ hooks \in [Points -> Seq(PluginBundles)]
      /\ \A p \in Points : Descending(hooks[p])
      /\ \A p \in Points : \A i \in DOMAIN hooks[p] :
            /\ hooks[p][i].id \in registered /\ hooks[p][i] \in Firsts(trust, found.plugins)
            /\ Count(hooks[p], hooks[p][i]) = Times(hooks[p][i], p)
    BY DEF AddOnsInv, AddOnStores, LoadingInv, HooksInv
<1>4. PICK b : b = Head(queue.plugins)
    OBVIOUS
<1>5. /\ LoadingInv' /\ b \in PluginBundles
      /\ Loads(trust, b) /\ b.id \notin registered => b \in Firsts(trust, found.plugins)
    BY <1>4, LoadPluginKeepsLoading
<1>6. \/ Loads(trust, b) /\ b.id \notin registered /\ Register(b)
      \/ registered' = registered /\ hooks' = hooks
    BY <1>4 DEF LoadPlugin, pluginVars
<1>7. /\ registered' \subseteq PluginIds /\ hooks' \in [Points -> Seq(PluginBundles)]
      /\ \A p \in Points : Descending(hooks'[p])
      /\ \A p \in Points : \A i \in DOMAIN hooks'[p] :
            /\ hooks'[p][i].id \in registered' /\ hooks'[p][i] \in Firsts(trust, found.plugins)
            /\ Count(hooks'[p], hooks'[p][i]) = Times(hooks'[p][i], p)
  <2>1. CASE registered' = registered /\ hooks' = hooks
      BY <1>2, <1>3, <2>1 DEF AddOnStores
  <2>2. CASE Loads(trust, b) /\ b.id \notin registered /\ Register(b)
    <3>1. registered' = registered \cup {b.id} /\ hooks' = [p \in Points |-> Placed(hooks[p], b, Times(b, p))]
        BY <2>2 DEF Register
    <3>2. ASSUME NEW p \in Points
          PROVE  /\ hooks'[p] \in Seq(PluginBundles) /\ Descending(hooks'[p])
                 /\ \A i \in DOMAIN hooks'[p] :
                       /\ hooks'[p][i].id \in registered' /\ hooks'[p][i] \in Firsts(trust, found.plugins)
                       /\ Count(hooks'[p], hooks'[p][i]) = Times(hooks'[p][i], p)
      <4>1. PICK s : s = hooks[p]
          OBVIOUS
      <4>2. PICK t : t = hooks'[p]
          OBVIOUS
      <4>3. PICK n : n = Times(b, p)
          OBVIOUS
      <4>4. n \in Nat
          BY <1>5, <4>3, TimesAreNumbers
      <4>5. t = Placed(s, b, n)
          BY <3>1, <4>1, <4>2, <4>3
      <4>6. /\ s \in Seq(PluginBundles) /\ Descending(s)
            /\ \A i \in DOMAIN s : /\ s[i].id \in registered /\ s[i] \in Firsts(trust, found.plugins)
                                   /\ Count(s, s[i]) = Times(s[i], p)
          BY <1>3, <4>1
      <4>7. \A i \in DOMAIN s : s[i] # b
          BY <2>2, <4>6
      <4>8. /\ t \in Seq(PluginBundles) /\ Descending(t)
            /\ \A i \in DOMAIN t : t[i] = b \/ \E j \in DOMAIN s : t[i] = s[j]
            /\ Count(t, b) = n
            /\ \A x : x # b => Count(t, x) = Count(s, x)
          BY <1>5, <4>4, <4>5, <4>6, <4>7, PlacedIs
      <4>9. ASSUME NEW i \in DOMAIN t
            PROVE  /\ t[i].id \in registered' /\ t[i] \in Firsts(trust, found.plugins)
                   /\ Count(t, t[i]) = Times(t[i], p)
        <5>1. CASE t[i] = b
            BY <1>5, <2>2, <3>1, <4>3, <4>8, <5>1
        <5>2. CASE t[i] # b
          <6>1. PICK j \in DOMAIN s : t[i] = s[j]
              BY <4>8, <5>2
          <6>2. Count(t, t[i]) = Count(s, t[i])
              BY <4>8, <5>2
          <6> QED
              BY <3>1, <4>6, <6>1, <6>2
        <5> QED
            BY <5>1, <5>2
      <4> QED
          BY <4>2, <4>8, <4>9
    <3>3. registered' \subseteq PluginIds
        BY <1>2, <1>5, <3>1, Bundles DEF AddOnStores
    <3>4. hooks' \in [Points -> Seq(PluginBundles)]
      <4>1. hooks' = [p \in Points |-> hooks'[p]]
          BY <3>1
      <4> QED
          BY <3>2, <4>1
    <3> QED
        BY <3>2, <3>3, <3>4
  <2> QED
      BY <1>6, <2>1, <2>2
<1>8. Tail(queue.plugins) \in Seq(PluginBundles)
    BY <1>1, <1>3
<1>9. AddOnStores'
  <2>1. queue' \in [plugins : Seq(PluginBundles), extensions : Seq(ExtensionBundles)]
      BY <1>1, <1>2, <1>8 DEF AddOnStores
  <2> QED
      BY <1>1, <1>2, <1>7, <2>1 DEF AddOnStores
<1>10. HooksInv'
  <2>1. \A p \in Points : /\ Descending(hooks[p])'
                          /\ \A i \in DOMAIN hooks'[p] : Count(hooks[p], hooks[p][i])' = Times(hooks'[p][i], p)
      BY <1>7
  <2> QED
      BY <1>1, <1>7, <2>1 DEF HooksInv, Firsts, Approves
<1>11. ExtensionsInv'
    BY <1>1 DEF AddOnsInv, ExtensionsInv, KeysMatchExtensions, Firsts, Approves
<1>12. FiringInv'
    BY <1>1 DEF AddOnsInv, FiringInv, OnlyTrustedVeto
<1> QED
    BY <1>5, <1>9, <1>10, <1>11, <1>12 DEF AddOnsInv

(* What does not collide shares no key with what is registered.            *)
LEMMA LoadExtensionKeeps ==
    ASSUME AddOnsInv, LoadExtension
    PROVE  AddOnsInv'
<1>1. /\ phase = "extensions" /\ queue.extensions # <<>> /\ queue' = [queue EXCEPT !.extensions = Tail(@)]
      /\ found' = found /\ trust' = trust /\ installed' = installed
      /\ hooks' = hooks /\ registered' = registered /\ firing' = firing /\ ran' = ran
    BY DEF LoadExtension, approvals, pluginVars
<1>2. /\ found.plugins \in Seq(PluginBundles) /\ found.extensions \in Seq(ExtensionBundles)
      /\ queue \in [plugins : Seq(PluginBundles), extensions : Seq(ExtensionBundles)]
      /\ Ahead(queue.plugins, found.plugins) /\ Ahead(queue.extensions, found.extensions)
      /\ registered = {b.id : b \in Firsts(trust, found.plugins)}
      /\ extensions \subseteq ExtensionBundles
    BY <1>1 DEF AddOnsInv, AddOnStores, LoadingInv
<1>3. queue'.plugins = queue.plugins /\ queue'.extensions = Tail(queue.extensions)
    BY <1>1, <1>2
<1>4. PICK f : f = found.extensions
    OBVIOUS
<1>5. PICK q : q = queue.extensions
    OBVIOUS
<1>6. PICK k : k = Len(f) - Len(q)
    OBVIOUS
<1>7. f \in Seq(ExtensionBundles) /\ q \in Seq(ExtensionBundles) /\ Ahead(q, f) /\ q # <<>>
    BY <1>1, <1>2, <1>4, <1>5
<1>8. /\ Tail(q) \in Seq(ExtensionBundles) /\ Ahead(Tail(q), f) /\ k \in Nat /\ k + 1 \in DOMAIN f
      /\ Head(q) = f[k + 1] /\ Head(q) \in ExtensionBundles
    BY <1>6, <1>7, OneLess
<1>9. PICK e : e = Head(q)
    OBVIOUS
<1>10. \/ phase' = "failed" /\ extensions' = {} /\ routes' = {} /\ commands' = {}
       \/ /\ Loads(installed, e) /\ ~ IsCopy(e) /\ ~ Collides(e) /\ phase' = phase
          /\ extensions' = extensions \cup {e} /\ routes' = routes \cup RoutesOf(e)
          /\ commands' = commands \cup CommandsOf(e)
       \/ /\ phase' \in {phase, "failed"} /\ extensions' = extensions /\ routes' = routes /\ commands' = commands
    BY <1>5, <1>9 DEF LoadExtension, extensionVars
<1>11. phase' \in {"extensions", "failed"} /\ extensions' \subseteq ExtensionBundles
    BY <1>1, <1>2, <1>8, <1>9, <1>10
<1>12. AddOnStores'
  <2>1. queue' \in [plugins : Seq(PluginBundles), extensions : Seq(ExtensionBundles)]
      BY <1>1, <1>2, <1>5, <1>8
  <2> QED
      BY <1>1, <1>11, <2>1 DEF AddOnsInv, AddOnStores, Phases
<1>13. LoadingInv'
  <2>1. Ahead(queue.plugins, found.plugins)' /\ Ahead(queue.extensions, found.extensions)'
      BY <1>1, <1>2, <1>3, <1>4, <1>5, <1>8
  <2> QED
      BY <1>1, <1>2, <1>11, <2>1 DEF LoadingInv, Firsts, Approves
<1>14. HooksInv'
    BY <1>1 DEF AddOnsInv, HooksInv, Firsts, Approves
<1>15. Loads(installed, e) /\ ~ IsCopy(e) => e \in Firsts(installed, f)
  <2>1. HAVE Loads(installed, e) /\ ~ IsCopy(e)
  <2>2. ASSUME NEW h \in 1 .. (k + 1) - 1, f[h].id = f[k + 1].id, Loads(installed, f[h]) PROVE FALSE
    <3>1. h \in 1 .. Len(found.extensions) - Len(queue.extensions)
      <4>1. (k + 1) - 1 = k /\ k = Len(found.extensions) - Len(queue.extensions)
          BY <1>4, <1>5, <1>6, <1>8
      <4> QED
          BY <2>2, <4>1
    <3>2. f[h].id = e.id
        BY <1>8, <1>9, <2>2
    <3> QED
        BY <1>4, <2>1, <2>2, <3>1, <3>2 DEF IsCopy
  <2> QED
      BY <1>7, <1>8, <1>9, <2>1, <2>2, FirstsAre
<1>16. /\ extensions \subseteq Firsts(installed, f)
       /\ \A c, d \in extensions : c.id = d.id => c = d
       /\ routes = UNION {RoutesOf(d) : d \in extensions}
       /\ commands = UNION {CommandsOf(d) : d \in extensions}
       /\ \A c, d \in extensions : c # d => CommandsOf(c) \cap CommandsOf(d) = {}
    BY <1>4 DEF AddOnsInv, ExtensionsInv, KeysMatchExtensions
<1>17. /\ extensions' \subseteq Firsts(installed, f)
       /\ \A c, d \in extensions' : c.id = d.id => c = d
       /\ routes' = UNION {RoutesOf(d) : d \in extensions'}
       /\ commands' = UNION {CommandsOf(d) : d \in extensions'}
       /\ \A c, d \in extensions' : c # d => CommandsOf(c) \cap CommandsOf(d) = {}
  <2>1. CASE extensions' = extensions /\ routes' = routes /\ commands' = commands
      BY <1>16, <2>1
  <2>2. CASE extensions' = {} /\ routes' = {} /\ commands' = {}
      BY <2>2
  <2>3. CASE /\ Loads(installed, e) /\ ~ IsCopy(e) /\ ~ Collides(e)
             /\ extensions' = extensions \cup {e} /\ routes' = routes \cup RoutesOf(e)
             /\ commands' = commands \cup CommandsOf(e)
    <3>1. ~ (\E x \in extensions : x.id = e.id) /\ CommandsOf(e) \cap commands = {}
        BY <2>3 DEF Collides
    <3>2. e \in Firsts(installed, f)
        BY <1>15, <2>3
    <3>3. \A d \in extensions : CommandsOf(d) \cap CommandsOf(e) = {}
        BY <1>16, <3>1
    <3>4. routes' = UNION {RoutesOf(d) : d \in extensions'}
        BY <1>16, <2>3
    <3>5. commands' = UNION {CommandsOf(d) : d \in extensions'}
        BY <1>16, <2>3
    <3>6. \A c, d \in extensions' : c.id = d.id => c = d
        BY <1>16, <2>3, <3>1
    <3>7. \A c, d \in extensions' : c # d => CommandsOf(c) \cap CommandsOf(d) = {}
        BY <1>16, <2>3, <3>3
    <3> QED
        BY <1>16, <2>3, <3>2, <3>4, <3>5, <3>6, <3>7
  <2> QED
      BY <1>10, <2>1, <2>2, <2>3
<1>18. ExtensionsInv'
    BY <1>1, <1>4, <1>17 DEF ExtensionsInv, KeysMatchExtensions, Firsts, Approves
<1>19. FiringInv'
    BY <1>1 DEF AddOnsInv, FiringInv, OnlyTrustedVeto
<1> QED
    BY <1>12, <1>13, <1>14, <1>18, <1>19 DEF AddOnsInv

(* When all bundles have been looked at, none that loads is missing.       *)
LEMMA NextPhaseKeeps ==
    ASSUME AddOnsInv, NextPhase
    PROVE  AddOnsInv'
<1>1. /\ found' = found /\ trust' = trust /\ installed' = installed /\ queue' = queue
      /\ hooks' = hooks /\ registered' = registered /\ firing' = firing /\ ran' = ran
      /\ extensions' = extensions /\ routes' = routes /\ commands' = commands
      /\ \/ phase = "plugins" /\ queue.plugins = <<>> /\ phase' = "extensions"
         \/ phase = "extensions" /\ phase' = "running"
    BY DEF NextPhase, approvals, pluginVars, extensionVars
<1>2. AddOnStores'
    BY <1>1 DEF AddOnsInv, AddOnStores, Phases
<1>3. phase = "plugins" /\ queue.plugins = <<>> => registered = {b.id : b \in Firsts(trust, found.plugins)}
  <2>1. HAVE phase = "plugins" /\ queue.plugins = <<>>
  <2>2. PICK f : f = found.plugins
      OBVIOUS
  <2>3. f \in Seq(PluginBundles)
      BY <2>2 DEF AddOnsInv, AddOnStores
  <2>4. Len(f) \in Nat /\ Len(f) - Len(queue.plugins) = Len(f) /\ DOMAIN f = 1 .. Len(f)
      BY <2>1, <2>3
  <2>5. \A id : id \in registered <=> \E j \in DOMAIN f : f[j].id = id /\ Loads(trust, f[j])
      BY <2>1, <2>2, <2>4 DEF AddOnsInv, LoadingInv, LookedAt
  <2>6. /\ \A b \in Firsts(trust, f) : \E j \in DOMAIN f : f[j] = b /\ Loads(trust, b)
        /\ \A j \in DOMAIN f : Loads(trust, f[j]) => \E b \in Firsts(trust, f) : b.id = f[j].id
      BY <2>3, FirstsAre
  <2>7. ASSUME NEW b \in Firsts(trust, f) PROVE b.id \in registered
      BY <2>5, <2>6
  <2>8. ASSUME NEW id \in registered PROVE \E b \in Firsts(trust, f) : b.id = id
      BY <2>5, <2>6
  <2> QED
      BY <2>2, <2>7, <2>8
<1>4. LoadingInv'
  <2>1. Ahead(queue.plugins, found.plugins)' /\ Ahead(queue.extensions, found.extensions)'
      BY <1>1 DEF AddOnsInv, LoadingInv, Ahead
  <2> QED
      BY <1>1, <1>3, <2>1 DEF LoadingInv, Firsts, Approves
<1>5. HooksInv'
    BY <1>1 DEF AddOnsInv, HooksInv, Firsts, Approves
<1>6. ExtensionsInv'
    BY <1>1 DEF AddOnsInv, ExtensionsInv, KeysMatchExtensions, Firsts, Approves
<1>7. FiringInv'
    BY <1>1 DEF AddOnsInv, FiringInv, OnlyTrustedVeto
<1> QED
    BY <1>2, <1>4, <1>5, <1>6, <1>7 DEF AddOnsInv

LEMMA FireKeeps ==
    ASSUME AddOnsInv, NEW p \in Points, Fire(p)
    PROVE  AddOnsInv'
<1>1. /\ found' = found /\ trust' = trust /\ installed' = installed /\ queue' = queue /\ phase' = phase
      /\ hooks' = hooks /\ registered' = registered
      /\ extensions' = extensions /\ routes' = routes /\ commands' = commands /\ ran' = <<>>
      /\ firing' = [point |-> p, todo |-> hooks[p], ended |-> IF hooks[p] = <<>> THEN "done" ELSE "no"]
    BY DEF Fire, approvals, pluginVars, extensionVars
<1>2. hooks[p] \in Seq(PluginBundles)
    BY DEF AddOnsInv, AddOnStores
<1>3. AddOnStores'
    BY <1>1, <1>2 DEF AddOnsInv, AddOnStores
<1>4. LoadingInv'
    BY <1>1, LoadingStays DEF AddOnsInv
<1>5. HooksInv'
    BY <1>1 DEF AddOnsInv, HooksInv, Firsts, Approves
<1>6. ExtensionsInv'
    BY <1>1 DEF AddOnsInv, ExtensionsInv, KeysMatchExtensions, Firsts, Approves
<1>7. FiringInv'
  <2>1. firing'.ended = "no" <=> firing'.todo # <<>>
      BY <1>1
  <2>2. firing'.ended # "aborted" /\ DOMAIN ran' = {}
      BY <1>1
  <2> QED
      BY <2>1, <2>2 DEF FiringInv, OnlyTrustedVeto
<1> QED
    BY <1>3, <1>4, <1>5, <1>6, <1>7 DEF AddOnsInv

(* No hook of this firing has asked in vain before the one that is obeyed. *)
LEMMA RunsKeeps ==
    ASSUME AddOnsInv, NEW asks \in BOOLEAN, Runs(asks)
    PROVE  AddOnsInv'
<1>1. /\ found' = found /\ trust' = trust /\ installed' = installed /\ queue' = queue /\ phase' = phase
      /\ hooks' = hooks /\ registered' = registered
      /\ extensions' = extensions /\ routes' = routes /\ commands' = commands /\ firing.todo # <<>>
    BY DEF Runs, approvals, pluginVars, extensionVars
<1>2. PICK h, rest : h = Head(firing.todo) /\ rest = Tail(firing.todo)
    OBVIOUS
<1>3. /\ ran' = Append(ran, [hook |-> h, asked |-> asks])
      /\ firing' = IF Vetoes(h, asks) THEN [firing EXCEPT !.todo = <<>>, !.ended = "aborted"]
                   ELSE [firing EXCEPT !.todo = rest, !.ended = IF rest = <<>> THEN "done" ELSE "no"]
    BY <1>2 DEF Runs
<1>4. /\ firing \in [point : Points \cup {"none"}, todo : Seq(PluginBundles), ended : {"no", "done", "aborted"}]
      /\ ran \in Seq([hook : PluginBundles, asked : BOOLEAN])
      /\ firing.ended = "no" <=> firing.todo # <<>>
      /\ OnlyTrustedVeto
    BY DEF AddOnsInv, AddOnStores, FiringInv
<1>5. h \in PluginBundles /\ rest \in Seq(PluginBundles)
    BY <1>1, <1>2, <1>4
<1>6. /\ firing'.point = firing.point
      /\ Vetoes(h, asks) => firing'.todo = <<>> /\ firing'.ended = "aborted"
      /\ ~ Vetoes(h, asks) => firing'.todo = rest /\ firing'.ended = IF rest = <<>> THEN "done" ELSE "no"
      /\ firing' \in [point : Points \cup {"none"}, todo : Seq(PluginBundles), ended : {"no", "done", "aborted"}]
  <2>1. CASE Vetoes(h, asks)
    <3>1. firing' = [firing EXCEPT !.todo = <<>>, !.ended = "aborted"]
        BY <1>3, <2>1
    <3>2. <<>> \in Seq(PluginBundles)
        OBVIOUS
    <3> QED
        BY <1>4, <2>1, <3>1, <3>2
  <2>2. CASE ~ Vetoes(h, asks)
    <3>1. firing' = [firing EXCEPT !.todo = rest, !.ended = IF rest = <<>> THEN "done" ELSE "no"]
        BY <1>3, <2>2
    <3> QED
        BY <1>4, <1>5, <2>2, <3>1
  <2> QED
      BY <2>1, <2>2
<1>7. /\ Len(ran) \in Nat /\ Len(ran') = Len(ran) + 1
      /\ ran' \in Seq([hook : PluginBundles, asked : BOOLEAN])
      /\ DOMAIN ran = 1 .. Len(ran) /\ DOMAIN ran' = 1 .. Len(ran) + 1
      /\ \A i \in 1 .. Len(ran) : ran'[i] = ran[i]
      /\ ran'[Len(ran) + 1] = [hook |-> h, asked |-> asks]
    BY <1>3, <1>4, <1>5
<1>8. \A i \in DOMAIN ran :
          ~ (ran[i].asked /\ firing.point \in BeforePoints /\ trust[ran[i].hook.id].level = "TRUSTED")
  <2>1. firing.ended # "aborted"
      BY <1>1, <1>4
  <2> QED
      BY <1>4, <2>1 DEF OnlyTrustedVeto
<1>9. Vetoes(h, asks) <=> asks /\ trust[h.id].level = "TRUSTED" /\ firing.point \in BeforePoints
    BY DEF Vetoes, EffectiveTrust
<1>10. FiringInv'
  <2>1. firing'.ended = "no" <=> firing'.todo # <<>>
      BY <1>6
  <2>2. ASSUME NEW i \in DOMAIN ran'
        PROVE  (ran'[i].asked /\ firing'.point \in BeforePoints /\ trust'[ran'[i].hook.id].level = "TRUSTED")
                  <=> i = Len(ran') /\ Vetoes(h, asks)
    <3>1. CASE i \in DOMAIN ran
      <4>1. ran'[i] = ran[i] /\ i # Len(ran')
          BY <1>7, <3>1
      <4> QED
          BY <1>1, <1>6, <1>8, <3>1, <4>1
    <3>2. CASE i = Len(ran) + 1
      <4>1. ran'[i].hook = h /\ ran'[i].asked = asks /\ i = Len(ran')
          BY <1>7, <3>2
      <4> QED
          BY <1>1, <1>6, <1>9, <4>1
    <3> QED
        BY <1>7, <3>1, <3>2
  <2>3. firing'.ended = "aborted" <=> Vetoes(h, asks)
      BY <1>6
  <2>4. Len(ran') \in DOMAIN ran'
      BY <1>7
  <2> QED
      BY <2>1, <2>2, <2>3, <2>4 DEF FiringInv, OnlyTrustedVeto
<1>11. AddOnStores'
    BY <1>1, <1>6, <1>7 DEF AddOnsInv, AddOnStores
<1>12. LoadingInv'
    BY <1>1, LoadingStays DEF AddOnsInv
<1>13. HooksInv'
    BY <1>1 DEF AddOnsInv, HooksInv, Firsts, Approves
<1>14. ExtensionsInv'
    BY <1>1 DEF AddOnsInv, ExtensionsInv, KeysMatchExtensions, Firsts, Approves
<1> QED
    BY <1>10, <1>11, <1>12, <1>13, <1>14 DEF AddOnsInv

(* The hooks of a plugin go with it, and the others stay in order.         *)
LEMMA UnregisterPluginKeeps ==
    ASSUME AddOnsInv, NEW id \in PluginIds, UnregisterPlugin(id)
    PROVE  AddOnsInv'
<1>1. /\ found' = found /\ trust' = trust /\ installed' = installed /\ queue' = queue
      /\ phase = "running" /\ phase' = phase /\ firing' = firing /\ ran' = ran
      /\ extensions' = extensions /\ routes' = routes /\ commands' = commands
      /\ registered' = registered \ {id}
      /\ hooks' = [p \in Points |-> Members(hooks[p], {i \in DOMAIN hooks[p] : hooks[p][i].id # id})]
    BY DEF UnregisterPlugin, approvals, extensionVars
<1>2. ASSUME NEW p \in Points
      PROVE  /\ hooks'[p] \in Seq(PluginBundles) /\ Descending(hooks'[p])
             /\ \A i \in DOMAIN hooks'[p] :
                   /\ hooks'[p][i].id \in registered' /\ hooks'[p][i] \in Firsts(trust, found.plugins)
                   /\ Count(hooks'[p], hooks'[p][i]) = Times(hooks'[p][i], p)
  <2>1. PICK s : s = hooks[p]
      OBVIOUS
  <2>2. PICK K : K = {i \in DOMAIN s : s[i].id # id}
      OBVIOUS
  <2>3. PICK t : t = Members(s, K)
      OBVIOUS
  <2>4. t = hooks'[p] /\ K \in SUBSET DOMAIN s
      BY <1>1, <2>1, <2>2, <2>3
  <2>5. /\ s \in Seq(PluginBundles) /\ Descending(s)
        /\ \A i \in DOMAIN s : /\ s[i].id \in registered /\ s[i] \in Firsts(trust, found.plugins)
                               /\ Count(s, s[i]) = Times(s[i], p)
      BY <2>1 DEF AddOnsInv, AddOnStores, HooksInv
  <2>6. /\ t \in Seq(PluginBundles) /\ DOMAIN t = 1 .. Cardinality(K)
        /\ \A j \in 1 .. Cardinality(K) : Order(K)[j] \in K /\ t[j] = s[Order(K)[j]]
        /\ \A x : Count(t, x) = Cardinality(Where(s, K, x))
    <3>1. s \in Seq(PluginBundles) /\ K \in SUBSET DOMAIN s
        BY <2>4, <2>5
    <3> QED
        BY <2>3, <3>1, MembersAre
  <2>7. Descending(t)
      BY <2>3, <2>4, <2>5, DescendingMembers
  <2>8. ASSUME NEW i \in DOMAIN t
        PROVE  /\ t[i].id \in registered' /\ t[i] \in Firsts(trust, found.plugins)
               /\ Count(t, t[i]) = Times(t[i], p)
    <3>1. PICK k \in K : t[i] = s[k]
        BY <2>6
    <3>2. k \in DOMAIN s /\ s[k].id # id
        BY <2>2
    <3>3. Where(s, K, s[k]) = {j \in DOMAIN s : s[j] = s[k]}
        BY <2>2, <3>2 DEF Where
    <3>4. Count(t, t[i]) = Count(s, s[k])
        BY <2>6, <3>1, <3>3 DEF Count
    <3> QED
        BY <1>1, <2>5, <3>1, <3>2, <3>4
  <2> QED
      BY <2>4, <2>6, <2>7, <2>8
<1>3. AddOnStores'
  <2>1. hooks' = [p \in Points |-> hooks'[p]]
      BY <1>1
  <2>2. hooks' \in [Points -> Seq(PluginBundles)]
      BY <1>2, <2>1
  <2> QED
      BY <1>1, <2>2 DEF AddOnsInv, AddOnStores
<1>4. LoadingInv'
    BY <1>1 DEF AddOnsInv, LoadingInv, Ahead
<1>5. HooksInv'
  <2>1. \A p \in Points : /\ Descending(hooks[p])'
                          /\ \A i \in DOMAIN hooks'[p] : Count(hooks[p], hooks[p][i])' = Times(hooks'[p][i], p)
      BY <1>2
  <2>2. Firsts(trust, found.plugins)' = Firsts(trust, found.plugins)
      BY <1>1 DEF Firsts, Approves
  <2> QED
      BY <1>1, <1>2, <2>1, <2>2 DEF HooksInv
<1>6. ExtensionsInv'
    BY <1>1 DEF AddOnsInv, ExtensionsInv, KeysMatchExtensions, Firsts, Approves
<1>7. FiringInv'
    BY <1>1 DEF AddOnsInv, FiringInv, OnlyTrustedVeto
<1> QED
    BY <1>3, <1>4, <1>5, <1>6, <1>7 DEF AddOnsInv

(* Different extensions have different keys: those left keep theirs.       *)
LEMMA UnregisterExtensionKeeps ==
    ASSUME AddOnsInv, NEW e \in ExtensionBundles, UnregisterExtension(e)
    PROVE  AddOnsInv'
<1>1. /\ found' = found /\ trust' = trust /\ installed' = installed /\ queue' = queue /\ phase' = phase
      /\ hooks' = hooks /\ registered' = registered /\ firing' = firing /\ ran' = ran
      /\ e \in extensions /\ extensions' = extensions \ {e} /\ routes' = routes \ RoutesOf(e)
      /\ commands' = commands \ CommandsOf(e)
    BY DEF UnregisterExtension, approvals, pluginVars
<1>2. /\ \A c, d \in extensions : c.id = d.id => c = d
      /\ routes = UNION {RoutesOf(d) : d \in extensions}
      /\ commands = UNION {CommandsOf(d) : d \in extensions}
      /\ \A c, d \in extensions : c # d => CommandsOf(c) \cap CommandsOf(d) = {}
    BY DEF AddOnsInv, ExtensionsInv, KeysMatchExtensions
<1>3. \A d \in extensions : d # e => RoutesOf(d) \cap RoutesOf(e) = {}
    BY <1>1, <1>2 DEF RoutesOf
<1>4. \A d \in extensions : d # e => CommandsOf(d) \cap CommandsOf(e) = {}
    BY <1>1, <1>2
<1>5. routes' = UNION {RoutesOf(d) : d \in extensions'}
    BY <1>1, <1>2, <1>3
<1>6. commands' = UNION {CommandsOf(d) : d \in extensions'}
    BY <1>1, <1>2, <1>4
<1>7. AddOnStores'
    BY <1>1 DEF AddOnsInv, AddOnStores
<1>8. LoadingInv'
    BY <1>1, LoadingStays DEF AddOnsInv
<1>9. HooksInv'
    BY <1>1 DEF AddOnsInv, HooksInv, Firsts, Approves
<1>10. ExtensionsInv'
    BY <1>1, <1>2, <1>5, <1>6 DEF AddOnsInv, ExtensionsInv, KeysMatchExtensions, Firsts, Approves
<1>11. FiringInv'
    BY <1>1 DEF AddOnsInv, FiringInv, OnlyTrustedVeto
<1> QED
    BY <1>7, <1>8, <1>9, <1>10, <1>11 DEF AddOnsInv

(* The inductive invariant of the plugins and extensions of a process.     *)
THEOREM AddOnsCorrect == AddOnsSpec => []AddOnsInv
<1>1. AddOnsInit => AddOnsInv
    BY AddOnsStart
<1>2. AddOnsInv /\ [AddOnsNext]_addOnVars => AddOnsInv'
  <2> SUFFICES ASSUME AddOnsInv, [AddOnsNext]_addOnVars PROVE AddOnsInv'
      OBVIOUS
  <2>1. CASE LoadPlugin
      BY <2>1, LoadPluginKeeps
  <2>2. CASE LoadExtension
      BY <2>2, LoadExtensionKeeps
  <2>3. CASE NextPhase
      BY <2>3, NextPhaseKeeps
  <2>4. CASE \E p \in Points : Fire(p)
      BY <2>4, FireKeeps
  <2>5. CASE \E asks \in BOOLEAN : Runs(asks)
      BY <2>5, RunsKeeps
  <2>6. CASE \E id \in PluginIds : UnregisterPlugin(id)
      BY <2>6, UnregisterPluginKeeps
  <2>7. CASE \E e \in ExtensionBundles : UnregisterExtension(e)
      BY <2>7, UnregisterExtensionKeeps
  <2>8. CASE UNCHANGED addOnVars
    <3>1. /\ found' = found /\ trust' = trust /\ installed' = installed /\ queue' = queue /\ phase' = phase
          /\ hooks' = hooks /\ registered' = registered /\ firing' = firing /\ ran' = ran
          /\ extensions' = extensions /\ routes' = routes /\ commands' = commands
        BY <2>8 DEF addOnVars, approvals, pluginVars, extensionVars
    <3>2. AddOnStores'
        BY <3>1 DEF AddOnsInv, AddOnStores
    <3>3. LoadingInv'
        BY <3>1, LoadingStays DEF AddOnsInv
    <3>4. HooksInv'
        BY <3>1 DEF AddOnsInv, HooksInv, Firsts, Approves
    <3>5. ExtensionsInv'
        BY <3>1 DEF AddOnsInv, ExtensionsInv, KeysMatchExtensions, Firsts, Approves
    <3>6. FiringInv'
        BY <3>1 DEF AddOnsInv, FiringInv, OnlyTrustedVeto
    <3> QED
        BY <3>2, <3>3, <3>4, <3>5, <3>6 DEF AddOnsInv
  <2> QED
      BY <2>1, <2>2, <2>3, <2>4, <2>5, <2>6, <2>7, <2>8 DEF AddOnsNext
<1> QED
    BY <1>1, <1>2, PTL DEF AddOnsSpec

(* The plugins that run at a hook point are those that are registered.     *)
THEOREM AddOnsTypeCorrect == AddOnsSpec => []AddOnsTypeOK
<1>1. AddOnsInv => AddOnsTypeOK
    BY DEF AddOnsInv, AddOnStores, Phases, HooksInv, FiringInv, AddOnsTypeOK
<1> QED
    BY <1>1, AddOnsCorrect, PTL

(* Whatever is approved and found, and in whatever order of priorities,    *)
(* hooks run from the highest to the lowest, each as often as its manifest *)
(* says, and only a trusted one ends a use case that has not begun.        *)
THEOREM HooksAlwaysObey == AddOnsSpec => []HooksObey
<1>1. AddOnsInv => HooksObey
    BY DEF AddOnsInv, HooksInv, FiringInv, HooksObey, HighestPriorityFirst, Descending, Count
<1> QED
    BY <1>1, AddOnsCorrect, PTL

(* Only the first approved copy of a plugin or an extension is registered, *)
(* no approved plugin is missing, and every route and command taken is one *)
(* of an extension that is registered.                                     *)
THEOREM RegistriesAlwaysHold == AddOnsSpec => []RegistriesHold
<1>1. AddOnsInv => RegistriesHold
  <2>1. SUFFICES ASSUME AddOnsInv PROVE FirstApprovedCopy
      BY DEF AddOnsInv, ExtensionsInv, RegistriesHold
  <2>2. \A p \in Points : Range(hooks[p]) \subseteq Firsts(trust, found.plugins)
      BY <2>1 DEF AddOnsInv, HooksInv, Range
  <2> QED
      BY <2>1, <2>2 DEF AddOnsInv, LoadingInv, ExtensionsInv, FirstApprovedCopy
<1> QED
    BY <1>1, AddOnsCorrect, PTL

(***************************************************************************)
(* RequestBoundary                                                         *)
(***************************************************************************)
-----------------------------------------------------------------------------
(* The tables: no key occurs twice                                         *)

LEMMA AclUsesAre ==
    AclUses = {<<"list-entries", System("MANAGE_ACL")>>, <<"create-entry", System("MANAGE_ACL")>>,
               <<"update-entry", System("MANAGE_ACL")>>, <<"delete-entry", System("MANAGE_ACL")>>}
BY DEF AclUses

(* Every use case has one check.                                           *)
LEMMA UsesAreKeyed == \A v, x \in Uses : v[1] = x[1] => v[2] = x[2]
BY AclUsesAre DEF Uses, MissionUses, AssignmentUses, ActivityUses, BadgeUses, PersonUses,
   GroupUses, MembershipUses, PasswordUses, SetupUses, NoAdministrator, One, Root, System

LEMMA OneCheckEach == \A v \in Uses : Asks(v[1]) = {v[2]}
BY UsesAreKeyed DEF Asks

(* What changes something asks for more than what is open to everybody.    *)
LEMMA ChangesNeedRights == \A v \in Uses : v[1] \notin ReadingUses => ~ OpenToPublic(v[2])
BY AclUsesAre DEF Uses, MissionUses, AssignmentUses, ActivityUses, BadgeUses, PersonUses, GroupUses,
       MembershipUses, PasswordUses, SetupUses, NoAdministrator, One, Root, System, ReadingUses, ReadOnly,
       OpenToPublic

(* The uses that have no check.                                            *)
Unasked == SigningIn \cup {"run-extension", "own-password", "create-initial-admin"}

LEMMA UnaskedAskNothing ==
    /\ \A u \in Unasked \cup {"read-extension"} : Asks(u) = {}
    /\ \A v \in Uses : v[1] \notin Unasked
<1>1. \A v \in Uses : v[1] \notin Unasked \cup {"read-extension"}
    BY AclUsesAre DEF Uses, MissionUses, AssignmentUses, ActivityUses, BadgeUses, PersonUses, GroupUses,
       MembershipUses, PasswordUses, SetupUses, Unasked, SigningIn
<1> QED
    BY <1>1 DEF Asks

LEMMA OperationsAreKeyed ==
    \A v, x \in RouteOperations : v[1] = x[1] /\ v[2] = x[2] => v[3] = x[3]
BY DEF RouteOperations, RouteOperationsOfWork, RouteOperationsOfPeople, RouteOperationsOfMembers,
       One, Root, System

LEMMA EndpointsAreKeyed == \A v, x \in EndpointAcl : v[1] = x[1] => v[2] = x[2]
BY DEF EndpointAcl, One, Root, System

-----------------------------------------------------------------------------
(* What a route must be like                                               *)

Names == {v[1] : v \in Uses} \cup ReadingUses \cup Unasked
PublicUses == SigningIn \cup {"own-password", "create-initial-admin"}
Fits(r) ==
    /\ r.uses \in Seq(Names)
    /\ r.public => r.asks = {}
    /\ \A u \in ToSet(r.uses) : u \notin ReadingUses =>
          /\ IF r.public THEN u \in PublicUses
             ELSE r.enforced \/ \E c \in r.asks \cup Asks(u) : ~ OpenToPublic(c)
          /\ u = "run-extension" \/ MissionInBody(r) \/ r.asks \subseteq Asks(u)
          /\ r.front = "REST" => IF r.public THEN u \in SigningIn ELSE r.method # "GET"
          /\ u = "create-initial-admin" => r.uses = <<"admin-exists", u>>
    /\ \/ r.enforced \/ r.public \/ MissionInBody(r)
       \/ r.front = "Web" /\ ~ Changes(r)
       \/ \A u \in ToSet(r.uses) : Asks(u) \subseteq r.asks

(* The boundary asks what the only service asks.                           *)
LEMMA AgreedFits ==
    ASSUME NEW r, NEW v \in Uses, r.uses = <<v[1]>>, r.asks = {v[2]}, r.public = FALSE,
           v[1] \notin ReadingUses /\ r.front = "REST" => r.method # "GET"
    PROVE  Fits(r)
<1>1. v[1] \in Names /\ Asks(v[1]) = {v[2]}
    BY OneCheckEach DEF Names
<1>2. r.uses \in Seq(Names) /\ ToSet(r.uses) = {v[1]}
    BY <1>1 DEF ToSet
<1>3. v[1] \notin ReadingUses => ~ OpenToPublic(v[2])
    BY ChangesNeedRights
<1>4. v[1] # "create-initial-admin"
    BY UnaskedAskNothing DEF Unasked
<1> QED
    BY <1>1, <1>2, <1>3, <1>4 DEF Fits

(* The boundary leaves it to the services.                                 *)
LEMMA EnforcedFits ==
    ASSUME NEW r, r.uses \in Seq(Names), r.enforced = TRUE, r.asks = {}, r.public = FALSE,
           "create-initial-admin" \notin ToSet(r.uses),
           r.front = "REST" /\ r.method = "GET" => ToSet(r.uses) \subseteq ReadingUses
    PROVE  Fits(r)
BY DEF Fits

(* A page that shows only.                                                 *)
LEMMA ShownFits ==
    ASSUME NEW r, r.uses \in Seq(Names), r.front = "Web", r.public = FALSE, \A i \in DOMAIN r.uses : r.uses[i] \in ReadingUses
    PROVE  Fits(r)
BY DEF Fits, Changes, ToSet

LEMMA ExtensionFits ==
    ASSUME NEW r, r.public = FALSE,
           \/ r.uses = <<"run-extension">> /\ r.asks = {System("EXECUTE")} /\ (r.method # "GET")
           \/ r.uses = <<"read-extension">>
    PROVE  Fits(r)
<1>1. PICK u \in Names : r.uses = <<u>> /\ u \in {"run-extension", "read-extension"}
    BY DEF Names, ReadingUses, Unasked
<1>2. r.uses \in Seq(Names) /\ ToSet(r.uses) = {u}
    BY <1>1 DEF ToSet
<1>3. Asks(u) = {}
    BY <1>1, UnaskedAskNothing DEF Unasked
<1>4. CASE u = "read-extension"
    BY <1>2, <1>3, <1>4 DEF Fits, ReadingUses
<1>5. CASE u = "run-extension"
  <2>1. r.asks = {System("EXECUTE")} /\ r.method # "GET"
      BY <1>1, <1>5
  <2>2. ~ OpenToPublic(System("EXECUTE"))
      BY DEF OpenToPublic, ReadOnly, NoAdministrator, System
  <2> QED
      BY <1>2, <1>3, <1>5, <2>1, <2>2 DEF Fits
<1> QED
    BY <1>1, <1>4, <1>5

-----------------------------------------------------------------------------
(* REST: every row is of one of these kinds                                *)

AgreedRow(row) ==
    \E v \in Uses : /\ row[3] = <<v[1]>> /\ <<row[1], row[2], v[2]>> \in RouteOperations
                    /\ row[2] = "GET" => v[1] \in ReadingUses

LEMMA MissionRowsAgree == \A row \in MissionRouter : AgreedRow(row) /\ ~ ServiceEnforced(row[1])
<1>1. \A row \in MissionRouter : \E v \in MissionUses : row[3] = <<v[1]>>
    BY DEF MissionRouter, MissionUses
<1>2. \A row \in MissionRouter, v \in MissionUses :
          row[3] = <<v[1]>> => <<row[1], row[2], v[2]>> \in RouteOperationsOfWork
    BY DEF MissionRouter, MissionUses, RouteOperationsOfWork, One, Root, System
<1>3. \A row \in MissionRouter : row[2] = "GET" => row[3][1] \in ReadingUses
    BY DEF MissionRouter, ReadingUses
<1>4. \A row \in MissionRouter : ~ ServiceEnforced(row[1])
    BY DEF MissionRouter, ServiceEnforced
<1> QED
    BY <1>1, <1>2, <1>3, <1>4 DEF AgreedRow, Uses, RouteOperations

LEMMA AssignmentRowsAgree == \A row \in AssignmentRouter : AgreedRow(row) /\ ~ ServiceEnforced(row[1])
<1>1. \A row \in AssignmentRouter : \E v \in AssignmentUses \cup BadgeUses : row[3] = <<v[1]>>
    BY DEF AssignmentRouter, AssignmentUses, BadgeUses
<1>2. \A row \in AssignmentRouter, v \in AssignmentUses \cup BadgeUses :
          row[3] = <<v[1]>> => <<row[1], row[2], v[2]>> \in RouteOperationsOfWork
    BY DEF AssignmentRouter, AssignmentUses, BadgeUses, RouteOperationsOfWork, One, Root, System
<1>3. \A row \in AssignmentRouter : row[2] = "GET" => row[3][1] \in ReadingUses
    BY DEF AssignmentRouter, ReadingUses
<1>4. \A row \in AssignmentRouter : ~ ServiceEnforced(row[1])
    BY DEF AssignmentRouter, ServiceEnforced
<1> QED
    BY <1>1, <1>2, <1>3, <1>4 DEF AgreedRow, Uses, RouteOperations

LEMMA ActivityRowsAgree == \A row \in ActivityRouter : AgreedRow(row) /\ ~ ServiceEnforced(row[1])
<1>1. \A row \in ActivityRouter : \E v \in ActivityUses \cup BadgeUses : row[3] = <<v[1]>>
    BY DEF ActivityRouter, ActivityUses, BadgeUses
<1>2. \A row \in ActivityRouter, v \in ActivityUses \cup BadgeUses :
          row[3] = <<v[1]>> => <<row[1], row[2], v[2]>> \in RouteOperationsOfWork
    BY DEF ActivityRouter, ActivityUses, BadgeUses, RouteOperationsOfWork, One, Root, System
<1>3. \A row \in ActivityRouter : row[2] = "GET" => row[3][1] \in ReadingUses
    BY DEF ActivityRouter, ReadingUses
<1>4. \A row \in ActivityRouter : ~ ServiceEnforced(row[1])
    BY DEF ActivityRouter, ServiceEnforced
<1> QED
    BY <1>1, <1>2, <1>3, <1>4 DEF AgreedRow, Uses, RouteOperations

LEMMA BadgeRowsAgree == \A row \in BadgeRouter : AgreedRow(row) /\ ~ ServiceEnforced(row[1])
<1>1. \A row \in BadgeRouter : \E v \in BadgeUses : row[3] = <<v[1]>>
    BY DEF BadgeRouter, BadgeUses
<1>2. \A row \in BadgeRouter, v \in BadgeUses :
          row[3] = <<v[1]>> => <<row[1], row[2], v[2]>> \in RouteOperationsOfWork \cup RouteOperationsOfPeople
    BY DEF BadgeRouter, BadgeUses, RouteOperationsOfWork, RouteOperationsOfPeople, One, Root, System
<1>3. \A row \in BadgeRouter : row[2] = "GET" => row[3][1] \in ReadingUses
    BY DEF BadgeRouter, ReadingUses
<1>4. \A row \in BadgeRouter : ~ ServiceEnforced(row[1])
    BY DEF BadgeRouter, ServiceEnforced
<1> QED
    BY <1>1, <1>2, <1>3, <1>4 DEF AgreedRow, Uses, RouteOperations

LEMMA PersonRowsAgree == \A row \in PersonRouter : AgreedRow(row) /\ ~ ServiceEnforced(row[1])
<1>1. \A row \in PersonRouter : \E v \in PersonUses \cup GroupUses \cup MembershipUses : row[3] = <<v[1]>>
    BY DEF PersonRouter, PersonUses, GroupUses, MembershipUses
<1>2. \A row \in PersonRouter, v \in PersonUses \cup GroupUses \cup MembershipUses :
          row[3] = <<v[1]>>
              => <<row[1], row[2], v[2]>> \in RouteOperationsOfPeople \cup RouteOperationsOfMembers
    BY DEF PersonRouter, PersonUses, GroupUses, MembershipUses, RouteOperationsOfPeople,
       RouteOperationsOfMembers, One, Root, System
<1>3. \A row \in PersonRouter : row[2] = "GET" => row[3][1] \in ReadingUses
    BY DEF PersonRouter, ReadingUses
<1>4. \A row \in PersonRouter : ~ ServiceEnforced(row[1])
    BY DEF PersonRouter, ServiceEnforced
<1> QED
    BY <1>1, <1>2, <1>3, <1>4 DEF AgreedRow, Uses, RouteOperations

(* The rest is left to the services, but for the profile of a person.      *)
LEMMA OtherRowsAgree ==
    \A row \in AclRouter \cup AuthRouter :
        \/ AgreedRow(row) /\ ~ ServiceEnforced(row[1])
        \/ /\ ServiceEnforced(row[1])
           /\ \E u \in Names \ {"create-initial-admin"} :
                  row[3] = <<u>> /\ (row[2] = "GET" => u \in ReadingUses)
<1>1. \A row \in AclRouter \cup AuthRouter :
          \/ row = <<"/persons/id/acl", "PUT", <<"set-profile">>>>
          \/ /\ ServiceEnforced(row[1]) /\ (row[2] = "GET" => row[3][1] \in ReadingUses)
             /\ row[3] = <<row[3][1]>>
             /\ row[3][1] \in {"list-entries", "create-entry", "update-entry", "delete-entry",
                               "set-password", "own-password"}
    BY DEF AclRouter, AuthRouter, ServiceEnforced, ReadingUses
<1>6. {"list-entries", "create-entry", "update-entry", "delete-entry", "set-password", "own-password"}
          \subseteq Names \ {"create-initial-admin"}
  <2>1. \A u \in {"list-entries", "create-entry", "update-entry", "delete-entry"} :
            <<u, System("MANAGE_ACL")>> \in Uses
      BY AclUsesAre DEF Uses
  <2>2. <<"set-password", One("EDIT", "PERSON")>> \in Uses
      BY DEF Uses, PasswordUses
  <2>3. \A u, c : <<u, c>> \in Uses => u \in Names
      BY DEF Names
  <2> QED
      BY <2>1, <2>2, <2>3 DEF Names, Unasked
<1>2. <<"set-profile", System("MANAGE_PROFILES")>> \in Uses
    BY DEF Uses, PersonUses
<1>3. <<"/persons/id/acl", "PUT", System("MANAGE_PROFILES")>> \in RouteOperations
    BY DEF RouteOperations, RouteOperationsOfPeople
<1>4. ~ ServiceEnforced("/persons/id/acl")
    BY DEF ServiceEnforced
<1>5. AgreedRow(<<"/persons/id/acl", "PUT", <<"set-profile">>>>)
    BY <1>2, <1>3 DEF AgreedRow
<1> QED
    BY <1>1, <1>4, <1>5, <1>6

LEMMA RestRoutesFit == \A r \in RestRoutes : Fits(r)
<1> SUFFICES ASSUME NEW r \in RestRoutes PROVE Fits(r)
    OBVIOUS
<1>1. PICK row \in RestRouters :
          r = [front |-> "REST", name |-> row[1], method |-> row[2], uses |-> row[3],
               asks |-> RestAsks(row[1], row[2]), enforced |-> ServiceEnforced(row[1]),
               public |-> FALSE]
    BY DEF RestRoutes
<1>2. ~ ServiceEnforced(row[1]) => r.asks = Boundary(RouteOperations, row[1], row[2])
    BY <1>1 DEF RestAsks
<1>3. CASE AgreedRow(row) /\ ~ ServiceEnforced(row[1])
  <2>1. PICK v \in Uses : /\ row[3] = <<v[1]>> /\ <<row[1], row[2], v[2]>> \in RouteOperations
                          /\ row[2] = "GET" => v[1] \in ReadingUses
      BY <1>3 DEF AgreedRow
  <2>2. Boundary(RouteOperations, row[1], row[2]) = {v[2]}
      BY <2>1, OperationsAreKeyed DEF Boundary
  <2> QED
      BY <1>1, <1>2, <1>3, <2>1, <2>2, AgreedFits
<1>4. CASE /\ ServiceEnforced(row[1])
           /\ \E u \in Names \ {"create-initial-admin"} :
                  row[3] = <<u>> /\ (row[2] = "GET" => u \in ReadingUses)
  <2>1. PICK u \in Names \ {"create-initial-admin"} : row[3] = <<u>> /\ (row[2] = "GET" => u \in ReadingUses)
      BY <1>4
  <2>2. r.uses \in Seq(Names) /\ ToSet(r.uses) = {u}
      BY <1>1, <2>1 DEF ToSet
  <2>3. r.asks = {} /\ r.enforced = TRUE /\ r.method = row[2] /\ r.public = FALSE
      BY <1>1, <1>4 DEF RestAsks
  <2> QED
      BY <2>1, <2>2, <2>3, EnforcedFits
<1>5. CASE row \in ExtensionView
  <2>1. /\ row[1] = "/extension"
        /\ \/ row[2] = "GET" /\ row[3] = <<"read-extension">>
           \/ row[2] = "POST" /\ row[3] = <<"run-extension">>
      BY <1>5 DEF ExtensionView
  <2>2. ~ ServiceEnforced("/extension") /\ \A x \in RouteOperations : x[1] # "/extension"
      BY DEF ServiceEnforced, RouteOperations, RouteOperationsOfWork, RouteOperationsOfPeople,
         RouteOperationsOfMembers
  <2>3. r.asks = {OfExtension(row[2])}
      BY <1>2, <2>1, <2>2 DEF Boundary
  <2>4. row[2] = "POST" => r.asks = {System("EXECUTE")} /\ r.method # "GET"
      BY <1>1, <2>3 DEF OfExtension
  <2> QED
      BY <1>1, <2>1, <2>4, ExtensionFits
<1> QED
    BY <1>3, <1>4, <1>5, MissionRowsAgree, AssignmentRowsAgree, ActivityRowsAgree, BadgeRowsAgree,
       PersonRowsAgree, OtherRowsAgree DEF RestRouters

-----------------------------------------------------------------------------
(* Web: every page shows only, or does one thing the table names           *)

Shows(u) ==
    /\ Len(u) \in Nat /\ u = [i \in 1 .. Len(u) |-> u[i]]
    /\ \A i \in DOMAIN u : u[i] \in ReadingUses
PageFits(row) ==
    IF row[2] = "GET" THEN Shows(row[3])
    ELSE \E v \in Uses : /\ row[3] = <<v[1]>> /\ <<row[1], v[2]>> \in EndpointAcl
                         /\ ~ LeftToService(row[1])

LEMMA MissionPagesFit == \A row \in MissionPages : PageFits(row)
<1>1. \A row \in MissionPages : row[2] = "GET" => Shows(row[3])
    BY DEF MissionPages, ReadingUses, Shows
<1>2. \A row \in MissionPages : row[2] # "GET" => \E v \in MissionUses : row[3] = <<v[1]>>
    BY DEF MissionPages, MissionUses
<1>3. \A row \in MissionPages, v \in MissionUses :
          row[2] # "GET" /\ row[3] = <<v[1]>> => <<row[1], v[2]>> \in EndpointAcl
    BY DEF MissionPages, MissionUses, EndpointAcl, One, Root, System
<1>4. \A row \in MissionPages : ~ LeftToService(row[1])
    BY DEF MissionPages, LeftToService
<1> QED
    BY <1>1, <1>2, <1>3, <1>4 DEF PageFits, Uses

LEMMA ObjectivePagesFit == \A row \in ObjectivePages : PageFits(row)
BY DEF ObjectivePages, PageFits, ReadingUses, Shows

LEMMA ActivityPagesFit == \A row \in ActivityPages : PageFits(row)
<1>1. \A row \in ActivityPages : row[2] = "GET" => Shows(row[3])
    BY DEF ActivityPages, ReadingUses, Shows
<1>2. \A row \in ActivityPages : row[2] # "GET" => \E v \in ActivityUses \cup BadgeUses : row[3] = <<v[1]>>
    BY DEF ActivityPages, ActivityUses, BadgeUses
<1>3. \A row \in ActivityPages, v \in ActivityUses \cup BadgeUses :
          row[2] # "GET" /\ row[3] = <<v[1]>> => <<row[1], v[2]>> \in EndpointAcl
    BY DEF ActivityPages, ActivityUses, BadgeUses, EndpointAcl, One, Root, System
<1>4. \A row \in ActivityPages : ~ LeftToService(row[1])
    BY DEF ActivityPages, LeftToService
<1> QED
    BY <1>1, <1>2, <1>3, <1>4 DEF PageFits, Uses

LEMMA PersonPagesFit == \A row \in PersonPages : PageFits(row)
<1>1. \A row \in PersonPages : row[2] = "GET" => Shows(row[3])
    BY DEF PersonPages, ReadingUses, Shows
<1>2. \A row \in PersonPages : row[2] # "GET" => \E v \in PersonUses : row[3] = <<v[1]>>
    BY DEF PersonPages, PersonUses
<1>3. \A row \in PersonPages, v \in PersonUses :
          row[2] # "GET" /\ row[3] = <<v[1]>> => <<row[1], v[2]>> \in EndpointAcl
    BY DEF PersonPages, PersonUses, EndpointAcl, One, Root, System
<1>4. \A row \in PersonPages : ~ LeftToService(row[1])
    BY DEF PersonPages, LeftToService
<1> QED
    BY <1>1, <1>2, <1>3, <1>4 DEF PageFits, Uses

LEMMA GroupPagesFit == \A row \in GroupPages : PageFits(row)
<1>1. \A row \in GroupPages : row[2] = "GET" => Shows(row[3])
    BY DEF GroupPages, ReadingUses, Shows
<1>2. \A row \in GroupPages : row[2] # "GET" => \E v \in GroupUses \cup MembershipUses : row[3] = <<v[1]>>
    BY DEF GroupPages, GroupUses, MembershipUses
<1>3. \A row \in GroupPages, v \in GroupUses \cup MembershipUses :
          row[2] # "GET" /\ row[3] = <<v[1]>> => <<row[1], v[2]>> \in EndpointAcl
    BY DEF GroupPages, GroupUses, MembershipUses, EndpointAcl, One, Root, System
<1>4. \A row \in GroupPages : ~ LeftToService(row[1])
    BY DEF GroupPages, LeftToService
<1> QED
    BY <1>1, <1>2, <1>3, <1>4 DEF PageFits, Uses

LEMMA BadgePagesFit == \A row \in BadgePages : PageFits(row)
<1>1. \A row \in BadgePages : row[2] = "GET" => Shows(row[3])
    BY DEF BadgePages, ReadingUses, Shows
<1>2. \A row \in BadgePages : row[2] # "GET" => \E v \in BadgeUses : row[3] = <<v[1]>>
    BY DEF BadgePages, BadgeUses
<1>3. \A row \in BadgePages, v \in BadgeUses :
          row[2] # "GET" /\ row[3] = <<v[1]>> => <<row[1], v[2]>> \in EndpointAcl
    BY DEF BadgePages, BadgeUses, EndpointAcl, One, Root, System
<1>4. \A row \in BadgePages : ~ LeftToService(row[1])
    BY DEF BadgePages, LeftToService
<1> QED
    BY <1>1, <1>2, <1>3, <1>4 DEF PageFits, Uses

(* Creating an assignment, where the boundary asks for the type.           *)
InBody(row) ==
    row[1] = "create_assignment" /\ row[2] = "POST" /\ row[3] = <<"create-assignment">>

LEMMA AssignmentPagesFit == \A row \in AssignmentPages : PageFits(row) \/ InBody(row)
<1>1. \A row \in AssignmentPages : row[2] = "GET" => Shows(row[3])
    BY DEF AssignmentPages, ReadingUses, Shows
<1>2. \A row \in AssignmentPages :
          row[2] # "GET" => InBody(row) \/ \E v \in AssignmentUses \cup BadgeUses : row[3] = <<v[1]>>
    BY DEF AssignmentPages, AssignmentUses, BadgeUses, InBody
<1>3. \A row \in AssignmentPages, v \in AssignmentUses \cup BadgeUses :
          row[2] # "GET" /\ row[3] = <<v[1]>> => InBody(row) \/ <<row[1], v[2]>> \in EndpointAcl
    BY DEF AssignmentPages, AssignmentUses, BadgeUses, EndpointAcl, One, Root, System, InBody
<1>4. \A row \in AssignmentPages : ~ LeftToService(row[1])
    BY DEF AssignmentPages, LeftToService
<1> QED
    BY <1>1, <1>2, <1>3, <1>4 DEF PageFits, Uses

LEMMA AclPagesFit ==
    \A row \in AclPages :
        PageFits(row) \/ (LeftToService(row[1]) /\ row[3] \in {<<"create-entry">>, <<"delete-entry">>})
<1>1. \A row \in AclPages : row[2] = "GET" => Shows(row[3])
    BY DEF AclPages, ReadingUses, Shows
<1>2. \A row \in AclPages : row[2] # "GET" =>
          \/ LeftToService(row[1]) /\ row[3] \in {<<"create-entry">>, <<"delete-entry">>}
          \/ \E v \in PersonUses : row[3] = <<v[1]>>
    BY DEF AclPages, PersonUses, LeftToService
<1>3. \A row \in AclPages, v \in PersonUses :
          row[2] # "GET" /\ row[3] = <<v[1]>>
              => <<row[1], v[2]>> \in EndpointAcl /\ ~ LeftToService(row[1])
    BY DEF AclPages, PersonUses, EndpointAcl, LeftToService, One, Root, System
<1> QED
    BY <1>1, <1>2, <1>3 DEF PageFits, Uses

LEMMA EntryUsesAreNamed == "create-entry" \in Names /\ "delete-entry" \in Names /\ "list-entries" \in Names
<1>1. <<"create-entry", System("MANAGE_ACL")>> \in Uses /\ <<"delete-entry", System("MANAGE_ACL")>> \in Uses
    BY AclUsesAre DEF Uses
<1>2. \A u, c : <<u, c>> \in Uses => u \in Names
    BY DEF Names
<1> QED
    BY <1>1, <1>2 DEF Names, ReadingUses

LEMMA WebRoutesFit == \A r \in WebRoutes : Fits(r)
<1> SUFFICES ASSUME NEW r \in WebRoutes PROVE Fits(r)
    OBVIOUS
<1>1. PICK row \in WebHandlers :
          r = [front |-> "Web", name |-> row[1], method |-> row[2], uses |-> row[3],
               asks |-> WebAsks(row[1], row[2]), enforced |-> LeftToService(row[1]),
               public |-> FALSE]
    BY DEF WebRoutes
<1>2. CASE PageFits(row) /\ row[2] = "GET"
  <2>1. r.uses \in Seq(ReadingUses)
      BY <1>1, <1>2 DEF PageFits, Shows
  <2>2. r.uses \in Seq(Names) /\ \A i \in DOMAIN r.uses : r.uses[i] \in ReadingUses
      BY <2>1 DEF Names
  <2> QED
      BY <1>1, <2>2, ShownFits
<1>3. CASE PageFits(row) /\ row[2] # "GET"
  <2>1. PICK v \in Uses : /\ row[3] = <<v[1]>> /\ <<row[1], v[2]>> \in EndpointAcl
                          /\ ~ LeftToService(row[1])
      BY <1>3 DEF PageFits
  <2>2. WebAsks(row[1], row[2]) = {v[2]}
      BY <2>1, EndpointsAreKeyed DEF WebAsks
  <2> QED
      BY <1>1, <2>1, <2>2, AgreedFits
<1>4. CASE LeftToService(row[1]) /\ row[3] \in {<<"create-entry">>, <<"delete-entry">>}
  <2>1. PICK u \in {"create-entry", "delete-entry"} : r.uses = <<u>>
      BY <1>1, <1>4
  <2>2. r.asks = {} /\ r.enforced = TRUE /\ r.front = "Web" /\ r.public = FALSE
        /\ "create-initial-admin" \notin ToSet(r.uses)
      BY <1>1, <1>4, <2>1 DEF WebAsks, ToSet
  <2>3. r.uses \in Seq(Names)
    <3>1. u \in Names
        BY EntryUsesAreNamed
    <3> QED
        BY <2>1, <3>1
  <2> QED
      BY <2>2, <2>3, EnforcedFits
<1>5. CASE InBody(row)
  <2>1. MissionInBody(r) /\ r.uses = <<"create-assignment">> /\ r.front = "Web"
        /\ r.public = FALSE /\ r.asks = WebAsks("create_assignment", "POST")
      BY <1>1, <1>5 DEF InBody, MissionInBody
  <2>2. <<"create-assignment", One("CREATE_ASSIGNMENT", "MISSION")>> \in Uses
      BY DEF Uses, AssignmentUses
  <2>3. "create-assignment" \in Names /\ One("CREATE_ASSIGNMENT", "MISSION") \in Asks("create-assignment")
      BY <2>2 DEF Names, Asks
  <2>4. r.uses \in Seq(Names) /\ ToSet(r.uses) = {"create-assignment"}
      BY <2>1, <2>3 DEF ToSet
  <2>5. ~ OpenToPublic(One("CREATE_ASSIGNMENT", "MISSION"))
      BY DEF OpenToPublic, ReadOnly, NoAdministrator, One, System
  <2> QED
      BY <2>1, <2>3, <2>4, <2>5 DEF Fits
<1>6. CASE row \in WebExtensionView
  <2>1. /\ row[1] = "extension"
        /\ \/ row[2] = "GET" /\ row[3] = <<"read-extension">>
           \/ row[2] = "POST" /\ row[3] = <<"run-extension">>
      BY <1>6 DEF WebExtensionView
  <2>2. ~ LeftToService("extension") /\ \A x \in EndpointAcl : x[1] # "extension"
      BY DEF LeftToService, EndpointAcl
  <2>3. r.asks = {OfExtension(row[2])}
      BY <1>1, <2>1, <2>2 DEF WebAsks
  <2>4. row[2] = "POST" => r.asks = {System("EXECUTE")} /\ r.method # "GET"
      BY <1>1, <2>3 DEF OfExtension
  <2> QED
      BY <1>1, <2>1, <2>4, ExtensionFits
<1> QED
    BY <1>1, <1>2, <1>3, <1>4, <1>5, <1>6, MissionPagesFit, AssignmentPagesFit, ObjectivePagesFit,
       ActivityPagesFit, PersonPagesFit, GroupPagesFit, BadgePagesFit, AclPagesFit DEF WebHandlers

-----------------------------------------------------------------------------
(* CLI: a command asks what its service asks                               *)

CommandFits(row) == \E v \in Uses : row[3] = v[1] /\ row[2] = {v[2]}

LEMMA WorkCommandsFit ==
    \A row \in MissionCommands \cup AssignmentCommands \cup ActivityCommands \cup BadgeCommands :
        CommandFits(row)
<1>1. \A row \in MissionCommands : \E v \in MissionUses : row[3] = v[1]
    BY DEF MissionCommands, MissionUses
<1>2. \A row \in MissionCommands, v \in MissionUses : row[3] = v[1] => row[2] = {v[2]}
    BY DEF MissionCommands, MissionUses, One, Root, System
<1>3. \A row \in AssignmentCommands : \E v \in AssignmentUses : row[3] = v[1]
    BY DEF AssignmentCommands, AssignmentUses
<1>4. \A row \in AssignmentCommands, v \in AssignmentUses : row[3] = v[1] => row[2] = {v[2]}
    BY DEF AssignmentCommands, AssignmentUses, One, Root, System
<1>5. \A row \in ActivityCommands : \E v \in ActivityUses : row[3] = v[1]
    BY DEF ActivityCommands, ActivityUses
<1>6. \A row \in ActivityCommands, v \in ActivityUses : row[3] = v[1] => row[2] = {v[2]}
    BY DEF ActivityCommands, ActivityUses, One, Root, System
<1>7. \A row \in BadgeCommands : \E v \in BadgeUses : row[3] = v[1]
    BY DEF BadgeCommands, BadgeUses
<1>8. \A row \in BadgeCommands, v \in BadgeUses : row[3] = v[1] => row[2] = {v[2]}
    BY DEF BadgeCommands, BadgeUses, One, Root, System
<1> QED
    BY <1>1, <1>2, <1>3, <1>4, <1>5, <1>6, <1>7, <1>8 DEF CommandFits, Uses

LEMMA PeopleCommandsFit == \A row \in PersonCommands \cup GroupCommands : CommandFits(row)
<1>1. \A row \in PersonCommands : \E v \in PersonUses : row[3] = v[1]
    BY DEF PersonCommands, PersonUses
<1>2. \A row \in PersonCommands, v \in PersonUses : row[3] = v[1] => row[2] = {v[2]}
    BY DEF PersonCommands, PersonUses, One, Root, System
<1>3. \A row \in GroupCommands : \E v \in GroupUses \cup MembershipUses : row[3] = v[1]
    BY DEF GroupCommands, GroupUses, MembershipUses
<1>4. \A row \in GroupCommands, v \in GroupUses \cup MembershipUses : row[3] = v[1] => row[2] = {v[2]}
    BY DEF GroupCommands, GroupUses, MembershipUses, One, Root, System
<1> QED
    BY <1>1, <1>2, <1>3, <1>4 DEF CommandFits, Uses

LEMMA CliRoutesFit == \A r \in CliRoutes : Fits(r)
<1> SUFFICES ASSUME NEW r \in CliRoutes PROVE Fits(r)
    OBVIOUS
<1>1. PICK row \in Commands :
          r = [front |-> "CLI", name |-> row[1], method |-> "command", uses |-> <<row[3]>>,
               asks |-> row[2], enforced |-> row \in AclCommands,
               public |-> FALSE]
    BY DEF CliRoutes
<1>2. CASE CommandFits(row)
    BY <1>1, <1>2, AgreedFits DEF CommandFits
<1>3. CASE row \in AclCommands
  <2>1. row[2] = {} /\ row[3] \in {"list-entries", "create-entry", "delete-entry"}
      BY <1>3 DEF AclCommands
  <2>2. r.uses \in Seq(Names)
      BY <1>1, <2>1, EntryUsesAreNamed
  <2>3. r.asks = {} /\ r.enforced = TRUE /\ r.front = "CLI" /\ r.public = FALSE
      BY <1>1, <1>3, <2>1
  <2>4. "create-initial-admin" \notin ToSet(r.uses)
    <3>1. PICK u \in {"list-entries", "create-entry", "delete-entry"} : r.uses = <<u>>
        BY <1>1, <2>1
    <3>2. ToSet(r.uses) = {u}
        BY <3>1 DEF ToSet
    <3> QED
        BY <3>2
  <2> QED
      BY <2>2, <2>3, <2>4, EnforcedFits
<1>4. CASE row \in ExtensionCommand
  <2>1. row[2] = {System("EXECUTE")} /\ row[3] = "run-extension"
      BY <1>4 DEF ExtensionCommand
  <2> QED
      BY <1>1, <2>1, ExtensionFits
<1> QED
    BY <1>2, <1>3, <1>4, WorkCommandsFit, PeopleCommandsFit DEF Commands

-----------------------------------------------------------------------------
(* Public routes: who calls them signs in or out, or is the first          *)

LEMMA PublicRoutesFit == \A r \in PublicRoutes : Fits(r)
<1> SUFFICES ASSUME NEW r \in PublicRoutes PROVE Fits(r)
    OBVIOUS
<1>1. PICK row \in PublicHandlers :
          r = [front |-> row[1], name |-> row[2], method |-> row[3], uses |-> row[4],
               asks |-> {}, enforced |-> FALSE, public |-> TRUE]
    BY DEF PublicRoutes
<1>2. /\ \/ row[4] \in {<<>>, <<"admin-exists">>, <<"login">>, <<"login-oidc">>, <<"logout">>}
         \/ row[4] = <<"own-password">> \/ row[4] = <<"admin-exists", "create-initial-admin">>
      /\ row[1] = "REST" => row[4] \in {<<>>, <<"login">>, <<"login-oidc">>, <<"logout">>}
    BY DEF PublicHandlers, PublicRestHandlers, PublicWebHandlers, CreateSuperuser
<1>3. /\ "admin-exists" \in Names \cap ReadingUses /\ SigningIn \subseteq Names
      /\ "own-password" \in Names /\ "create-initial-admin" \in Names
    BY DEF Names, ReadingUses, Unasked
<1>4. CASE row[4] = <<>>
    BY <1>1, <1>4 DEF Fits, ToSet
<1>5. CASE row[4] = <<"admin-exists">>
  <2>1. r.uses \in Seq(Names) /\ ToSet(r.uses) = {"admin-exists"}
      BY <1>1, <1>3, <1>5 DEF ToSet
  <2> QED
      BY <1>1, <1>3, <2>1 DEF Fits
<1>6. CASE \E u \in SigningIn \cup {"own-password"} : row[4] = <<u>> /\ (row[1] = "REST" => u \in SigningIn)
  <2>1. PICK u \in SigningIn \cup {"own-password"} : row[4] = <<u>> /\ (row[1] = "REST" => u \in SigningIn)
      BY <1>6
  <2>2. r.uses \in Seq(Names) /\ ToSet(r.uses) = {u}
      BY <1>1, <1>3, <2>1 DEF ToSet
  <2>3. u \in PublicUses /\ u # "create-initial-admin"
      BY DEF PublicUses, SigningIn
  <2> QED
      BY <1>1, <2>1, <2>2, <2>3 DEF Fits
<1>7. CASE row[4] = <<"admin-exists", "create-initial-admin">>
  <2>1. r.uses \in Seq(Names) /\ ToSet(r.uses) = {"admin-exists", "create-initial-admin"}
      BY <1>1, <1>3, <1>7 DEF ToSet
  <2>2. row[1] # "REST"
      BY <1>2, <1>7
  <2> QED
      BY <1>1, <1>3, <1>7, <2>1, <2>2 DEF Fits, PublicUses
<1> QED
    BY <1>2, <1>4, <1>5, <1>6, <1>7 DEF SigningIn

LEMMA EveryRouteFits == \A r \in Routes \cup {NoRoute} : Fits(r)
<1>1. Fits(NoRoute)
    BY DEF NoRoute, Fits, ToSet
<1> QED
    BY <1>1, RestRoutesFit, WebRoutesFit, CliRoutesFit, PublicRoutesFit DEF Routes

-----------------------------------------------------------------------------
(* The way of a request                                                    *)

(* What the boundary has admitted, it admitted for a reason that stays:    *)
(* the public can have no right but to read.                               *)
Admitted ==
    \/ route.public
    \/ /\ who # "gone"
       /\ IF route.enforced THEN who = "operator" \/ route.front = "CLI"
          ELSE who = "anonymous" => \A c \in route.asks : OpenToPublic(c)

Counts == route.front = "REST" /\ ~ route.public /\ who = "operator" => counted = Buckets(route.name, route.method)

RequestInv ==
    /\ Fits(route) /\ changes \in Nat /\ who \in {"operator", "anonymous", "gone"}
    /\ left \in Seq(Names) /\ \A i \in DOMAIN left : left[i] \in ToSet(route.uses)
    /\ rights \subseteq Possible(who, route)

PassedInv ==
    /\ stage = "boundary" => who # "gone"
    /\ stage \in {"limit", "serve"} => Admitted
    /\ stage \in {"limit", "serve"} /\ changes = 0 /\ ~ route.enforced => route.asks \subseteq rights
    /\ stage = "serve" => Counts

(* What a service has done, it was allowed to when it looked.              *)
DoneInv ==
    /\ done # {} => stage \in {"serve", "answered"} /\ Admitted /\ Counts
    /\ \A d \in done : /\ d[1] \in ToSet(route.uses) /\ d[2] \subseteq Possible(who, route)
                       /\ Asks(d[1]) \subseteq d[2] /\ ~ NoContext

(* The first administrator is created after the look for another; one's    *)
(* own password is changed by an operator.                                 *)
SetupInv ==
    /\ "create-initial-admin" \in ToSet(route.uses) => left = route.uses \/ NoneFound
    /\ \A d \in done : /\ d[1] = "create-initial-admin" => NoneFound
                       /\ d[1] = "own-password" => who = "operator"

BoundaryInv == RequestInv /\ PassedInv /\ DoneInv /\ SetupInv /\ AdmittedIsServed

LEMMA SetupStays ==
    ASSUME SetupInv, route' = route, left' = left, done' = done, who' = who
    PROVE  SetupInv'
<1>1. ToSet(route.uses)' = ToSet(route.uses) /\ (NoneFound' <=> NoneFound)
    BY DEF NoneFound
<1> QED
    BY <1>1 DEF SetupInv

LEMMA BoundaryStarts ==
    ASSUME Init
    PROVE  BoundaryInv
<1>1. /\ stage = "none" /\ route = NoRoute /\ rights = {} /\ left = <<>> /\ changes = 0 /\ done = {}
      /\ answer = "none" /\ who = "anonymous"
    BY DEF Init
<1>2. Fits(route)
    BY <1>1, EveryRouteFits
<1>3. RequestInv
    BY <1>1, <1>2 DEF RequestInv
<1>4. PassedInv /\ DoneInv /\ SetupInv
    BY <1>1 DEF PassedInv, DoneInv, SetupInv, NoRoute, ToSet
<1> QED
    BY <1>1, <1>3, <1>4 DEF BoundaryInv, AdmittedIsServed

LEMMA ArriveKeeps ==
    ASSUME BoundaryInv, NEW r \in Routes,
           NEW w \in {"operator", "anonymous", "gone"}, Arrive(r, w)
    PROVE  BoundaryInv'
<1>1. /\ stage' \in {"csrf", "identify", "serve"} /\ route' = r /\ who' = w /\ left' = r.uses
      /\ stage' = "serve" => r.public
      /\ rights' \subseteq Possible(w, r) /\ changes' = 0 /\ done' = {} /\ answer' = "none"
    BY DEF Arrive, PastCsrf
<1>2. Fits(r)
    BY EveryRouteFits
<1>3. r.uses \in Seq(Names)
    BY <1>2 DEF Fits
<1>4. Fits(route)'
    BY <1>1, <1>2
<1>5. RequestInv'
  <2>1. \A i \in DOMAIN left' : left'[i] \in ToSet(route'.uses)
      BY <1>1 DEF ToSet
  <2>2. rights' \subseteq Possible(who, route)'
      BY <1>1 DEF Possible, Relevant
  <2>3. \A i \in DOMAIN left' : left'[i] \in ToSet(route.uses)'
      BY <2>1
  <2> QED
      BY <1>1, <1>3, <1>4, <2>2, <2>3 DEF RequestInv
<1>6. PassedInv' /\ DoneInv'
  <2>1. r.public => r.asks = {}
      BY <1>2 DEF Fits
  <2>2. stage' = "serve" => Admitted' /\ Counts' /\ route'.asks \subseteq rights'
      BY <1>1, <2>1 DEF Admitted, Counts
  <2> QED
      BY <1>1, <2>2 DEF PassedInv, DoneInv
<1>7. SetupInv'
    BY <1>1 DEF SetupInv
<1> QED
    BY <1>1, <1>5, <1>6, <1>7 DEF BoundaryInv, AdmittedIsServed

LEMMA LeaveKeeps ==
    ASSUME BoundaryInv, Leave
    PROVE  BoundaryInv'
<1>1. /\ stage' = "none" /\ route' = NoRoute /\ rights' = {} /\ left' = <<>> /\ changes' = 0
      /\ done' = {} /\ answer' = "none" /\ who' = "anonymous"
    BY DEF Leave
<1>2. Fits(NoRoute)
    BY EveryRouteFits
<1>3. Fits(route)'
    BY <1>1, <1>2
<1>4. RequestInv'
    BY <1>1, <1>3 DEF RequestInv
<1>5. PassedInv' /\ DoneInv'
    BY <1>1 DEF PassedInv, DoneInv
<1>6. SetupInv'
  <2>1. ToSet(route.uses)' = {}
      BY <1>1 DEF NoRoute, ToSet
  <2> QED
      BY <1>1, <2>1 DEF SetupInv
<1> QED
    BY <1>1, <1>4, <1>5, <1>6 DEF BoundaryInv, AdmittedIsServed

(* A step that leaves the request and its rights as they are.              *)
LEMMA RequestStays ==
    ASSUME RequestInv, route' = route, who' = who, rights' = rights, left' = left, changes' = changes
    PROVE  RequestInv'
<1>1. Fits(route)'
    BY DEF RequestInv
<1>2. rights' \subseteq Possible(who, route)'
    BY DEF RequestInv, Possible, Relevant
<1>3. ToSet(route.uses)' = ToSet(route.uses)
    OBVIOUS
<1> QED
    BY <1>1, <1>2, <1>3 DEF RequestInv

LEMMA FrontKeeps ==
    ASSUME BoundaryInv, CheckCsrf \/ Identify
    PROVE  BoundaryInv'
<1>1. /\ route' = route /\ who' = who /\ rights' = rights /\ left' = left /\ changes' = changes
      /\ counted' = counted /\ done' = done /\ stage \in {"csrf", "identify"}
      /\ stage' \in {"identify", "boundary", "serve", "answered"} /\ (stage' = "boundary" => who # "gone")
      /\ (stage' = "serve" => route.public) /\ answer' \in {answer, "400", "404"}
    BY DEF CheckCsrf, Identify, Tell, PastCsrf
<1>2. done = {}
    BY <1>1 DEF BoundaryInv, DoneInv
<1>3. PassedInv' /\ DoneInv'
  <2>1. route.public => route.asks = {}
      BY DEF BoundaryInv, RequestInv, Fits
  <2>2. stage' = "serve" => Admitted' /\ Counts' /\ route'.asks \subseteq rights'
      BY <1>1, <2>1 DEF Admitted, Counts
  <2> QED
      BY <1>1, <1>2, <2>2 DEF PassedInv, DoneInv
<1>4. AdmittedIsServed'
    BY <1>1 DEF BoundaryInv, AdmittedIsServed, MissionInBody, Changes
<1> QED
    BY <1>1, <1>3, <1>4, RequestStays, SetupStays DEF BoundaryInv

LEMMA CheckBoundaryKeeps ==
    ASSUME BoundaryInv, CheckBoundary
    PROVE  BoundaryInv'
<1>1. /\ route' = route /\ who' = who /\ rights' = rights /\ left' = left /\ changes' = changes
      /\ counted' = counted /\ done' = done /\ stage = "boundary"
      /\ stage' \in {"limit", "answered"} /\ (stage' = "limit" => Admits)
      /\ answer' \in {answer, "401", "403"}
    BY DEF CheckBoundary, Tell
<1>2. done = {} /\ who # "gone" /\ rights \subseteq Possible(who, route)
    BY <1>1 DEF BoundaryInv, DoneInv, PassedInv, RequestInv
<1>3. Admits => Admitted /\ (~ route.enforced => route.asks \subseteq rights)
    BY <1>2 DEF Admits, Admitted, Possible
<1>4. Admitted' <=> Admitted
    BY <1>1 DEF Admitted
<1>5. PassedInv' /\ DoneInv'
    BY <1>1, <1>2, <1>3, <1>4 DEF PassedInv, DoneInv
<1>6. AdmittedIsServed'
    BY <1>1 DEF BoundaryInv, AdmittedIsServed, MissionInBody, Changes
<1> QED
    BY <1>1, <1>5, <1>6, RequestStays, SetupStays DEF BoundaryInv

LEMMA CheckLimitKeeps ==
    ASSUME BoundaryInv, CheckLimit
    PROVE  BoundaryInv'
<1>1. /\ route' = route /\ who' = who /\ rights' = rights /\ left' = left /\ changes' = changes
      /\ done' = done /\ stage = "limit" /\ stage' \in {"serve", "answered"}
      /\ stage' = "serve" /\ route.front = "REST" /\ who = "operator"
            => counted' = Buckets(route.name, route.method)
      /\ answer' \in {answer, "429"}
    BY DEF CheckLimit, Tell
<1>2. done = {} /\ Admitted /\ (changes = 0 /\ ~ route.enforced => route.asks \subseteq rights)
    BY <1>1 DEF BoundaryInv, DoneInv, PassedInv
<1>3. Admitted'
    BY <1>1, <1>2 DEF Admitted
<1>4. stage' = "serve" => Counts'
    BY <1>1 DEF Counts, Buckets
<1>5. PassedInv' /\ DoneInv'
    BY <1>1, <1>2, <1>3, <1>4 DEF PassedInv, DoneInv
<1>6. AdmittedIsServed'
    BY <1>1 DEF BoundaryInv, AdmittedIsServed, MissionInBody, Changes
<1> QED
    BY <1>1, <1>5, <1>6, RequestStays, SetupStays DEF BoundaryInv

LEMMA ServeKeeps ==
    ASSUME BoundaryInv, Serve
    PROVE  BoundaryInv'
<1>1. /\ route' = route /\ who' = who /\ rights' = rights /\ changes' = changes /\ counted' = counted
      /\ stage = "serve" /\ left # <<>>
    BY DEF Serve
<1>2. /\ Fits(route) /\ changes \in Nat /\ who \in {"operator", "anonymous", "gone"} /\ left \in Seq(Names)
      /\ \A i \in DOMAIN left : left[i] \in ToSet(route.uses)
      /\ rights \subseteq Possible(who, route)
    BY DEF BoundaryInv, RequestInv
<1>3. Admitted /\ Counts /\ (changes = 0 /\ ~ route.enforced => route.asks \subseteq rights)
    BY <1>1 DEF BoundaryInv, PassedInv
<1>4. PICK u : u = Head(left)
    OBVIOUS
<1>5. /\ Tail(left) \in Seq(Names)
      /\ \A i \in DOMAIN Tail(left) : Tail(left)[i] = left[i + 1] /\ i + 1 \in DOMAIN left
      /\ 1 \in DOMAIN left /\ u = left[1]
    BY <1>1, <1>2, <1>4
<1>6. u \in ToSet(route.uses)
    BY <1>2, <1>5
<1>7. Admitted' /\ Counts'
    BY <1>1, <1>3 DEF Admitted, Counts, Buckets
<1>8. NoContext' <=> NoContext
    BY <1>1 DEF NoContext
<1>9. CASE Asks(u) \subseteq rights /\ ~ NoContext /\ ~ NotOneself(u)
  <2>1. /\ left' = Tail(left) /\ done' = done \cup {<<u, rights>>} /\ stage' = stage /\ answer' = answer
      BY <1>4, <1>9 DEF Serve
  <2>2. Fits(route)' /\ (rights \subseteq Possible(who, route))' /\ ToSet(route.uses)' = ToSet(route.uses)
      BY <1>1, <1>2 DEF Possible, Relevant
  <2>3. \A i \in DOMAIN left' : left'[i] \in ToSet(route.uses)
      BY <1>2, <1>5, <2>1
  <2>4. RequestInv'
      BY <1>1, <1>2, <1>5, <2>1, <2>2, <2>3 DEF RequestInv
  <2>5. PassedInv'
      BY <1>1, <1>3, <1>7, <2>1 DEF PassedInv
  <2>6. ASSUME NEW d \in done'
        PROVE  /\ d[1] \in ToSet(route.uses) /\ d[2] \subseteq Possible(who, route)
               /\ Asks(d[1]) \subseteq d[2] /\ ~ NoContext
    <3>1. CASE d = <<u, rights>>
        BY <1>2, <1>6, <1>9, <3>1
    <3>2. CASE d \in done
        BY <3>2 DEF BoundaryInv, DoneInv
    <3> QED
        BY <2>1, <3>1, <3>2
  <2>7. Possible(who, route)' = Possible(who, route)
      BY <1>1 DEF Possible, Relevant
  <2>8. DoneInv'
      BY <1>1, <1>7, <1>8, <2>1, <2>2, <2>6, <2>7 DEF DoneInv
  <2>9. AdmittedIsServed'
      BY <1>1, <2>1 DEF BoundaryInv, AdmittedIsServed, MissionInBody, Changes
  <2>10. SetupInv
      BY DEF BoundaryInv
  <2>11. "create-initial-admin" \in ToSet(route.uses) => NoneFound'
    <3>1. SUFFICES ASSUME "create-initial-admin" \in ToSet(route.uses), left = route.uses PROVE NoneFound'
        BY <2>1, <2>10 DEF SetupInv, NoneFound
    <3>2. route.uses = <<"admin-exists", "create-initial-admin">>
        BY <1>2, <3>1 DEF Fits, ReadingUses
    <3>3. u = "admin-exists"
        BY <1>5, <3>1, <3>2
    <3>4. <<"admin-exists", NoAdministrator>> \in Uses
        BY DEF Uses, SetupUses
    <3>5. Asks("admin-exists") = {NoAdministrator}
        BY <3>4, OneCheckEach
    <3>6. NoAdministrator \in rights
        BY <1>9, <3>3, <3>5
    <3>7. <<u, rights>> \in done'
        BY <2>1
    <3> QED
        BY <3>3, <3>6, <3>7 DEF NoneFound
  <2>12. SetupInv'
    <3>1. ASSUME NEW d \in done'
          PROVE  /\ d[1] = "create-initial-admin" => NoneFound'
                 /\ d[1] = "own-password" => who' = "operator"
      <4>1. CASE d = <<u, rights>>
          BY <1>1, <1>6, <1>9, <2>11, <4>1 DEF NotOneself
      <4>2. CASE d \in done
        <5>1. d[1] = "create-initial-admin" => "create-initial-admin" \in ToSet(route.uses)
            BY <4>2 DEF BoundaryInv, DoneInv
        <5> QED
            BY <1>1, <2>10, <2>11, <4>2, <5>1 DEF SetupInv
      <4> QED
          BY <2>1, <4>1, <4>2
    <3> QED
        BY <2>2, <2>11, <3>1 DEF SetupInv
  <2> QED
      BY <2>4, <2>5, <2>8, <2>9, <2>12 DEF BoundaryInv
<1>10. CASE ~ (Asks(u) \subseteq rights /\ ~ NoContext /\ ~ NotOneself(u))
  <2>1. stage' = "answered" /\ answer' = "refused" /\ left' = left /\ done' = done
      BY <1>4, <1>10 DEF Serve, Tell
  <2>2. RequestInv'
      BY <1>1, <2>1, RequestStays DEF BoundaryInv
  <2>3. PassedInv' /\ DoneInv'
    <3>1. Possible(who, route)' = Possible(who, route) /\ ToSet(route.uses)' = ToSet(route.uses)
        BY <1>1 DEF Possible, Relevant
    <3> QED
        BY <1>1, <1>7, <1>8, <2>1, <3>1 DEF BoundaryInv, PassedInv, DoneInv
  <2>4. changes = 0 => \/ route.enforced \/ route.public \/ MissionInBody(route)
                       \/ route.front = "Web" /\ ~ Changes(route)
    <3>1. SUFFICES ASSUME changes = 0, ~ route.enforced, ~ route.public, ~ MissionInBody(route),
                          ~ (route.front = "Web" /\ ~ Changes(route))
                   PROVE  FALSE
        OBVIOUS
    <3>2. Asks(u) \subseteq route.asks
        BY <1>2, <1>6, <3>1 DEF Fits
    <3>3. ~ NoContext /\ ~ NotOneself(u)
      <4>1. u # "own-password"
        <5>1. SUFFICES ASSUME u = "own-password" PROVE FALSE
            OBVIOUS
        <5>2. u \notin ReadingUses /\ u # "run-extension" /\ Asks(u) = {}
            BY <5>1, UnaskedAskNothing DEF ReadingUses, Unasked
        <5>3. route.asks = {} /\ \E c \in route.asks \cup Asks(u) : ~ OpenToPublic(c)
            BY <1>2, <1>6, <3>1, <5>2 DEF Fits
        <5> QED
            BY <5>2, <5>3
      <4> QED
          BY <3>1, <4>1 DEF NoContext, NotOneself
    <3> QED
        BY <1>3, <1>10, <3>1, <3>2, <3>3
  <2>5. AdmittedIsServed'
      BY <1>1, <2>4 DEF AdmittedIsServed, MissionInBody, Changes
  <2>6. SetupInv'
      BY <1>1, <2>1, SetupStays DEF BoundaryInv
  <2> QED
      BY <2>2, <2>3, <2>5, <2>6 DEF BoundaryInv
<1> QED
    BY <1>9, <1>10

LEMMA FinishKeeps ==
    ASSUME BoundaryInv, Finish
    PROVE  BoundaryInv'
<1>1. /\ route' = route /\ who' = who /\ rights' = rights /\ left' = left /\ changes' = changes
      /\ counted' = counted /\ done' = done /\ stage = "serve" /\ stage' = "answered" /\ answer' = "served"
    BY DEF Finish, Tell
<1>2. /\ Possible(who, route)' = Possible(who, route) /\ ToSet(route.uses)' = ToSet(route.uses)
      /\ (Admitted' <=> Admitted) /\ (Counts' <=> Counts) /\ (NoContext' <=> NoContext)
    BY <1>1 DEF Possible, Relevant, Admitted, Counts, Buckets, NoContext
<1>3. PassedInv' /\ DoneInv'
    BY <1>1, <1>2 DEF BoundaryInv, PassedInv, DoneInv
<1>4. AdmittedIsServed'
    BY <1>1 DEF AdmittedIsServed
<1> QED
    BY <1>1, <1>3, <1>4, RequestStays, SetupStays DEF BoundaryInv

LEMMA ChangeRightsKeeps ==
    ASSUME BoundaryInv, ChangeRights
    PROVE  BoundaryInv'
<1>1. /\ route' = route /\ who' = who /\ left' = left /\ changes' = changes + 1 /\ counted' = counted
      /\ done' = done /\ stage' = stage /\ answer' = answer /\ rights' \subseteq Possible(who, route)
    BY DEF ChangeRights
<1>2. /\ Possible(who, route)' = Possible(who, route) /\ ToSet(route.uses)' = ToSet(route.uses)
      /\ (Admitted' <=> Admitted) /\ (Counts' <=> Counts) /\ (NoContext' <=> NoContext)
    BY <1>1 DEF Possible, Relevant, Admitted, Counts, Buckets, NoContext
<1>3. changes \in Nat /\ changes' \in Nat /\ changes' # 0
    BY <1>1 DEF BoundaryInv, RequestInv
<1>4. RequestInv'
  <2>1. Fits(route)' /\ (rights \subseteq Possible(who, route))'
      BY <1>1, <1>2 DEF BoundaryInv, RequestInv
  <2> QED
      BY <1>1, <1>2, <1>3, <2>1 DEF BoundaryInv, RequestInv
<1>5. PassedInv' /\ DoneInv'
    BY <1>1, <1>2, <1>3 DEF BoundaryInv, PassedInv, DoneInv
<1>6. AdmittedIsServed'
    BY <1>3 DEF AdmittedIsServed
<1>7. SetupInv'
    BY <1>1, SetupStays DEF BoundaryInv
<1> QED
    BY <1>4, <1>5, <1>6, <1>7 DEF BoundaryInv

(* The inductive invariant of the way of a request.                        *)
THEOREM BoundaryCorrect == Spec => []BoundaryInv
<1>1. Init => BoundaryInv
    BY BoundaryStarts
<1>2. BoundaryInv /\ [Next]_vars => BoundaryInv'
  <2> SUFFICES ASSUME BoundaryInv, [Next]_vars PROVE BoundaryInv'
      OBVIOUS
  <2>1. CASE \E r \in Routes, w \in {"operator", "anonymous", "gone"} : Arrive(r, w)
      BY <2>1, ArriveKeeps
  <2>2. CASE CheckCsrf \/ Identify
      BY <2>2, FrontKeeps
  <2>3. CASE CheckBoundary
      BY <2>3, CheckBoundaryKeeps
  <2>4. CASE CheckLimit
      BY <2>4, CheckLimitKeeps
  <2>5. CASE Serve
      BY <2>5, ServeKeeps
  <2>6. CASE Finish
      BY <2>6, FinishKeeps
  <2>7. CASE ChangeRights
      BY <2>7, ChangeRightsKeeps
  <2>8. CASE Leave
      BY <2>8, LeaveKeeps
  <2>9. CASE UNCHANGED vars
    <3>1. /\ route' = route /\ who' = who /\ rights' = rights /\ left' = left /\ changes' = changes
          /\ counted' = counted /\ done' = done /\ stage' = stage /\ answer' = answer
        BY <2>9 DEF vars
    <3>2. /\ Possible(who, route)' = Possible(who, route) /\ ToSet(route.uses)' = ToSet(route.uses)
          /\ (Admitted' <=> Admitted) /\ (Counts' <=> Counts) /\ (NoContext' <=> NoContext)
        BY <3>1 DEF Possible, Relevant, Admitted, Counts, Buckets, NoContext
    <3>3. PassedInv' /\ DoneInv'
        BY <3>1, <3>2 DEF BoundaryInv, PassedInv, DoneInv
    <3>4. AdmittedIsServed'
        BY <3>1 DEF BoundaryInv, AdmittedIsServed, MissionInBody, Changes
    <3> QED
        BY <3>1, <3>3, <3>4, RequestStays, SetupStays DEF BoundaryInv
  <2> QED
      BY <2>1, <2>2, <2>3, <2>4, <2>5, <2>6, <2>7, <2>8, <2>9 DEF Next
<1> QED
    BY <1>1, <1>2, PTL DEF Spec

(* Through every route, page and command, the public ones included, and    *)
(* however often rights change under a request: an anonymous caller        *)
(* changes nothing, but to sign in or out and, if the request has found    *)
(* no administrator, to create the first one; a right taken away before    *)
(* the service looks is a refusal; who keeps his rights is served; and     *)
(* every other change through REST counts against the quota.               *)
THEOREM BoundaryAlwaysHolds == Spec => []BoundaryHolds
<1>1. ASSUME BoundaryInv PROVE BoundaryHolds
  <2>1. Fits(route)
      BY <1>1 DEF BoundaryInv, RequestInv
  <2>2. ASSUME NEW d \in done, d[1] \notin ReadingUses
        PROVE  /\ who = "operator" \/ d[1] \in SigningIn \/ (d[1] = "create-initial-admin" /\ NoneFound)
               /\ d[1] = "run-extension" \/ MissionInBody(route) \/ route.asks \subseteq d[2]
               /\ route.front = "REST" /\ d[1] \notin SigningIn => counted # {}
    <3>1. /\ d[1] \in ToSet(route.uses) /\ d[2] \subseteq Possible(who, route)
          /\ Asks(d[1]) \subseteq d[2] /\ ~ NoContext /\ Admitted /\ Counts
        BY <1>1, <2>2 DEF BoundaryInv, DoneInv
    <3>2. /\ IF route.public THEN d[1] \in PublicUses
             ELSE route.enforced \/ \E c \in route.asks \cup Asks(d[1]) : ~ OpenToPublic(c)
          /\ d[1] = "run-extension" \/ MissionInBody(route) \/ route.asks \subseteq Asks(d[1])
          /\ route.front = "REST" => IF route.public THEN d[1] \in SigningIn ELSE route.method # "GET"
        BY <2>1, <2>2, <3>1 DEF Fits
    <3>3. CASE route.public
      <4>1. /\ d[1] = "create-initial-admin" => NoneFound
            /\ d[1] = "own-password" => who = "operator"
          BY <1>1 DEF BoundaryInv, SetupInv
      <4> QED
          BY <3>1, <3>2, <3>3, <4>1 DEF PublicUses
    <3>4. CASE ~ route.public
      <4>1. who # "gone" /\ who \in {"operator", "anonymous", "gone"}
          BY <1>1, <3>1, <3>4 DEF BoundaryInv, RequestInv, Admitted
      <4>2. who # "anonymous"
        <5>1. SUFFICES ASSUME who = "anonymous" PROVE FALSE
            OBVIOUS
        <5>2. \A c \in Asks(d[1]) : OpenToPublic(c)
            BY <3>1, <5>1 DEF Possible
        <5>3. CASE route.enforced
            BY <3>1, <3>4, <5>1, <5>3 DEF Admitted, NoContext
        <5>4. CASE ~ route.enforced
            BY <3>1, <3>2, <3>4, <5>1, <5>2, <5>4 DEF Admitted
        <5> QED
            BY <5>3, <5>4
      <4>3. route.front = "REST" => counted # {}
        <5>1. SUFFICES ASSUME route.front = "REST" PROVE counted # {}
            OBVIOUS
        <5>2. counted = Buckets(route.name, route.method) /\ route.method # "GET"
            BY <3>1, <3>2, <3>4, <4>1, <4>2, <5>1 DEF Counts
        <5> QED
            BY <5>2 DEF Buckets
      <4> QED
          BY <3>1, <3>2, <4>1, <4>2, <4>3
    <3> QED
        BY <3>3, <3>4
  <2> QED
      BY <1>1, <2>2 DEF BoundaryHolds, AnonymousChangesNothing, RevokedInTimeIsRefused, ChangesAreCounted,
         BoundaryInv
<1> QED
    BY <1>1, BoundaryCorrect, PTL

-----------------------------------------------------------------------------
(* The types: what a request still has to call is the end of what its     *)
(* route calls, and it counts against one quota at most.                   *)

EndOf(s, t) ==
    Len(s) <= Len(t) /\ \A i \in 1 .. Len(s) : s[i] = t[Len(t) - Len(s) + i]

OneQuota(c) ==
    c = {} \/ \E b \in {row[3] : row \in RateLimited} \cup {"OTHER_MUTATION"} : c = {b}

StagesInv ==
    /\ stage \in {"none", "csrf", "identify", "boundary", "limit", "serve", "answered"}
    /\ route \in Routes \cup {NoRoute}
    /\ answer \in {"none", "400", "401", "403", "404", "429", "refused", "served"}
    /\ EndOf(left, route.uses) /\ OneQuota(counted) /\ changes <= MaxChanges

LEMMA ReverseIs ==
    ASSUME NEW S, NEW s \in Seq(S)
    PROVE  /\ Reverse(s) \in Seq(S) /\ Len(Reverse(s)) = Len(s)
           /\ \A i \in 1 .. Len(s) : Reverse(s)[i] = s[Len(s) - i + 1]
<1>1. Len(s) \in Nat /\ \A i \in 1 .. Len(s) : s[Len(s) - i + 1] \in S
    OBVIOUS
<1>2. Reverse(s) \in [1 .. Len(s) -> S]
    BY <1>1 DEF Reverse
<1>3. Reverse(s) \in Seq(S) /\ Len(Reverse(s)) = Len(s)
    BY <1>1, <1>2
<1> QED
    BY <1>3 DEF Reverse

LEMMA OneTo ==
    ASSUME NEW S, NEW s \in Seq(S), NEW n \in Nat, n <= Len(s)
    PROVE  SubSeq(s, 1, n) = [i \in 1 .. n |-> s[i]]
<1>1. SubSeq(s, 1, n) \in Seq(S) /\ Len(SubSeq(s, 1, n)) = n
    OBVIOUS
<1>2. \A i \in 1 .. n : SubSeq(s, 1, n)[i] = s[i]
    OBVIOUS
<1>3. SubSeq(s, 1, n) = [i \in 1 .. Len(SubSeq(s, 1, n)) |-> SubSeq(s, 1, n)[i]]
    BY <1>1
<1> QED
    BY <1>1, <1>2, <1>3

LEMMA EndIsSuffix ==
    ASSUME NEW S, NEW s \in Seq(S), NEW t \in Seq(S), EndOf(s, t)
    PROVE  IsSuffix(s, t)
<1>1. Len(s) \in Nat /\ Len(t) \in Nat /\ Len(s) <= Len(t)
    BY DEF EndOf
<1> DEFINE r == Reverse(s)
           u == Reverse(t)
<1>2. r \in Seq(S) /\ u \in Seq(S) /\ Len(r) = Len(s) /\ Len(u) = Len(t)
    BY ReverseIs
<1>3. ASSUME NEW i \in 1 .. Len(s) PROVE r[i] = u[i]
  <2>1. /\ r[i] = s[Len(s) - i + 1] /\ Len(s) - i + 1 \in 1 .. Len(s)
        /\ u[i] = t[Len(t) - i + 1] /\ i \in 1 .. Len(t)
      BY <1>1, <1>3, ReverseIs
  <2>2. s[Len(s) - i + 1] = t[Len(t) - Len(s) + (Len(s) - i + 1)]
      BY <2>1 DEF EndOf
  <2>3. Len(t) - Len(s) + (Len(s) - i + 1) = Len(t) - i + 1
      BY <1>1
  <2> QED
      BY <2>1, <2>2, <2>3
<1> HIDE DEF r, u
<1>4. SubSeq(r, 1, Len(r)) = SubSeq(u, 1, Len(r))
  <2>1. Len(r) \in Nat /\ Len(r) <= Len(u) /\ \A i \in 1 .. Len(r) : r[i] = u[i]
      BY <1>1, <1>2, <1>3
  <2>2. /\ SubSeq(r, 1, Len(r)) = [i \in 1 .. Len(r) |-> r[i]]
        /\ SubSeq(u, 1, Len(r)) = [i \in 1 .. Len(r) |-> u[i]]
      BY <1>2, <2>1, OneTo
  <2> QED
      BY <2>1, <2>2
<1> QED
    BY <1>1, <1>2, <1>4 DEF IsSuffix, IsPrefix, r, u

LEMMA OneRowEach ==
    \A r, q \in RateLimited : r[1] = q[1] /\ r[2] = q[2] => r[3] = q[3]
BY DEF RateLimited, RemovalsFromGroups

LEMMA BucketsIsOne == \A rule, method : OneQuota(Buckets(rule, method))
<1> SUFFICES ASSUME NEW rule, NEW method PROVE OneQuota(Buckets(rule, method))
    OBVIOUS
<1> DEFINE rows  == {r \in RateLimited : r[1] = rule /\ r[2] = method}
           named == {row[3] : row \in rows}
<1>1. Buckets(rule, method) = IF method = "GET" THEN {} ELSE IF named = {} THEN {"OTHER_MUTATION"} ELSE named
    BY DEF Buckets
<1>2. ASSUME named # {} PROVE OneQuota(named)
  <2>1. PICK row \in rows : TRUE
      BY <1>2
  <2>2. row \in RateLimited /\ \A q \in rows : q[3] = row[3]
      BY <2>1, OneRowEach
  <2>3. named = {row[3]}
      BY <2>1, <2>2
  <2>4. row[3] \in {q[3] : q \in RateLimited}
      BY <2>2
  <2> QED
      BY <2>3, <2>4 DEF OneQuota
<1> HIDE DEF named
<1> QED
    BY <1>1, <1>2 DEF OneQuota

LEMMA OneOn ==
    \A n, m \in Nat : \A i \in 1 .. n - 1 :
        i + 1 \in 1 .. n /\ m - n + (i + 1) = m - (n - 1) + i
OBVIOUS

LEMMA ServeStages ==
    ASSUME BoundaryInv, StagesInv, Serve
    PROVE  StagesInv'
<1>1. /\ route' = route /\ changes' = changes /\ counted' = counted /\ stage' \in {stage, "answered"}
      /\ answer' \in {answer, "refused"} /\ left' \in {left, Tail(left)} /\ left # <<>>
    BY DEF Serve, Tell
<1>2. left \in Seq(Names) /\ route.uses \in Seq(Names)
    BY DEF BoundaryInv, RequestInv, Fits
<1>3. EndOf(left, route.uses)
    BY DEF StagesInv
<1>4. EndOf(Tail(left), route.uses)
  <2> DEFINE u == route.uses
  <2>1. PICK n, m : n = Len(left) /\ m = Len(u)
      OBVIOUS
  <2>2. /\ n \in Nat /\ m \in Nat /\ n <= m /\ Len(Tail(left)) = n - 1
        /\ \A i \in 1 .. n - 1 : Tail(left)[i] = left[i + 1]
        /\ \A i \in 1 .. n : left[i] = u[m - n + i]
      BY <1>1, <1>2, <1>3, <2>1 DEF EndOf
  <2> HIDE DEF u
  <2>3. ASSUME NEW i \in 1 .. n - 1 PROVE Tail(left)[i] = u[m - (n - 1) + i]
    <3>1. i + 1 \in 1 .. n /\ m - n + (i + 1) = m - (n - 1) + i
        BY <2>2, OneOn
    <3>2. left[i + 1] = u[m - n + (i + 1)]
        BY <2>2, <3>1
    <3>3. u[m - n + (i + 1)] = u[m - (n - 1) + i]
        BY <3>1
    <3> QED
        BY <2>2, <3>2, <3>3
  <2>4. n - 1 <= m
      BY <2>2
  <2> QED
      BY <2>1, <2>2, <2>3, <2>4 DEF EndOf, u
<1>5. EndOf(left', route.uses)
    BY <1>1, <1>3, <1>4
<1>6. EndOf(left, route.uses)' /\ OneQuota(counted)'
    BY <1>1, <1>5 DEF StagesInv
<1> QED
    BY <1>1, <1>6 DEF StagesInv

(* A step that leaves what is called as it is.                             *)
LEMMA StagesStay ==
    ASSUME StagesInv, route' = route, left' = left, counted' = counted, changes' = changes,
           stage' \in {"none", "csrf", "identify", "boundary", "limit", "serve", "answered"},
           answer' \in {answer, "400", "401", "403", "404", "429", "served"}
    PROVE  StagesInv'
<1>1. EndOf(left, route.uses)' /\ OneQuota(counted)'
    BY DEF StagesInv
<1> QED
    BY <1>1 DEF StagesInv

LEMMA StagesStep ==
    ASSUME BoundaryInv, StagesInv, [Next]_vars
    PROVE  StagesInv'
<1>1. ASSUME NEW r \in Routes, NEW w \in {"operator", "anonymous", "gone"}, Arrive(r, w) PROVE StagesInv'
  <2>1. /\ stage' \in {"csrf", "identify", "serve"} /\ route' = r /\ left' = r.uses /\ counted' = {}
        /\ changes' = 0 /\ answer' = "none"
      BY <1>1 DEF Arrive, PastCsrf
  <2>2. r.uses \in Seq(Names)
      BY EveryRouteFits DEF Fits
  <2>3. EndOf(r.uses, r.uses) /\ OneQuota({})
      BY <2>2 DEF EndOf, OneQuota
  <2>4. EndOf(left, route.uses)' /\ OneQuota(counted)'
      BY <2>1, <2>3
  <2> QED
      BY <2>1, <2>4, BoundaryAssumption DEF StagesInv
<1>2. CASE CheckCsrf
    BY <1>2, StagesStay DEF CheckCsrf, Tell, StagesInv, PastCsrf
<1>3. CASE Identify
    BY <1>3, StagesStay DEF Identify, Tell, StagesInv
<1>4. CASE CheckBoundary
    BY <1>4, StagesStay DEF CheckBoundary, Tell, StagesInv
<1>5. CASE CheckLimit
  <2>1. /\ route' = route /\ left' = left /\ changes' = changes /\ stage' \in {"serve", "answered"}
        /\ answer' \in {answer, "429"}
        /\ counted' \in {counted, {}, Buckets(route.name, route.method)}
      BY <1>5 DEF CheckLimit, Tell
  <2>2. OneQuota(counted')
      BY <2>1, BucketsIsOne DEF StagesInv, OneQuota
  <2>3. EndOf(left, route.uses)' /\ OneQuota(counted)'
      BY <2>1, <2>2 DEF StagesInv
  <2> QED
      BY <2>1, <2>3 DEF StagesInv
<1>6. CASE Serve
    BY <1>6, ServeStages
<1>7. CASE Finish
    BY <1>7, StagesStay DEF Finish, Tell
<1>8. CASE ChangeRights
  <2>1. /\ route' = route /\ left' = left /\ counted' = counted /\ stage' = stage /\ answer' = answer
        /\ changes' = changes + 1 /\ changes < MaxChanges /\ changes \in Nat
      BY <1>8 DEF ChangeRights, BoundaryInv, RequestInv
  <2>2. EndOf(left, route.uses)' /\ OneQuota(counted)'
      BY <2>1 DEF StagesInv
  <2> QED
      BY <2>1, <2>2, BoundaryAssumption DEF StagesInv
<1>9. CASE Leave
  <2>1. /\ stage' = "none" /\ route' = NoRoute /\ left' = <<>> /\ counted' = {} /\ changes' = 0
        /\ answer' = "none"
      BY <1>9 DEF Leave
  <2>2. EndOf(<<>>, NoRoute.uses) /\ OneQuota({})
      BY DEF EndOf, OneQuota, NoRoute
  <2>3. EndOf(left, route.uses)' /\ OneQuota(counted)'
      BY <2>1, <2>2
  <2> QED
      BY <2>1, <2>3, BoundaryAssumption DEF StagesInv
<1>10. CASE UNCHANGED vars
    BY <1>10, StagesStay DEF vars, StagesInv
<1> QED
    BY <1>1, <1>2, <1>3, <1>4, <1>5, <1>6, <1>7, <1>8, <1>9, <1>10 DEF Next

(* Types of the way of a request: its route is one of the tables, what is  *)
(* left to be called is the end of what the route calls, at most one quota *)
(* counts it, and services have called nothing else.                       *)
THEOREM BoundaryTypeCorrect == Spec => []TypeOK
<1>1. Init => StagesInv
  <2>1. EndOf(<<>>, NoRoute.uses) /\ OneQuota({})
      BY DEF EndOf, OneQuota, NoRoute
  <2>2. Init => EndOf(left, route.uses) /\ OneQuota(counted)
      BY <2>1 DEF Init
  <2> QED
      BY <2>2, BoundaryAssumption DEF Init, StagesInv
<1>2. BoundaryInv /\ StagesInv /\ [Next]_vars => StagesInv'
    BY StagesStep
<1>3. BoundaryInv /\ StagesInv => TypeOK
  <2> SUFFICES ASSUME BoundaryInv, StagesInv PROVE TypeOK
      OBVIOUS
  <2>1. /\ left \in Seq(Names) /\ route.uses \in Seq(Names) /\ changes \in Nat
        /\ who \in {"operator", "anonymous", "gone"} /\ rights \subseteq Possible(who, route)
      BY DEF BoundaryInv, RequestInv, Fits
  <2>2. IsSuffix(left, route.uses)
      BY <2>1, EndIsSuffix DEF StagesInv
  <2>3. \A w : Possible(w, route) \subseteq Relevant(route)
      BY DEF Possible
  <2>4. /\ done # {} => stage \in {"serve", "answered"}
        /\ \A d \in done : d[1] \in ToSet(route.uses) /\ d[2] \subseteq Relevant(route)
      BY <2>3 DEF BoundaryInv, DoneInv
  <2>5. changes \in 0 .. MaxChanges
      BY <2>1, BoundaryAssumption DEF StagesInv
  <2> QED
      BY <2>1, <2>2, <2>3, <2>4, <2>5 DEF TypeOK, StagesInv, OneQuota
<1> QED
    BY <1>1, <1>2, <1>3, BoundaryCorrect, PTL DEF Spec


(***************************************************************************)
(* The composition                                                         *)
(***************************************************************************)

LEMMA PlatformStarts ==
    PlatformInit => Init /\ AddOnsInit /\ ThrottleInit /\ StartupInit
<1> SUFFICES ASSUME PlatformInit PROVE Init /\ AddOnsInit /\ ThrottleInit /\ StartupInit
    OBVIOUS
<1>1. Init
    BY DEF PlatformInit, BoundaryRests
<1>2. AddOnsInit
    BY DEF PlatformInit, AddOnsRest
<1>3. ThrottleInit
    BY DEF PlatformInit, ThrottleRests
<1>4. StartupInit
    BY DEF PlatformInit, StartupRests
<1> QED BY <1>1, <1>2, <1>3, <1>4

LEMMA PlatformSteps ==
    ASSUME [PlatformNext]_<<part, vars, addOnVars, throttleVars, startupVars>>
    PROVE  /\ [Next]_vars /\ [AddOnsNext]_addOnVars
           /\ [ThrottleNext]_throttleVars /\ [StartupNext]_startupVars
    BY DEF PlatformNext

(* A behaviour of the four side by side is one of each, so that what is    *)
(* proved of a component holds where the four are checked together.        *)
THEOREM PlatformComposes ==
    PlatformSpec => /\ Spec /\ AddOnsSpec /\ ThrottleSpec
                    /\ StartupInit /\ [][StartupNext]_startupVars
<1> QED BY PlatformStarts, PlatformSteps, PTL DEF PlatformSpec, Spec, AddOnsSpec, ThrottleSpec

(* The types of the four hold together, for any settings, bundles, callers *)
(* and bounds.                                                             *)
THEOREM PlatformTypes == PlatformSpec => []PlatformTypeOK
<1>1. TypeOK /\ AddOnsTypeOK /\ ThrottleTypeOK /\ StartupTypeOK => PlatformTypeOK
    BY DEF PlatformTypeOK
<1>2. StartupInv => StartupTypeOK
    BY DEF StartupInv
<1> QED BY <1>1, <1>2, PlatformComposes, BoundaryTypeCorrect, AddOnsTypeCorrect,
           ThrottleTypeCorrect, StartupCorrect, PTL

(* And so does everything else that is checked of them.                    *)
THEOREM PlatformSound ==
    PlatformSpec => [](BoundaryHolds /\ HooksObey /\ RegistriesHold /\ QuotaIsFair /\ StartsAreSound)
<1> QED BY PlatformComposes, BoundaryAlwaysHolds, HooksAlwaysObey, RegistriesAlwaysHold, QuotaKept,
           StartupCorrect, StartupInvSound, PTL
=============================================================================
