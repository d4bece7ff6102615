# MissionManager in TLA+

A verification development for MissionManager (`src/implementation`): TLA+
modules of all its parts that keep state, TLC runs on small instances, and TLAPS
proofs for every instance. Paths below are relative to `src/implementation/src` unless they start
with `acl/` or `auth/` (packages beside it, in `src/implementation`) or name a
document (`DESIGN.md` is `src/design/DESIGN.md`, `IMPLEMENTATION.md` is
`src/implementation/IMPLEMENTATION.md`). `PROJECT.json` maps every definition to
the lines it models.

    tlc -workers 2 -config LifecycleWork.cfg MCMissionLifecycle
    tlapm MissionLifecycleProofs.tla

## 1. The system

MissionManager stores missions (an immutable blueprint of objectives and
activities), copies a blueprint into an *assignment* for a person or a group,
follows its activities through a life cycle and awards badges. The REST server,
the Web App and the CLI are processes of their own on one database. A request
runs a use case in a worker thread, in one SQLAlchemy session and transaction
(`application/services/_shared.py` `transactional`, `infrastructure/repositories/session.py`).
Events go to an outbox table in the same transaction and are dispatched later.

| component | state | operations | interacts with | what makes it correct |
|---|---|---|---|---|
| Mission life cycle (`application/services/{mission,assignment,activity,badge,person}_service.py`, `domain/`) | missions, assignments, objectives, activities, awards, persons, groups, memberships | create/delete mission; create/assign/update status/delete assignment; assign/unassign/update status activity; award; add/remove person, group, member | repositories in its transaction; ACL seeding; outbox; plugin hooks before and after | statuses of the two levels agree; awards, ACL entries and events agree with the rows; policies bound assignments; outcomes are final |
| Repositories and transactions (`infrastructure/repositories/`) | rows, row locks, snapshots | get, save (an assignment's save replaces all of its activities), delete, `get_for_update` | every use case, concurrently | what was validated still holds when it is written; no lost update; deadlocks end |
| Transactional outbox (`infrastructure/event_publisher.py`) | `mm_outbox_events`, `mm_outbox_deliveries` | publish, `dispatch_consumer` | called from REST after a request, from a loop of the Web App, from the CLI after a command; handlers audit and realtime | at least once; nothing from a rolled-back use case; nobody starves |
| Realtime (`frontend/web/notifier.py`, `infrastructure/security/redis.py`, `/ws`) | connections, tasks of the event loop, a subscriber thread | connect, disconnect, broadcast, publish, subscribe | consumer of the outbox | every client that stays hears of every event, once |
| Application ACL and `acl/` | ACL entries | create/update/delete/replace entries, seed, cascade, `explain`/`is_allowed` | asked before each use case | entries follow resources and subjects; rights come from those who have them; a rule revoked stays revoked; nothing but reading is open to anonymous callers |
| Local authentication (`infrastructure/auth/local.py`, `application/services/auth_service.py`) | credentials: hash, failures, `locked_until`; issued and revoked tokens | first boot, login, record failure, reset, set password, logout | people; the boundary of REST and Web | failures are counted; a password that was changed stays changed; a logout lasts |
| Sessions and tokens (`auth/`) | accounts, sessions, refresh families | open, get (touches), rotate, revoke, sweep, change profile, status, password | gateways of REST and Web | what was revoked or disabled is refused; a family has one live token |
| Identity provider (`infrastructure/oidc/`, `application/services/auth_service.py`) | accounts at the provider, `mm_external_identities`, cached profiles | list, add, remove, log in, set up, cache | identity provider; people | an identity keeps its person; a setup or a login that fails leaves no trace that matters; the cache is fresh |
| Rate limiting (`infrastructure/security/`) | times of the calls per key, or a counter in Redis | check, collect, expire | middleware | neither more calls than the limit in a window nor a refusal without them |
| Plugins and extensions (`application/{plugin,extension}_registry.py`, `infrastructure/plugins/loader.py`) | approvals, hooks, routes and commands | load, register, unregister, fire, run | use cases | only a trusted plugin vetoes, and only before; keys and extensions agree; only what was approved is registered |
| Frontends (`frontend/`) | none of their own | 134 routes, pages and commands, 14 of them open to everybody | all of the above | boundary and services ask for the same rights |
| Configuration and bootstrap (`config.py`, `bootstrap/`) | settings, tables, first ACL entries | load, wait, create, seed, build, serve | everything | a start ends; what serves has rules and can authenticate |

What is hard to get right here, and hard to test: use cases that validate rows
loaded earlier and write them whole; a lock that is taken after the snapshot it
should protect; rows locked in two orders; cascades between activity and
assignment; a delivery recorded after its effect; processes that share a consumer
name; lockout counters, ACL entries, sessions and refresh tokens that are read, changed
and written back; calls to an identity provider that cannot be rolled back;
several processes that start, seed and die at once. `PROJECT.json` lists these
hazards at their lines.

## 2. The modules

| module | models | proved |
|---|---|---|
| `Statuses` | the statuses, their transitions, aggregation and cascade (`domain/`) | |
| `MissionLifecycle` | every use case of the life cycle, one action per service method | `MissionLifecycleProofs` |
| `AssignmentPromise` | what an assignment promises (abstract) | |
| `ConcurrentUseCases` | the use cases on assignments as transactions, statement by statement | `ConcurrentProofs` |
| `Outbox` | publishing, committing and dispatching events | `DeliveryProofs` |
| `AtLeastOnce` | what the outbox promises (abstract) | |
| `Realtime` | from the realtime consumer to each WebSocket | `DeliveryProofs` |
| `AccessControl` | the decision on a request; ACL entries, profiles and their administration | `AccessProofs` |
| `AuthSessions` | accounts, sessions and refresh tokens of the `auth` package | `SessionsProofs` |
| `LocalAccounts` | passwords, lockout, first administrators, access tokens | `AccountsProofs` |
| `DirectoryAccounts` | people at the identity provider and what binds them | `DirectoryProofs` |
| `DirectoryCache` | the cached profile of such a person | `DirectoryProofs` |
| `RequestBoundary` | the way of a request through a frontend, with all routes and their checks | `PlatformProofs` |
| `AddOns` | plugins and extensions of a process | `PlatformProofs` |
| `Throttle` | a quota, in memory and in Redis | `PlatformProofs` |
| `Startup` | how a frontend starts | `PlatformProofs` |
| `MCMissionLifecycle`, `MCConcurrentUseCases`, `MCOutbox`, `MCProgress`, `MCAccess`, `MCIdentity`, `MCPlatform` | the instances TLC checks | |

How they compose. `ConcurrentUseCases` is the life cycle again, at the grain of
statements instead of use cases; both take their rules from `Statuses`. Where one
component feeds another the interface is an assumption of the second: `Outbox`
says how often an event reaches the realtime consumer, `Realtime` starts there;
`AccessControl` says what a right is, `RequestBoundary` takes rights as given and
lets them change under a request; `Startup` seeds what `AccessControl` starts with.
`MCProgress`, `MCAccess`, `MCIdentity` and `MCPlatform` put components that share
no variable into one run: in each behaviour one of them (`part`) moves and the
others rest in an initial state, so a run is the union of theirs, not a product.

### MissionLifecycle

A use case is one transaction and, run alone, one step. The variables are the
tables: `missions`, `assignments` with `missionOf`, `status`, `assignee`,
`activityStatus`/`assignees` per slot of the blueprint, `awards` and the pointers
to them (`badged`), `persons`, `groups`, `members`, `acl`. `told` is what the last
event published says of the status of each target ("SILENT" before any);
`used` are the assignment identifiers ever drawn (uuid4 never repeats).
An action's guard is the conjunction of all checks in the method; a use case that
raises changes nothing and is no step. The cascade of
`ActivityService.update_status` belongs to that action, and a cascade that would
raise disables it. Seeding an ACL entry for the creator, and removing entries of
a deleted mission (its assignments included), assignment or person, belong to the
actions too. Titles, zones, nicknames and badge definitions carry no rule and are
left out. Plugins are a veto, which is a use case that does not happen.

### AssignmentPromise

Phases (none, draft, open, succeeded, failed, gone) and the work of each slot:
success only with all work done, lost work fails an open assignment in the same
step, an outcome stands until the assignment is discarded. Activities of a
*draft* may be done and those of a failed assignment too, which the code permits.
`MissionLifecycle` implements it (`KeepsPromise`, checked and proved); two
concurrent workers do not (`concurrent_lost`), but for those that never work on one
assignment at once (`ApartKeepsPromise`, proved).

### ConcurrentUseCases

A worker's request goes from place to place (`at`), one SQL statement or group of
statements a step: load and validate; `get_for_update`; count; `save()`'s own
`session.get` (`existing`); UPDATE of the row; DELETE and INSERT of all
activities; commit. `db` holds committed rows; `loaded` is the worker's aggregate
and its uncommitted writes. Three facts of the code and of SQLAlchemy give the
module its shape:

* `bootstrap/common.py:122` sets no isolation level. `SnapshotReads` is TRUE for
  MySQL (REPEATABLE READ: plain reads see the snapshot of the first one, while
  `FOR UPDATE` and writes see the latest row) and FALSE for PostgreSQL (READ
  COMMITTED: each statement sees what is committed).
* The identity map is weak and the repositories keep no row, so `save()` selects
  again. The flush updates the columns that differ from *that* row (`Flush`).
  An UPDATE that finds no row fails; a row `save()` does not find is inserted.
* On PostgreSQL a statement that waits for a row which is deleted and inserted
  anew under the same key finds nothing (`Overtaken`).

`create` takes the mission's lock before any plain read, `assign` after one.
Waiting is a disabled step; a cycle of waiting workers has a victim that is
rolled back (`Victim`), as both databases do. Abstractions: the reads of one load
are a single step, objectives are locked with their activities, InnoDB's gap
locks (more waiting, no other outcome) and SQLite (tests only) are left out.

### Outbox and AtLeastOnce

`Outbox` has the events in order of `occurred_at`, each with its use case, which
publishes one after another and commits or rolls back. A dispatcher (a process:
REST, Web, CLI) turns to a consumer: it takes the snapshot of undelivered rows
(`rest`), locks and fetches the next (`FOR UPDATE SKIP LOCKED`), hands it to the
handler, adds the delivery, and commits up to `Limit` rows. The unique key on
(event, consumer) bites at the flush, and fails the commit of the whole batch. A
handler that raises skips its row. An interruption (a crash, a lost connection)
can end any transaction; effects of the handlers, counted in `handled`, stay.
`Mute` dispatchers are the CLI's, whose audit handler does nothing
(`bootstrap/common.py:345`). `AtLeastOnce` says: an event is settled for a
consumer only after it was handled at least once, and only stored events are.

### Realtime

One process. `Dispatches` is the outbox's handler: with Redis it publishes and the
subscriber thread (`Receives`) hands over, without it does so itself; `mine` tells
whether another process dispatched. `Starts` and `Sends` are a task of the event
loop, which copies the set of connections and then sends to one after the other;
between two sends everything else may happen. A client that does not read
(`Stalls`) makes the task wait. `SubscriberEnds` is the first exception in the
subscriber thread, after which nothing listens.

### AccessControl

`Allowed` is `AuthorizationPolicy.explain` with the matching and inheritance of the
`acl` package: the entries on a resource and those above it, each satisfied by
subject, level, group or profile. An administration of an entry takes the steps of its
transaction (decide; find the row; write), so two administrators can decide
on the same row. `stale` marks rows written from a row that had changed since;
`assigner` names the operator of a step that changed a profile, for the property.
Adding and removing people and changing profiles are actions too.

### AuthSessions

The `auth` package's repositories are dictionaries, each call atomic. A service
method that reads a record, derives another and saves it is two steps (`Arriving`,
`Saving`); the record computed from is remembered, so a save may bring back what
another request has just taken away. A rotation saves twice, the token
rotated (`SaveRotation`) and its successor (`SaveSuccessor`), since `save_refresh_family`
is a loop without a lock; a family revoked in between gets a live successor all the
same, and counts as overlapped. Variables of the properties remember what was
ended (`ended`, `cut`) and which families saw overlapping saves (`overlapped`).

### LocalAccounts

`login_local` reads the credential, compares, and opens a second transaction to
record a failure or a success; a worker goes through these places with other
workers between them, on MySQL and on PostgreSQL. Time is in ticks, and a token's
life is rounded to seconds as JWT does (`Second`), which the revocation's TTL
inherits. `Restart` empties the memory of a process.

### DirectoryAccounts and DirectoryCache

In `DirectoryAccounts` a request to the identity provider is a step that cannot be rolled back: list and
bind (`Lookup`, `Insert`, `Bind`), add (`Post`), set up in four calls (`Post`,
`Promote`, `SetOidcPassword`, `ReadBack`) with their compensation, remove, log in.
Any call may fail before or after its effect (a password may be set although the
call that set it failed, and the account is taken back all the same), and `Crash` ends a request anywhere. The
provider changes accounts of its own accord (`Registers`, `Drops`). In
`DirectoryCache` the objects in the cache are the ones requests hold and change in place, and an
answer under way may be put into the cache after it was cleared.

### RequestBoundary

Data first: the services' checks (`Uses`), and for each of the 134 routes, pages
and commands of the three frontends the check at its boundary and the use cases
behind it. Then the way of one request: CSRF, identity, boundary check, quota,
services, each of which asks again; `ChangeRights` may happen in between.
Fourteen routes are open to everybody (`PublicRoutes`): signing in and out, one's own
password after a Web login, and the first administrator, through `/setup` and through
`person create-superuser`, which asks for no identity. The middleware lets these pass at
once; what keeps them in order is what their handlers look at: credentials, the
session's operator, or `admin_exists`. `NoAdministrator`, what `admin_exists` looks for, stands
among the rights: it is not one, but changes like one under a request.

### AddOns, Throttle, Startup

`AddOns` loads bundles in the order of their directories, registers those approved
as they are, then fires hooks (`Fire`, `Runs`) and takes plugins and extensions
out. `Throttle` has the sliding window with its garbage collection, and the Redis counter whose
`incr` and `expire` are two requests. `Startup` follows `create_..._app` of each
frontend: settings from environment and file (`Setting`), waiting for the
database, tables, seeding (look, then write), and the checks that come after it.

## 3. The runs

Passing:

| run | instance | shows |
|---|---|---|
| `lifecycle_work` | 1 mission, 1 assignment, 2 activities in different objectives, 2 persons, 1 group | `StatusesAgree` (COMPLETED means done, a failure reaches the assignment, work has assignees); awards, ACL entries and events agree with the rows; statuses never regress; the promise is kept |
| `lifecycle_limits` | 3 assignments under max_total 2, max_concurrent 1 | `max_total` bounds live assignments over creation and deletion |
| `concurrent_mysql` | MySQL, 2 workers, 3 assignments, 4 requests, all commands | `EveryQueueMoves` (of those who wait, somebody waits for one who can go on, or is a victim); `max_total` holds; a deleted assignment stays deleted; every request ends, deadlocks included |
| `concurrent_postgres` | PostgreSQL, 2 workers, 2 assignments, 5 requests: create, assign, staff, delete | `max_concurrent` holds |
| `outbox_race` | 3 events in 2 use cases, REST and Web, 1 fault | `HandlingSound` (nothing from failed use cases, no delivery without handling), bounded repetition, the outbox implements `AtLeastOnce` |
| `progress` | outbox: 2 events, batches of one row, 2 faults; realtime: 2 clients, 2 events, with and without Redis; startup: 2 frontends, 2 starts each, a database that comes or goes once | every committed event is delivered to both consumers; every client that stays hears of every event, once; every start ends |
| `access` | entries: 2 workers, 2 people, the 7 default entries and 2 more (a DENY on missions, an ALLOW of MANAGE_ACL, and a DENY of it that keeps others out), 4 requests, both databases; sessions: 2 threads, 2 sessions, 3 refresh tokens, 6 requests | `RulesComeFromManagers` (a right to administer the whole system comes from an operator who has it, a changed profile from one who may assign profiles, himself and not somebody else, or from the removal of a person whose DENY kept others out; on MySQL a rule revoked stays revoked); anonymous callers are admitted only by stale writes; `AccountsDecide` (a disabled account and old rights are refused at once), `SessionsEnd`, `OneLiveToken` |
| `identity` | local: 2 people, 2 workers, 2 failures allowed, 4 requests; provider: 2 accounts, 3 identifiers, 3 requests; cache: 2 processes, 2 threads | `CredentialsHold` (failures are counted exactly but for stale saves, founders keep credentials), `RevokedStayOut`, `LockoutSavesAreLocal`; `AccountsSound` (an administrator that was set up has a password, logins lead to people, the removed stay away), `IdentityFixed`; `CacheIsFresh` |
| `platform` | every route with 2 changes of rights; 3 bundles of 5, any approvals; limit 2 in a window of 2, 5 calls; all three frontends under 2 working installations and everything that differs from one in a setting | `BoundaryHolds` (anonymous callers change nothing, but that they sign in or out and create a first administrator after the same request has found none; rights lost in time are refused, who is admitted is served, changes count against the quota), `HooksObey`, `RegistriesHold`, `QuotaIsFair`, `StartsAreSound` |

Violated, each a disagreement listed with its quotes as a finding:

| run | what happens |
|---|---|
| `concurrent_lost` | a stale `save()` undoes a terminal status |
| `accounts_password` | PostgreSQL: a failed login that overlaps a change of the password writes the old hash back |
| `directory_orphan` | a setup that fails between two calls to the provider leaves an account there |

Where a property excuses something, the excuse is what the code does not keep, and
its text says so (`stale`, `overlapped`, `database = "MySQL"`, a client that does
not read). The models contain more behaviours of that kind, which no run is spent on:

* *Assignments.* On MySQL `assign` counts in a snapshot older than its lock, and
  `update_status` makes a draft ASSIGNED without counting: `max_concurrent` is
  exceeded either way. People staffed in a draft may be outside the perimeter of
  the later assignee. `update_status` leaves an operative assignment without an
  assignee (entities.py:190); a started activity leaves its draft UNASSIGNED
  (DESIGN.md:266); deleting an assignment gives its place under `max_total` back,
  which DESIGN.md:264 calls permanent. Two workers can assign one draft, or start an
  activity while its only assignee is removed. On PostgreSQL an `assign` inserts a
  draft again that was deleted after it was loaded.
* *Events.* Two dispatchers can handle one event each without any fault, since the
  lock is newer than the snapshot. The CLI's audit handler does nothing but settles events for
  all processes (`Mute`).
* *Realtime.* A client that does not read holds up those after it; without Redis
  the sockets of other processes hear nothing; the subscriber thread is not
  started again; rights are looked at once, when `/ws` connects.
* *Rules.* Two administrators can together break INV-2 (DESIGN.md:919). Entries on persons,
  objectives and activities are never removed. Updating an entry to DENY or
  deleting it ignores its protected flag; the bootstrap refills only an empty
  table, so the last manager can vanish. Two processes can seed twice. Removing a person
  removes the entries that name it (acl_service.py:190), a DENY joined by OR on `SYSTEM:global`
  among them: whoever that kept from MANAGE_ACL has it again, although the one who
  removed the person needed DELETE only, and DESIGN.md §10.11 (4) leaves such entries to
  those with MANAGE_ACL (`DenyWentWithPerson`).
* *Identity.* The claim of the initial administrator in `system_state_repository.py`
  has no caller, so two setups make two administrators (DESIGN.md:838). A removed
  person who logs in again through the provider is provisioned anew. A rename that
  starts from a stale cached person sends the old `acl_level` back to the provider along with
  the name (person_repository.py:213, 295); `CacheIsFresh` counts what is sent as known again. The TTL of a
  revocation is rounded down. `must_change_password` is enforced after a Web login only.
* *First administrators.* `admin_exists` and `create_initial_admin` are two transactions: an
  anonymous request that has found none goes on although somebody else has created one
  since. `AnonymousChangesNothing` asks only that it has looked.
* *Platform.* The in-memory limiter ignores the configured `window_seconds`; the Redis window is
  fixed and counts refused calls. An extension manifest without a path ends the whole start
  with a KeyError; a hook point named twice runs twice. The Web App without a secret key fails after
  it has seeded the database, and the CLI needs the key too.

**Bounds.** One mission suffices for statuses: use cases touch one assignment,
except deleting a mission, which the limits and the proofs cover with several. Two
activities in two objectives reach every aggregate; two persons and a group reach
every perimeter. Three identifiers are one more than `max_total`. Two workers are
enough for every stale read; four requests create past the limit, delete and
create again, or staff, start and steer an assignment into a deadlock. Three events
in two use cases and batches of two give a batch that mixes use cases and one that
is left over; one fault reaches every partial commit. Two clients and two events let a
connection fail in the middle of one task and between two. Two entries more than the
bootstrap's let one be created and one be changed under it. Two refresh
tokens are a rotation and the third a rotation that overlaps it; two sessions are one
before and one after a change of password. One token and a life of six ticks, three
seconds, reach every rounding. Three identifiers for two accounts are one more than bindings.
Limit and window 2 with clock 5 let the window slide past a full one. Deadlock checking is
off where behaviours end because identifiers, requests or events are used up
(`MaxRequests`, `EventCount`, `MaxFaults`, `MaxEvents`, `SessionIds`, `RefreshIds`, `MaxCalls`,
`MaxEra`, `MaxTokens`, `MaxTime`, `MaxIds`, `MaxVisits`, `MaxChanges`, `MaxFound`,
`MaxClock`, `MaxStarts`, `MaxFlips` are the bounds, all constants). Symmetry is used
for workers, people and identifiers in runs without liveness, where the module treats them alike.

**Fairness.** In `Outbox` each dispatcher that has begun continues (threads of a
running process), and the loops, that is the Web App's `dispatch_loop`, begin again
for ever; REST and CLI, which dispatch only after a request, are not
assumed to. Faults are not fair and are finite. In `ConcurrentUseCases` a worker
that has started continues, by its own steps or by the database's choice of a
victim; requests are not assumed to arrive. A worker that waits for a lock gets
it because the requests that could overtake it are finite. In `Realtime` the event
loop runs its tasks, a connection that was closed is noticed, and the subscriber
reads while it lives; clients promise nothing. In `Startup` a start goes on by itself; nobody
has to start, to kill, or to mend the database. The components not named here have
no fairness and no liveness property.

## 4. The proofs

`MissionLifecycleProofs` proves for all sets of missions, assignments, activities,
persons and groups and every policy (`LifecycleAssumption`: types of the constants):

* `LifecycleCorrect`: `LifecycleInv`, the inductive invariant, holds. Its
  properties need each other: events tell the status only if types hold and
  statuses only move along transitions; awards match their targets only if an
  assignment that is absent is blank (`AbsentIsBlank`) and an identifier not drawn
  has no awards or events (`UnusedLeftNoTrace`). `TypeCorrect`, `StatusesSound`,
  `AwardsSound`, `OutboxSound` are its parts.
* `StatusesNeverRegress`, from a lemma that what a step keeps of a row is a legal
  transition (`RowsKept`); `EntriesSound` and `TotalSound` with invariants of
  their own (ACL entries; finite sets of identifiers and their cardinalities).
* `PromiseKept`: refinement of `AssignmentPromise`, by one case per use case.

`ConcurrentProofs` proves for any workers, assignments, commands and bounds, given
well-formed requests and a start within the policy (`RequestsAssumption`):

* on both databases `ConcurrentCorrect` (`ConcInv`: which command can be at which
  statement, what it has locked there, that the identifier of a creation is
  nobody else's) and `ConcurrentTypeCorrect`, which includes that no row is locked
  twice;
* for finitely many workers `QueuesMove` (`EveryQueueMoves`): of the sets of workers that
  wait only among themselves a smallest one has no member nobody waits for, and that is
  what the database looks for (`SomeDeadlock`). And for any workers `RequestsAdvance`: every
  step begins a request or brings one strictly nearer to its end, and none further away
  from it (`Ahead`). These are what `EveryRequestEnds` needs apart from fairness;
* assuming `SnapshotReads` (MySQL), `HeldCorrect`: what a worker has loaded was
  live, and a row it has updated is kept live by its lock until it commits. From
  it `DeletedIsGone` (nothing deleted comes back) and `TotalHolds` (`max_total`):
  a creator counts under the mission's lock, and between its count and its commit
  nobody else can insert, so the counts it has seen can only be too high
  (`RoomInv`). On PostgreSQL the first is false, and with it the second;
* `TotalHoldsUnlessRevived`: on PostgreSQL the second fails for that reason only. In
  every behaviour in which nothing deleted comes back, `max_total` holds;
* on both databases, `ApartNothingIsLost` and `ApartTotalHolds`: what `concurrent_lost` shows
  takes two transactions on *one* assignment. In a behaviour in which each assignment is
  worked on by one transaction at a time (`OneAtATime`), terminal statuses are final,
  what is deleted stays deleted, and `max_total` holds, however many transactions work on
  the mission. What a transaction has loaded then still agrees with what is
  committed (`OwnInv`). `ApartKeepsPromise` goes on to the refinement of `AssignmentPromise`
  from an empty database: what the transaction has written so far is what its command
  is for, computed from the row that is still there (`MadeInv`), so every
  commit is a step of the promise or a stutter, one lemma per command (`CommitMoves`). So a
  lock on the assignment's row, taken with the load, would be enough;
* assuming PostgreSQL and that nobody requests a status (`NoStatusRequests`),
  `ConcurrentHolds` (`max_concurrent`): a worker the policy has admitted keeps the
  mission locked until its commit, so the room it has found is not taken by
  another (`PolicyInv`). With status requests it is false: a stale `save()` of
  one can make an assignment operative again that had ended, and no policy is asked.

`DeliveryProofs` follows an event. For any events, use cases, dispatchers, limit and
faults it proves `OutboxCorrect` (`OutboxInv`: use cases commit as a whole, the rows
a dispatcher holds are stored, a delivery waiting for its commit was handled) and from it
`OutboxTypeCorrect` and `EffectsSound`; and, assuming no CLI dispatcher
(`Mute = {}`), `HandlingIsSound` and `OutboxPromiseKept`, the refinement of
`AtLeastOnce`. The assumption is needed: the CLI settles events nobody audits.
`RepetitionsBounded` accounts for every time a consumer acts on an event: one was
recorded, each fault explains one, and each of the others was in a batch that lost
the race for an event to a dispatcher that won it, which happens to a dispatcher once an event.
For any sockets and events it proves `RealtimeTypeCorrect` and
`NobodyToldTwice`. `RealtimeInv`: what is in the channel or not handed over has no
task; a task has before it, once each, only clients that have not got the event;
and the lines of what each client is waiting for agree with the tasks.

`AccessProofs` proves for any people, resources, entries, inputs and bounds, given
inputs of the right types and default entries that pass the validation
(`AccessAssumption`, `DefaultsAssumption`), `AccessTypeCorrect`, `OnlyStaleAdmits`, on MySQL
`RevokedForGood`, and `ManagersFromManagers`. `AccessInv` says what a request has decided: what it will write
was validated, the entry it names was drawn (a new one cannot take its
identifier), and on MySQL it has found the row it read, so that it never
restores one. Without the second part an update could fall on a later entry; without
the third `RevokedForGood` is false, as it is on PostgreSQL. For `ManagersFromManagers`
it must also be known what a request may touch (`TargetsInv`): the entry it
writes has the resource the decision was about, and whoever had no right to `SYSTEM:global` then
touches concrete resources only. What the decision of everybody else reads then stays the
same, and somebody who gains the right by a step gained it from that step's entry
or profile; a profile is assigned in the one step that asks its operator for the right to
(`assigner`). A person who is added names no entry, because the
identifier is fresh (`Unnamed`). `RulesFromManagers` is the conjunction the run checks.

`SessionsProofs` proves for any threads, accounts, profiles and bounds
`SessionsTypeCorrect`, `AccountsAlwaysDecide`, `SessionsStayEnded` and `OneTokenLives`.
The properties speak of what is stored, but a save writes what was read, so
`SessionsInv` says of every copy in a request's hands what is still true of it
(`CallsInv`): a changed account has the next version of the one read; rights issued
under the version an account has are its rights (`Current`); a session read is the
one stored until it is ended; a token, and every member of a family to be revoked,
is of the family it was read in. Between the two writes of a rotation the family has no live
member, unless it overlapped, and the token is still as the first write left it, so the
successor is the one member that lives (`PendingInv`).

`AccountsProofs` proves for any people, limits, clocks and bounds
`AccountsTypeCorrect`, `CredentialsAlwaysHold`, `RevokedAlwaysOut` and, of MySQL,
`LockoutSavesLocal`. `AccountsInv` says how the copy a login is about to save was
made from the credential it read (`CountOf`), that a credential once there stays, and that
a token expires on a whole second (`TokensInv`). The last is what makes the
rounding add up: a token in force has some of its life left, and what is kept of
that is cut by less than two seconds.

`DirectoryProofs` proves for any accounts, visitors, levels and bounds
`AccountTypes`, `AccountsHold` and `IdentityKept`. `DirectoryInv` says of each request what is
known of it between two calls to the provider: the identifier it has drawn and not yet
committed is nobody else's (`ReservedOK`, `Apart`), the snapshot it reads from was
so once (`Was`), at each place what it has written so far (`Shape`, `RowsOK`), and that an
administrator in the making is none before the call that promotes and has a password
when it is read back (`AdminOK`). For any processes, threads, levels and times it proves
`CacheTypes` and `CacheHolds`. `CachedInv`: an answer under way is no older than its
way takes (`AnswersAreRecent`), and no two processes refer to one Person object
(`Separate`), without which a save in one process would change what another serves.
That the model's pool always has an object for a new answer is counted out (`FreshIsFree`).

Three runs check several components at once, which share no variable. What they check is
proved of the composition too, not only of its parts: `AccessTypes` and `AccessSound`
(`SessionsProofs`), `IdentityTypes` and `IdentitySound` (`DirectoryProofs`), `PlatformTypes` and
`PlatformSound` (`PlatformProofs`). The composed specification implements the
specification of each part (`AccessComposes`, `IdentityComposes`, `PlatformComposes`), and then every
theorem about the part is one about the whole. At the platform a call that the boundary
lets through is a call of the quota, in one step; there the step is matched with one of each.

`PlatformProofs` proves what is around the use cases.

* *Startup*, for any frontends, environments, files and bounds: `StartupTypeCorrect`,
  `StartsSound`. `StartupInv` remembers in the stage of a
  start which checks it has passed (`ReachedMeans`), and relates what it saw of the
  ACL table to what is there now (`LookedMeans`): an empty table that has been filled
  since was filled by somebody who was seeding at the same time.
* *Throttle*, for any callers, limit, window and times: `ThrottleTypeCorrect`, `QuotaKept`.
  In memory, what a key no longer holds is older than the window as long as no call waited
  over a tick (`MemoryInv`). In Redis the counter lives in generations that begin at
  least a window apart, and a generation lets through no more than it counts
  (`RedisInv`); a period of one window meets two of them, hence the factor two. That the
  counter is not ahead of the calls made is `CallsCounted`.
* *AddOns*, for any bundles, points, versions and approvals: `AddOnsTypeCorrect`, `HooksAlwaysObey`,
  `RegistriesAlwaysHold`. How far a loader has come tells what is registered (`LoadingInv`), what
  is at the hooks is registered, in order and as often as declared (`HooksInv`), and
  what has been fired agrees with what is still to run (`FiringInv`). Insertion and removal by positions need no
  induction: the rank of a position is a bijection to the positions of the result
  (`OrderOfPositions`).
* *RequestBoundary*, for any number of changes of rights: `BoundaryTypeCorrect`, `BoundaryAlwaysHolds`.
  Every route agrees with the services it calls (`Fits`), shown table by
  table for all 134, or is public; what a request has passed stays justified when rights
  change (`PassedInv`), because the public is never given more than a right to read; and what
  services did they were allowed to when they looked (`DoneInv`).

## 5. Only model-checked, and why

* Liveness: `EventuallyDelivered`, `EverybodyHears`, `EveryRequestEnds`,
  `StartsEnd`. TLAPS does not reason about fairness here. Of `EveryRequestEnds` the parts
  that are safety are proved (`QueuesMove`, `RequestsAdvance`).

Every invariant and action property that a passing run checks is stated by a theorem.
`max_concurrent` on PostgreSQL with status requests in play is neither checked nor proved: it does not
hold there.

## 6. Not modelled

* Of the life cycle: titles, nicknames, zones, badge definitions (no rule depends
  on them).
* Of concurrency: badges, ACL entries and deletions of missions in overlapping transactions, InnoDB's
  gap locks, and SQLite, which the tests use but deployments do not.
* Of the outbox: the handlers' own I/O; the order in which a consumer sees events of different use cases.
* Of external identities: that the rows of a list are selected and inserted one by one
  (`Lookup` and `Insert` take them together; the transaction commits or rolls back all of
  them either way, and what is left out is a deadlock of two lists). Of the life cycle's
  transactions run alone: a part of one that is rolled back. A use case is one step there, so that
  its writes and its events stand or fall together is assumed, from `transaction` in `session.py`.
* Of the ACL: `replace_entries`, which nothing calls, and the in-memory stores.
* Of authentication: hashing, the password policy, JWT formats, the token exchange with the provider, PKCE,
  and the groups and the bootstrap service of the `auth` package, which the application does not use; groups at the
  provider follow the protocol of people.
* Of the frontends: forms, rendering, pagination, error bodies, the style sheet, and
  `/ws`, which is part of `Realtime`. Of the configuration: settings no
  step of a start fails over.
* The example plugins and extensions (samples), the schema migration (run by hand,
  on an installation that is down) and the tests.

Of what is left, the next worth modelling is the life cycle's ACL entries and badges at the
grain of statements, in `ConcurrentUseCases`.
