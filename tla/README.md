# Formal models of mss-boot-admin

TLA+ specifications of the concurrent and failure-handling core of
mss-boot-admin (paths below are relative to `src/`), the TLC configurations that
check them on small instances, and proofs that TLAPS checks for every instance.

1. [What the system is](#1-what-the-system-is): inventory of its components
2. [Modules](#2-modules): how each corresponds to the code
3. [Runs](#3-runs): what TLC checks, bounds, fairness
4. [Theorems](#4-theorems): what is proved, and by which argument
5. [Where the code and its documentation disagree](#5-where-the-code-and-its-documentation-disagree)
6. [What is not modelled](#6-what-is-not-modelled), and the plan

`tlc -config MCResourceGraph_start.cfg MCResourceGraph.tla` runs one
configuration, `tlapm ResourceGraphProofs.tla` checks one module of proofs.
`PROJECT.json` maps every definition to the lines it stands for.

## 1. What the system is

mss-boot-admin is an administration platform in Go: a runtime library
(`mss-boot`), the administration service on top of it (`admin`), a generator and
development tool (`internal/mss`, `cmd`), a web front end and templates. The
parts whose correctness depends on order, concurrency or failure are these.

| Component | State it keeps | Operations | What is hard | What makes it correct |
|---|---|---|---|---|
| Resource graph, `mss-boot/runtime/resource` | nodes acquired and closed, start/run/close progress, the active close generation | Build, Start, Run, Health, Ready, Close | any of them called at once, providers failing anywhere, contexts expiring, Close retried | dependencies first on the way up and last on the way down; no provider closed while used or twice; a nil Close means nothing is left; Close returns |
| Event bus, `mss-boot/runtime/eventbus` | subscribers and their revisions, last revision, delivery token, health errors, admitted operations | Subscribe, Publish, PollOnce, Run, Reconcile, Health, Start, Close | deliveries of different revisions overlap, handlers fail, notifications are lost or repeated, replicas overwrite one key | once and in order per subscriber, failures visible until repaired, reconciliation converges, closed means quiet |
| Derived cache, `mss-boot/runtime/cache` | flights, epochs, pending tokens, counter of operations; in the provider a generation and entries per dataset | Load, Invalidate, database bypass, Close | an invalidation races loaders here and in other processes; the provider write fails after the database committed | no data older than an invalidation is served after it; a failed invalidation is not forgotten; one waiter's cancellation is its own |
| Redis resource, `mss-boot/runtime/redisresource` | start state, active callbacks, the one close generation | Start, Use with a lease, Ready, Close | Close during construction of the client, a deadline while callbacks drain, leases kept too long | the client is closed exactly once and not under a callback; a lease ends with its callback |
| Challenge service, `mss-boot/runtime/challenge`, `internal/redisbridge/scripts.go` | in Redis: pending reservation, active challenge, attempts, quotas, remembered verdicts | BeginIssue, Commit, Abort, Verify | retries of answers that were lost, expiry between two scripts, a newer challenge between reading the verifier and the verdict | at most one active challenge, at most one success, attempts bounded, retries idempotent |
| Server manager, `mss-boot/core/server` | registered runnables, started flag | Add, Start | the first exit races cancellation, the graceful timeout races the last result | the first exit ends all, no result is lost before the timeout |
| Task server, `mss-boot/core/server/task` | cron entries, storage, table of loaded schedules | UpdateJob, RemoveJob, Start | a step of several fails | schedule, storage and table agree |
| Authorization policy, `admin/service/authorization*.go` | database: role and global revisions, rules; memory: enforcer and the revision it holds | EnsureCurrent, ReplaceRole, DeleteRole, Open, Reconcile, Close | commits during a reload, propagation that fails after the commit | the enforcer is marked current only for what it holds; one of two replacements from one revision wins |
| Blueprint transaction, `internal/mss/blueprint` | destination files, lock and manifest, transaction marker | plan, apply, roll back | a crash or a failing restore between two file commits | the pair matches, or the marker says it does not |
| Blueprint upgrade, `internal/mss/blueprint/upgrade.go`, `plan.go` | what the plan saw of each file, backups | plan, apply, undo | the developer edits between plan and write | edits and unknown files survive |
| Development process manager, `internal/mss/dev` | state files, processes, lifecycle lock | Start, Stop, watching, Status | processes that die between inspection and signal, ids used again, partial start | no foreign process is signalled, a running service stays recorded |
| Module generator, `internal/mss/generator` | a plan with the preimage of each path | compare, preflight, write | edits and other generators between plan and write | a conflict writes nothing, a success is complete, nothing unplanned is replaced |
| WebSocket tickets, `admin/pkg/wsticket` | tickets with expiry in Redis or memory | Issue, Consume | two consumers | at most one consumer |
| Sign-in and binding, `admin/apis/oauth.go`, `admin/pkg/oauthstate`, `admin/models/user.go` | attempts, accounts, identities and their owners, sessions, browser cookies | authorize, callback, bind, prove, register, log in, disconnect | a callback of another browser or session, two bindings of one identity, two registrations of one address | an attempt completes once and for whom it was issued; an identity has one owner |
| Sessions, `admin/service/session.go`, `account_security.go`, `admin/pkg/sessioncache` | session rows, cached copies, failed guesses, credentials | Issue, Lookup, Revoke, password and binding changes | back-fill of the cache after a revocation, two operations that each take a way to log in | a revoked session is refused, one way in remains |
| Versioned configuration, `admin/service/app_config.go`, `user_config.go`, `theme.go` | rows, a revision per resource, cached projections | read, save, set, patch | commits between the reads of one snapshot | no torn snapshot, no lost update, caches exact |
| Presentation profiles, `admin/service/presentation_profile.go` | a draft, append-only revisions, idempotency keys | replace, publish, roll back | the same request twice at once | one revision per request, of what its client saw |
| Options, `admin/service/option.go` | dictionaries, their earlier versions, cached rows | create, update, delete, lookup | two managers between check and write, a fill after an invalidation | no change is lost, names unique, entries follow commits |
| Department tree, `admin/service/authority_hierarchy.go` over `mss-boot/pkg/response/actions/gorm` | departments with parents, scopes of posts | create, move, delete | validation before the write | rooted tree, no dangling reference |
| Query cache, `mss-boot/pkg/config/storage/cache/redis.go` | a generation per table in Redis, entries under it | Query, RemoveFromTag, the generic handlers | commits and invalidations between lookup, confirmation, query and save | an answer is no older than an invalidation before it |
| Business registry, `admin/business/registry.go` | modules, their migrations, a frozen flag | Add, Freeze, Mount | callbacks that re-enter, panic or outlive their Add | each module whole or not at all, nothing after Freeze |
| Migrations, `mss-boot/pkg/migration`, `admin/internal/cmd/migrate` | registrations, the ledger of versions | preflight, apply, record | several commands, kills, databases that commit their DDL | applied once and in order, as the ledger says |
| Configuration at run time, `admin/config` | database, queue, challenge runtime, object storage, each published, owned or retiring | InitContext, OnChange, CloseContext, leases | replacement while operations borrow, a close that times out | nothing published is closed, nothing open is unowned |
| Managed Kafka queue, `mss-boot/pkg/config/storage/queue/kafka.go` | consumers, producer, closing flags, error channel | Register, Append, Start, Close | registration cancelled while dialing, close under sends | complete close, true answers, offsets only after handling |
| Authorization event runtime, `admin/service/authorization_eventbus.go` | flags, its bus, its loop, the publisher | Open, Start, Close | Close while the loop starts, two runtimes on one service | the publisher's bus is open, closed is withdrawn |
| WebSocket hub, `admin/center/websocket` | clients, bounded queues | register, broadcast, send to a user, clean up | two pumps, the cleanup and message goroutines reach one client | nobody sends on a closed channel, broken connections end |

They interact by calls, except where said: the resource graph owns the Redis
resources and starts, inspects and closes them as providers; the cache and the
event bus borrow Redis through its leases; the challenge service runs its scripts
over the same resource; the authorization policy publishes its committed revision
on an event bus, whose handler calls back into `EnsureCurrent`, and reconciles
through it with the database; the server manager runs the periodic loops (event
runtime, task server, listeners, the hub) and stops them together; processes of
one installation share only the database and Redis.

The remaining parts (HTTP handlers, GORM models, configuration sources, text
generation, command lines, the web client, templates) are sequential or pure input
and output; `PROJECT.json` lists each with the reason.

## 2. Modules

| Module | Models | Extends |
|---|---|---|
| `ResourceOwnership` | what a graph promises about ownership, abstractly | |
| `ResourceGraph`, `MCResourceGraph` | `graph.go`, `run.go`, `close.go`, `check.go` | instantiates `ResourceOwnership` |
| `ResourceOrder` | `Build`: validation and topological order | |
| `DerivedCache`, `MCDerivedCache` | `cache.go` | |
| `EventBus`, `MCEventBus` | `core.go`, `redis.go`, `memory.go`, `event.go` | |
| `RedisResource` | `runtime/redisresource`: `lifecycle.go`, `lease.go` | |
| `ServerManager` | `core/server/server.go` and the servers it runs | |
| `TaskServer` | `core/server/task`, `admin/models/task.go`, the calls of `admin` on them | |
| `Hub` | `admin/center/websocket` | |
| `AuthorizationPolicy` | `admin/service/authorization.go`, `config_revision.go` | |
| `EventRuntime` | `admin/service/authorization_eventbus.go` | |
| `Challenge` | `runtime/challenge`, `internal/redisbridge/scripts.go` | |
| `ConfigRuntime` | `admin/config`: `config.go`, `runtime_challenge.go`, `object_storage.go` | |
| `KafkaQueue` | `storage/queue/kafka.go`, its runnable in `admin/internal/cmd/server` | |
| `MCServers` | one of the nine above per behaviour | them |
| `VersionedConfig` | `app_config.go`, `user_config.go`, `theme.go`, `config_revision.go` | |
| `PresentationProfile` | `presentation_profile.go` | |
| `Sessions` | `session.go`, `account_security.go`, `sessioncache`, `middleware/auth.go` | |
| `Options` | `option.go` | |
| `Hierarchy` | `authority_hierarchy.go`, `actions/gorm` | |
| `QueryCache` | `storage/cache/redis.go`, `actions/gorm` | |
| `Snapshots`, `MCUpgrade` | `internal/mss/blueprint`: `transaction.go`, `snapshot.go`, `upgrade.go`, `plan.go` | |
| `DevManager` | `internal/mss/dev/manager.go` | |
| `Generation` | `internal/mss/generator/generator.go` | |
| `BusinessRegistry` | `admin/business/registry.go`, `migration/make.go` | |
| `Migrations` | `mss-boot/pkg/migration`, `admin/internal/cmd/migrate` | `BusinessRegistry` |
| `SignIn` | `apis/oauth.go`, `oauthstate`, `models/user.go`, `user_oauth2.go`, `email_identity.go` | |
| `MCRecords` | one of the twelve above, or `ResourceOrder`, per behaviour | them |
| `ResourceGraphProofs` | theorems about `ResourceGraph`, and its refinement | `ResourceGraph` |
| `DerivedCacheProofs` | theorems about `DerivedCache` | `DerivedCache` |
| `EventBusProofs` | theorems about `EventBus` | `EventBus` |
| `LifecycleProofs` | theorems about `TaskServer`, `ServerManager`, `ConfigRuntime` | the three |
| `MessagingProofs` | theorems about `AuthorizationPolicy`, `EventRuntime`, `Hub`, `KafkaQueue` | the four |
| `ServersProofs` | theorems about `RedisResource` and `Challenge`, and about `MCServers` | `MCServers`, the two above |
| `StoresProofs` | theorems about `VersionedConfig`, `PresentationProfile`, `Hierarchy`, `Options`, `QueryCache`, `Sessions`, `ResourceOrder` | the seven |
| `RecordsProofs` | theorems about `Snapshots`, `DevManager`, `Generation`, `BusinessRegistry`, `Migrations`, and about `MCRecords` | `MCRecords`, `StoresProofs` |

Conventions shared by all of them. A *caller* makes one call, with a context of
its own that the environment may end when it is listed as able to. What a mutex
protects is one step; a provider command, a handler, a loader, a database read
and a wait are steps of their own, so that everything the Go scheduler may
interleave does interleave. Failures are nondeterministic outcomes of the step
that may fail. Wording of errors and their redaction are left out; whether an
error is reported is not. History variables (marked so) only record.

Beside some definitions stands a second form nothing refers to (`SignalsPid` beside
`MaySignal`, `LeasesIgnored`, `ConfirmedAnyway`, `NoRecheck`, ...): the way that
line of code could plausibly be wrong. Putting it in place of the definition
violates the property it belongs to; that is how it was made sure that each
conjunct of a property says something about the code.

**The two harnesses.** `MCServers` and `MCRecords` check components that share no
state in one run: `subject`, chosen in the initial state, names the one that acts.
The others rest - in `MCServers` in a state of their own in which no fair action is
enabled (so that fairness of all is fairness of the one), in `MCRecords` with their
variables 0 or as they are in the beginning. The state space is the sum, not the product, of the parts, and each
property speaks of the subject's part.

### ResourceGraph

Node `i` is the i-th node in the order `Build` computed, so a dependency has a
smaller index (`DepsAssumption`; `ResourceOrder` shows that `Build` delivers it).
`acquired` is what `graph.go` appends to as soon as a provider's Start was
*invoked*, because a failing Start may have acquired; `closedNodes` are the nodes
whose Close returned nil. `startDone` and `runDone` are the Go channels,
`inspections` the callers behind the code's counter, `activeClose` the owner of
the one close generation. A Start steps through `next`, `starting`, `readying`
for each node and, if it fails, rolls back through the same pass (`release`,
`closing`, `finish`) Close uses. A Close goes through `cancel`, `awaitStart`,
`awaitRun`, `drain`, `claim` and then owns a pass or joins the one under way.
Runner goroutines have states of their own (`runner`): running, returned, sent.

### ResourceOwnership

Stages `new`, `starting`, `serving`, `draining`, `closed` and two sets, owned and
released. The graph implements it (`ImplementsOwnership`) by the mapping `Stage`:
the graph drains from the first Close request, or from the moment a Start begins
to roll back. What the abstraction says in one line and the code in four files
is that acquiring and releasing never mix.

### ResourceOrder

`Build` for every declaration over `Names`: rejected if a name depends on itself
or on an undeclared one, else Kahn's algorithm with counters and a sorted ready
list. A state machine, so that the counters are checked as the code keeps them.

### DerivedCache

One dataset (datasets share nothing but the counter of operations), several
instances over one provider. A call's name doubles for what the call creates: the
flight of a Load that found none, the token of an Invalidate. A value is the
version of the database it was read from. A flight walks `pending`, `repair`,
`clear` (writing a token an earlier Invalidate could not), `generation`, `read`,
`load` or `authority`, `store`, `end`; the steps are those of `execute`,
`generation`, `read`, `write` and `runFlight`. A provider command may fail before
or after it took effect. `floor` records the authority when an invalidation took
its token, `after` which invalidations a Load has to observe: those its own
instance had begun when it was called, and, since epochs are local to an instance,
those any instance had reported done when the flight that serves it began.

### EventBus

One bus; the other replicas are its environment. They share one key, read and
written by separate commands, so that a read may return any committed revision
or none: the model keeps no value for the key (`Stored`). An event is its
revision. An operation is admitted (`Begins`), does what its method does, and
ends (`Ends`); `deliverActive` is `acquire` (the token), `deliver`, `handling`
per target, `Settles`. `late` marks an inner timeout of the bus, `ctx` the
caller's context. `heard` is what a subscriber was last invoked with and `acked`
what it handled; the two differ exactly while it runs or after it failed.
`abandoned` holds the subscribers an ending context skipped (`core.go:257`).

### RedisResource

`life` is what `lifecycleState.mu` protects: the flags of `lifecycle.go` and whether
the client and its one close generation exist. A Start goes through `construct`,
`publish`, `ping`, `confirm`, or `abandon` and `join`; a Use through `borrowed` and
`draining`, with a lease that expires when the callback returns; a Close through
`startWait`, `drain`, `join`. `active` and `inFlight` of the code are the sets of
callers and commands between increment and decrement. A Close may be made from
within a callback (`Inside`): it waits for itself until its context ends.

### ServerManager, TaskServer, Hub

`ServerManager` is `Start`: the components' goroutines, the first exit or
cancellation, the grace period and the collection of results, whose order the
channel decides. The components behave as the managed listeners and the task
server do; one may never stop (`Stuck`).

`TaskServer` relates three records of one schedule: the cron entry, the table
`loaded` of the process, the entry id in the database row. `UpdateJob`,
`RemoveJob` and the load at `Start` hold `jobsMu` and are one step; the operations
of `admin/models/task.go` and the reconciling task read the row first and act
later. A storage call may fail with or without effect; a key whose undo failed is
`unsure`.

`Hub` is the goroutine `Run`, the two pumps of a connection, the goroutine per
message and client, and the cleanup. Channels have the capacities `QueueSize` and
`BufferSize`. The hub is created before a Redis client exists, so the cluster mode
is never on; it is left out.

### AuthorizationPolicy, EventRuntime

One role of the policy resource: the database (rules, role revision, global
revision, row locks or none), and per process the enforcer and the global revision
it believes to hold. A writer reads the role, replaces it under the revision it saw,
commits both revisions in one transaction, and reconciles; a request and the
periodic loop reconcile through the same `EnsureCurrent`, which reads revision,
rules and revision again. Rules are named by the commit that wrote them.

`EventRuntime` is `Open`, `Start` with its loop, and `Close`, which `transitionMu`
keeps apart except for Start; two runtimes compete for the one publisher of the
policy service. The bus behind it is `EventBus`, seen from outside.

### Challenge

One subject and purpose. Each Lua script is a step, may run twice for one call
(a repeated command whose answer was lost), with others in between, and may come
late or never. `pending` is the reservation, `active` the code that verifies,
`ops[v]` the remembered verdict of an operation id, `charged`, `reservedAt`,
`activatedAt` and `rateAt` history. The clock is discrete; what a deadline has
passed is absent. A call is repeated at most `RepeatWithin` after its first run, which
is less than the time verdicts are remembered: the client repeats within seconds, the
verdicts live for minutes. The code does not compare the two; a repeat that came after
its verdict was forgotten would be counted as another guess.

### ConfigRuntime, KafkaQueue

`ConfigRuntime` is what the configuration owns: each handle is published (reachable
by others), owned (a later close finds it) or retiring (replaced, its close may
have to be repeated), and named by the call that made it. `databaseReload` lets one
call run at a time; operations borrow at any moment. Only managed queues are
followed: the others have no Close.

`KafkaQueue` follows each registration through its dialing, which runs beside its
caller (who may withdraw first), the consumer groups, the runnable, sends, and the
closer of any number of Close calls. What was handled and what was marked is
kept per claim; Sarama is external.

### VersionedConfig, PresentationProfile, Options

`VersionedConfig` is the configuration of the application or of one user: rows
and two revisions in the database, results cached under a revision, single settings
cached without one. A reader takes a revision, looks up or loads, and takes it
again; `past` keeps what each revision was.

`PresentationProfile` is one profile with its append-only revisions; every request
may be sent twice and overlap with itself. Reading statements are steps, writes
and index checks happen at the commit.

`Options` has rows, the versions they replaced and the five-minute cache. That an
option is not in use is the caller's question before a delete, and is not asked
here. `raced` marks that a transaction took a name or room that another had taken after its
own check (`late`), `outdated` names whose cached row a lookup stored after the commit.

### Sessions

One user's sessions: rows, cached copies, revocations (the row first, then a mark in
the cache), lookups with back-fill, lock-outs of the current-password proof, and the
transactions that change credentials, each one step because they lock the
session's row and the user's. A login is two steps: `VerifyCredential` checks a password
or another proof, `LogIn` inserts the row later, and `credential` records which password
it was. The guarded transactions want a session that is not over (`Current`); a lookup
still allows the last minute (`Trusted`). `PasswordResetWithDB` happens within
`ChangePassword` or, for an administrator and a forgotten password, without a session.
`guesses` is history: the times of the last wrong passwords. Last-seen bookkeeping is
left out.

### SignIn

Browsers, with the session cookie and the attempt nonces they hold, and callbacks in
flight. An attempt (`issued`) is a login, a binding or a proof of identity for the
browser and the session it was asked from; `kept` is the state store, from which a
callback takes the record before it looks at it. Then the provider names an identity,
its row is read, and a transaction binds it, proves the session, or registers an
account; a login goes through `AuthenticateVerifier`, which reads the account again
before it opens a session. `owner` and `buried` are the identity rows and those marked
deleted. All identities carry one mail address, the interesting case. Personal access
tokens and the CSRF pair of a browser session are left out.

### Hierarchy

Departments, their parents, and the scopes of posts that list them. The services
validate a create or a move outside of any transaction, one query per ancestor, and
the generic action saves later; a delete is validated inside its own. Scopes only
grow. `Rooted` says that no set of departments is closed under their parents, which is
what "every department leads to a root" means in a finite tree. `overlapped` marks that two requests were under way together: the property
excepts them (section 5).

### QueryCache

The cached query of one process over one table. The table is named by its number of
commits, a generation by the number of its draw. `Decided` is what each of the three
reads of the generation decides: look up, confirm a hit, allow the save. A missed
lookup stands for an expired entry too. `announced` records the last invalidation
that succeeded, `floor` what a query therefore has to see.

### Snapshots, DevManager, Generation

`Snapshots` is the two-record commit of a blueprint and the upgrade around it: the
plan without lock, the writer lock, the marker, for each file the check (`Apply`) and the
rename that comes after it (`Replace`), the undoing, and readers. Writers may be killed at
any step, the developer edits at any step, between a check and its rename too. `late` is
history: the files edited since the transaction began or, if that is later, since the
check found them as planned.

`DevManager` names a process by its id and the number of its launch, which is
what the start identity tells apart. A forced kill of the service ends it: that
system call is not modelled as failing.

`Generation` names contents: marked by a generator, or by hand. `preimage` is what
the plan saw, `intact` records per call which paths were found as planned at some
moment since it began to apply. There is one output group, whole at first.

### BusinessRegistry, Migrations

Each Add is entered, its callback runs (with two workers that use the view it was
given: the callback itself and a goroutine it left behind), the transaction is closed,
combined with the others' migrations, and published; `gate` is the mutex that
orders Add and Freeze. `Migrations` runs what a registry could have let through:
ledger, order, effect and row, with transactions that contain changes of the schema
or not.

## 3. Runs

| Run | Instance | Shows |
|---|---|---|
| `graph_start` | 3 nodes, the third on the other two, 2 required; 2 Starts, 2 Closes | `DependentsCloseFirst`, `PassesAreOrderly`, `NilCloseMeansReleased`, `CloseIsIrreversible`, the refinement `ImplementsOwnership`, `TypeOK` |
| `graph_live` | 2 nodes with runners; a Start, a Close, and one more caller (a Run, an inspection or a second Close), under fairness | `ReleaseIsExclusive`, `RunErrorIsJustified`, `CloseIsLive`, `RunnerExitStopsPeers` |
| `cache_peers` | 2 instances; 2 Loads (both here, one of each, or both there), 1 Invalidate here, failing provider | `ReadsObserveInvalidation`, `EntriesAreFresh`, `UnwrittenIsRetained`, `SharingIsSound`, `TypeOK` |
| `cache_close` | a Load, an Invalidate, a transaction and a Close, under fairness | `DrainMeansQuiet`, `CacheReturns` |
| `cache_resurrection` | 2 Loads, 2 Invalidates, nothing fails | violates `OldEntriesUnreachable`, see section 5 |
| `cache_cancellation` | 3 Loads | violates `CancellationIsOwn`, see section 5 |
| `eventbus_overlap` | Redis; Start, Run, a Publish, a Close, 2 revisions, 1 failure, a subscriber that joins and leaves | `HandledOnceInOrder`, `NeverBackwards`, `FailureIsVisible`, `ReconcileInforms`, `ClosedIsQuiet`, `TypeOK` |
| `eventbus_live` | Redis; Start, Run or an inspection, a Close that may give up, under fairness | `BusIsLive` |
| `servers_safe` | nine components, one per behaviour | the safety of each, see below |
| `servers_live` | eight of them, under the fairness of each | `ServersProgress` |
| `records` | thirteen components, one per behaviour | the safety of each, see below |
| `upgrade_unknown` | an upgrade beside a developer | violates `UnknownFilesStay`, see section 5 |

The comment above each property in its module says it in words. What the
properties of the two harnesses are made of:

| Property | Conjuncts, by component |
|---|---|
| `RedisIsSound` | `ClientClosedOnce`, `ClosedClientIsUnused`, `CloseMeansReleased`, `ClientIsOwned` |
| `LifecycleIsSafe` | server manager: `FailuresAreReported`, `NothingIsLeftBehind`; configuration: `LeasesAreOpen`, `PublishedIsOpen`, `NothingIsLost`, `RetiringSeesItsOwn`, `OneQueueAtATime` |
| `TaskIsSound` | `CronMatchesLoaded`, `StoredEntryIsLive` |
| `MessagingIsSafe` | hub: no send on a closed channel, nothing before registration; queue: `CloseIsComplete`, `OutcomeIsTrue`, `ConsumersAreUnique`, `MarksFollowHandling`; event runtime: `PublisherIsOpen`, `ClosedIsWithdrawn`, `CloseAwaitsItsLoop` |
| `PolicyIsSound` | `ReloadIsHonest`, `DecisionsAreFresh`, `NoLostUpdate` |
| `StepsAreSound` | challenge: `VerifiesOnce`, `GuessesAreBounded`, `QuotaIsKept`, `RatesAreKept`, `SuccessConsumesItsCode`, `ReservationIsProtected`, `ActivationsAreSpaced`; configuration: `DatabaseGoesLast`; queue: `ErrorChannelIsRespected` |
| `ServersProgress` | `RedisCloseReturns`, `FirstExitStopsAll`, `EnabledIsScheduled`, `ConnectionsEnd`, `ConfigReturns`, `KafkaStops`, `EventCallsReturn`, `EveryProcessConverges` |
| `OrderIsCorrect` | `Build` for every declaration over 3 names: dependencies first, canonical order, exact verdict |
| `StoresAreSound` | configuration: `ReadsAreCommitted`, `CachesAreExact`, `EntryIsCurrent`, `PatchesWhatWasSeen`; options: `NoChangeIsLost`, `NamesStayApart`, `EntriesFollowCommits`; departments: `TreeIsSound`; presentation profiles: `HistoryIsSound`, `PublishesWhatWasSeen`, `AnswersAgree` |
| `QueriesAreSound` | `AnswersAreCurrent`, `GenerationIsCurrent` |
| `AccountIsSound` | sign-in: `AttemptsAreOwn`, `IdentitiesAreOwned`, `SessionsAreOwned`, `IdentitiesStay` |
| `SessionsHold` | `RevocationIsImmediate`, `SentinelIsTrue`, `GuessesAreSpaced`, `LoginMethodRemains`, `SessionsOnlyEnd` |
| `SnapshotIsSound` | `PartialIsMarked`, `ReadersSeeAPair`, `EditsSurvive` |
| `ToolsAreSound` | dev: `OnlyOursAreSignalled`, `RunningIsKnown`, `RunningStaysRecorded`; registry: `AddIsAtomic`, `MigrationsAreDistinct`, `RoutesAreReady`, `FrozenStays`; migrations: `LedgerIsTrue`, `AppliedInOrder`, `NothingUnlessSound`; generator: `ConflictsWriteNothing`, `SuccessIsComplete`, `OnlyPlannedIsReplaced` |

**Bounds.** Each call is made at most once per caller, so callers bound the
depth: two Starts are enough because beginStart admits one for good, two Closes
because a generation is owned by one and joined by any number, three Loads in
`cache_cancellation` because the shortest bad schedule of a flight needs a creator, a
waiter and one who joins. Three nodes make one dependency shape in which "all dependents first"
and "all dependencies first" are not the same as neighbour order. Commits to the
authority are bounded by `MaxVersion` (1: old and new data), revisions by
`MaxRevision` (2: one to overtake another), failures of the bus by `MaxFaults`
(1). The cache, the graph and the Redis resource bound no failures. The theorems of
section 4 hold without any of these bounds. `eventbus_overlap` has one subscriber;
several, and the Memory bus, are covered by the theorems, which carry every safety
property of that run over to any set of subscribers and both kinds. Neither is
exercised by TLC.

Three instances are thinned where the callers would otherwise multiply. `LiveSpec` of the
graph lets one caller beside Start and the first Close appear, with a call or with a
context that has ended before it, and `LiveSpec` of the bus begins with either Run or an
inspection turned away before Start, which leaves the bus as it was: the other meets
Start and Close. `HereOrThere` lets two Loads of
the four begin, both at the invalidating instance, one at each, or both at the other.

In `servers_safe`: three Closes of the Redis resource, one from inside the callback,
and two commands through a lease; three components of the manager, one that never
stops; two tasks, `MaxTroubles` (1) failing storage calls and `MaxEdits` (1) edits;
two connections, queues of 1; two writers of the policy in two processes,
`MaxAttempts` (2) of EnsureCurrent (more only repeat), `MaxFailures` (1); two issues
and two verifications, `MaxTries` (2) runs of a script, clocks to `MaxTime` (6),
limits of 1 and 2, so that each is reached, repeats within `RepeatWithin` (1) of the
first run; two loads, a change and a close of the
configuration; two registrations for one key, two `Offsets`, one of `ErrorSlots` so
that the channel fills; two runtimes for one publisher. `servers_live` has fewer
callers, the periodic loop of the policy in both processes, and no challenge, which owes
nothing in time.

In `records`: two readers and two editors, `MaxReads` (2), `MaxCacheFaults` (1);
two requests of any kind, each sent up to three times (`Resends`),
`MaxVersion` (4); two writers over three versions and two files,
`MaxFaults` (2: one to fail the transaction, one to fail its restoration), `MaxEdits` (1);
three commands over two services and two process ids,
`MaxLaunches` (3) so that an id is used again, `MaxMishaps` (2); three options with
three names and `MaxOptions` 2 (with two names the limit would never decide anything,
since the names already keep the third away), `MaxLostCommands` (1); three departments and two requests, enough for
the cycle of two; three goroutines and two modules; three migrate commands over at
most three migrations; one query and two writers, `MaxEvictions` (1); two generators,
three paths, `MaxTouches` (1); two browsers, two callbacks and two identities with
one address, two attempts, four sessions, one upset (`MaxUpsets`: an expiry, a logout,
a disconnection, a disabled account, a mailed code). Symmetry is used among interchangeable callers and
names only (`x1`, `x2` and `y1`, `y2`), with invariants and action properties.

`records` sees the sessions twice, with spans of several minutes: a session lives 7
(`SessionTTL`) of 9 (`MaxClock`), two failures lock it for 2 (`LockTTL`), 3
(`FailureWindow`) forget them, a proof is recent for 2. As "guesses" one session and one request
go minute by minute, with the cache down: locks end and set in again, the window lapses with failures
that had not locked and after a lock, and three wrong passwords are remembered, all
while the session lives. As "sessions" two sessions and two requests cross, every cache
command failing anywhere, and time leaps to the last minute of the first session and
beyond, so the minutes in between are left to the other; there nobody guesses or unbinds.
The password changes twice (`MaxPasswords`), and there are two `Providers`.

**Deadlock** is checked in the runs of the graph, the cache and the bus, where
`Terminated` (all calls returned) is the only state a model may stay in, but for
`graph_live` and `cache_peers`, where the thinning itself stops callers. In the
harnesses every component may come to its end in several ways; that nothing waits
for ever is what `ServersProgress` says.

**Fairness.** Weak fairness of the steps of a call that was made: its goroutine
is scheduled, and nobody is obliged to call, cancel, commit or fail. In the graph
a provider is only assumed to return *once its context has ended*, which is what
the doc comments of Starter, Runner and Closer ask of it; `CloseReturns`
additionally assumes that providers return (`ProvidersReturn`), since Close waits
for them for as long as its context lives. In the cache and the bus commands have
deadlines, so they return, with an error if need be; handlers return by
themselves; and the ticker of Run fires. The delivery token is a channel of
capacity one: Go hands it to waiters in order, and weak fairness of each waiting
call is weaker than that. Elsewhere: callbacks and commands of the Redis resource
return, and the context of a Close made from within a callback ends (nothing else
could end it); components except `Stuck` stop when told and the grace period ends;
the reconciling task and the policy's loops tick; Run of the hub and the pumps run;
a Sarama session under an ended context ends; a database operation gives its
lease back. One strong fairness is used: a Close that the ending loop of the event
runtime makes gets `transitionMu`, for which it competes with finitely many calls (a
Go mutex does not starve a waiter).


## 4. Theorems

All proofs are checked to the last leaf; the assumptions are the named ASSUMEs on
the constants (`N \in Nat`, dependencies smaller, the kinds of calls disjoint, a
finite set of callers of the cache, and so on), which TLC evaluates in the runs.

**Resource graph** (`ResourceGraphProofs`): `TypeCorrect`, `ReleaseExclusion`,
`NilCloseVerdict`, `DependencyOrder`, `CloseIrreversibility`. None of the
properties is inductive by itself: that no provider is in use while one is closed
depends on how far each Close has come. The invariant `IInv` says it:
`StartInv` (one Start is active while `startDone` is open, and it holds no error
before it rolls back), `UseInv` (runners and inspections need a successful
start), `CloseInv` (at each point of Close, what has ended; it cannot begin again
because `closeRequested` stays), `PassInv` (which open nodes a pass has still to
visit), `UpInv` (the prefix a Start established), `LoopInv` (indexes). One lemma
per kind of call shows that its steps preserve it.

**Build** (`StoresProofs`): `BuildIsTopological`, from what the counters
count: a name is ready only when all its dependencies are placed. This discharges
`DepsAssumption` for the graphs Build returns. `BuildIsExact` adds that the order is
canonical and the verdict exact. Its invariant `VerdictInv` needs no induction over
the graph: no set of names each of which waits for another of the set is ever entered,
and when nothing is ready the names left over are such a set.

**Ownership** (`ResourceGraphProofs`, on top of the graph's `IInv`):
`OrderlyPasses`, `JustifiedRunErrors` and `Refinement`. `PhaseInv` says that a Start
has acquired exactly the nodes up to the one it is at and that nothing is released
while it acquires; `VisitInv` that a pass visits acquired nodes only and ends with
nothing left unless its context expired; `RunInv` that a collector holds an error only
because of a runner that broke its contract. Under these every step of the graph is a
step of `ResourceOwnership` or a stutter: `Begin` when a Start is admitted, `Acquire`
when a provider's Start is invoked, `Serve` when Start succeeds, `Drain` with the
first close request or the first failure, `Release` when a provider's Close returns
nil, `Close` when a pass finds nothing left.

**Derived cache** (`DerivedCacheProofs`): `InvalidationWinsLoaderRace`
(`EntriesAreFresh`) and `FailedInvalidationIsRetained` rest on `DataInv`: wherever
a token is found (generation, pending, a flight) it was taken by an invalidation
not later than now (`TokenInv`), and one about to be cleared from pending has been
written (`RepairInv`). `DrainedIsQuiet` and `CacheTypeCorrect` rest on
`DrainInv`: `active` is the cardinality of the operations under way, which is why
it neither underflows nor drains early.

**Sharing and observing** (`DerivedCacheProofs`): `SharingIsOrderly` from
`SharingInv` (a flight's epoch is not ahead of its instance's, and whoever waits for a
flight that was cancelled has given up, or its cache has closed, or it joined too
late). `OneInvalidationIsObserved` assumes `OneInvalidation`, of the calls, for the
reason section 5 gives; everything else is free. Its invariant `ObserveInv` says that
once the one token has been written the generation is never the base again, and that
every flight that owes it to a load serves it (`Serves`): the generation it will read,
or has read, is not the base, and what it holds already is not older.

**Redis resource** (`ServersProofs`): `RedisTypeCorrect` and `RedisSoundness`
(`RedisIsSound`). What has to be added: one Start at most is undecided, and until
then nothing is borrowed (`StartInv`); a constructed client is known
(`RedisClientInv`); from the moment the shutdown takes the client there are no borrowers
(`ShutdownInv`); a lease and its commands live in a callback (`RedisLeaseInv`); how far
a Close is tells what has ended, and one made inside a callback keeps it from returning
(`CloseInv`).

**Task server** (`LifecycleProofs`): `TaskTypeCorrect` and `TaskSoundness`
(`TaskIsSound`). Beside the two conjuncts themselves the invariant says that a task is
loaded with a schedule and an entry or with neither, and no two with one entry. A new
entry has the least id that is free, and the entries of one Start the least ids in the
order of its tasks (`RankedElement`); that these exist and differ rests on
finiteness and on the well-foundedness of the numbers.

**Server manager** (`LifecycleProofs`): `ServerSafe`. The channel of results holds
components that ended, each once, and none whose result was received (`ChannelInv`); that
bounds its length by the number of components (a pigeonhole argument), so that a
component never waits for room. `ProgressInv` says what each phase of Start
implies, `BlameInv` that of what was received exactly the failures are reported.

**Configuration at run time** (`LifecycleProofs`): `ConfigSafe` and, of the steps of a
shutdown, `ConfigClosesInOrder`. There is one call in the critical section; for each of
its places `DatabaseAt`, `QueueAt` and `RuntimeAt` list which handles may be
open, published, owned or on their way out, and outside it the three are at rest: one
database, one queue, one runtime, each published and owned. `LeaseInv` confines
borrowers to the owned database and the one being retired, which is why the drain
reaches all of them.

**Authorization policy** (`MessagingProofs`): `PolicyTypeCorrect` and
`PolicySoundness` (`PolicyIsSound`). An enforcer never holds more than was committed
(`ReloadInv`); a reload that saw a revision loads rules of that revision or later ones
(`EnsureInv`), so that it may mark them with it; what a client read is the state of the
role as long as the revision it read is the role's (`PolicyClientInv`). The argument rests on
revisions only growing, and on nothing else: neither the row locks nor the mutex of
`EnsureCurrent` are needed for safety.

**Authorization event runtime, hub, Kafka queue** (`MessagingProofs`):
`EventRuntimeSafe`, `HubSafe`, `KafkaSafe` and, of the steps,
`KafkaChannelSafe`. In a runtime one call at a time is in a transition
(`TransitionsAlone`), and `PhaseInv` says what it has established so far; `RuntimeInv`
ties the publisher to a started bus. `HubInv` adds to the promise of the hub that
whoever is in the table or on its way there has been handed over for registration, which
is what a pump and the cleanup rely on. `KafkaInv` ties each registration's state to its group, its
place among the consumers and its goroutine (`RegistrationInv`), says that what a close
awaited is over and cannot begin again (`FinishInv`), that the keys of the accepted and
the pending differ (`KeysInv`), and that a claim's mark has everything before it handled
(`ClaimInv`).

**Challenge** (`ServersProofs`): `ChallengeSafe`, the strengthening being `ChallengeInv`:
the active code counts exactly the verifications charged to it, and what was never active
has none (`IssueInv`); a remembered success belongs to a code that is not active any more
(`WinnerInv`), and there is one for each code; whoever was charged is
remembered while it may be repeated (`GuessInv`), without which a late answer would be
charged twice.

**The services together** (`ServersProofs`): `ServersTypeCorrect`, `LifecycleSafe`,
`MessagingSafe` and `StepsAreSafe` state what `servers_safe` checks, of every behaviour of
`MCServers`. `EachSeesItsOwnSteps` projects a step of the harness to a step of each
service or a stutter; `ServersInv` is the conjunction of the invariants above.

**Query cache** (`StoresProofs`): `QueryTypeCorrect` and `QueriesAreCurrent`
(`QueriesAreSound`). A generation is drawn once: a call that started under the one that
still counts has read its rows after the last invalidation that succeeded, which would
have replaced it (`TableCallInv`), and nothing is stored under one not yet drawn
(`TableEntryInv`). That the generations stay within the type is counted: each draw
belongs to a writer that is done or to a generation that was lost (`TableCountInv`).

**Versioned configuration** (`StoresProofs`): `ConfigurationSafe`. The history is exact
and its revisions only grow (`HistoryInv`); the revision a reader began with lies between
the stored one at its call and the stored one now, and *if it is still the stored one*,
what the reader holds is of that revision (`LabelInv`, `HeldInv`): this is what the second
look decides. Afterwards the result is that of one revision, whatever is
committed (`KeptInv`). An editor beyond its lock keeps the revision it compared
(`EditInv`).

**Presentation profile** (`StoresProofs`): `ProfileSafe`. Versions and published
revisions grow together (`DraftsInv`), each published row carries what its request's
version had (`RevisionInv`), and a sending that is about to write still carries it
(`SendingInv`). That a request is published once follows from the versions of the
revisions: they are strictly increasing, and each is its request's version plus one
(`ApartInv`).

**Department tree** (`StoresProofs`): `HierarchySafe`. A request that nothing has
overtaken walked over departments that are there and lead from the parent it wants to
the one it is looking at, and the department itself is not among them (`WalkInv`); what a
delete or a scope found is still so (`SetInv`). That a move then closes no cycle is shown
by the set of the cycle: it would have to contain the whole walk, the root included. No
induction along the path is needed, because `Rooted` speaks of closed sets.

**Options** (`StoresProofs`): `OptionsSafe`. Row, history and kept versions agree per
identifier; a transaction that read a row and is not late holds what is stored, or will
find another version; a name or room that was found free is free while the call is not
late; and each cached row is current, about to be removed, or marked (`OptionsInv`).

**Sessions** (`StoresProofs`): `RevocationsHold` (`SessionsAreSound`), `GuessesAreLimited`
(`AccountIsGuarded`) and `PasswordsEndSessions` (`SessionsOnlyEnd`), for any spans, any numbers of
sessions, requests and passwords; together `SessionsSafe` (`SessionsHold`, in `RecordsProofs`). Dead rows stay dead (`GoesOn`), so a lookup that began at
one is still at one when it probes or loads, and a mark is only ever left for one
(`LookupInv`). `GuessInv` says what the row knows of the wrong passwords: the time of the
last, and either a lock that began with it or how many there were since the window last
lapsed; so one more guess comes after the lock of the last or after a gap longer than
the window. That the gap spaces the guesses as the lock does needs `LockTTL <= FailureWindow`,
which the code's 5 and 15 minutes keep and the proof does not go through without.

**Snapshots** (`RecordsProofs`): `SnapshotSafe` states `SnapshotIsSound`, of `MCRecords`.
`SnapshotInv` says that unless the marker warns, the repository is whole: both records name
one version, and each file is as the last completed transaction left it, or edited since.
`UndoneFilesInv` and `RecordPairInv` say, at each point of the commit and of its undoing,
which files and records are still or again as they were, so that the marker is put down
only over a repository that is whole. A reader that shares the lock saw no marker, and no
writer works beside it (`SnapshotReaderInv`).
`EditsInv` carries what an edit may meet: until it is in `late`, it was there when the
transaction made its backup, so that undoing puts it back, and when the file was compared
with the plan, which then differs or wants nothing of it; hence an edit is lost only if it
is in `late`, and only to the rename that follows the check or to the undoing. It is assumed
that the developer's content is none of the foundation's (`Built[v][p] # "mine"`).

**Business modules and migrations** (`RecordsProofs`). `RegistryInv`: a call holds the gate
from its begin to its end, its transaction is the active one as long as its callback or what
follows it runs, and it is closed for good before anything is combined; an offence through the
view has left an error, and what is about to be published has been found coherent with what
is published (`AddInv`). It is assumed that the core's own registrations are coherent, as
cloning them has checked. `MigrationsInv` says of each command that what it has passed is in
the ledger, that the migration it is at has no row but its own and comes after nothing it
has not passed (`CommandInv`); of the ledger, that a row stands for an effect, and for exactly
one where statements and row are one transaction (`LedgerInv`).

**Generator** (`RecordsProofs`). `PlanInv`: an output is planned only if the module asks for
it, and none outside the extension replaces what was written by hand. `ApplyInv` follows which
outputs have been found as the plan saw them, which is why nothing is written before all of
them were; `AloneInv` says how far a generation has come when nobody interfered: before
its place outputs are as desired, from it on as planned.

**Development processes** (`RecordsProofs`). `DevInv` adds to the properties that a command
that has launched a service and not yet written it down holds the lifecycle lock, and the
service has no state file. The writing therefore replaces nothing, and a process
that runs is in a state file, in the hands of that command, or lost with it. A state file
goes only when the identity in it was compared with what runs, which is why no step of a
second command, or of a watcher, can lose a running service.

**The stores and the tools together** (`RecordsProofs`): `StoresSafe` and `ToolsSafe` state
`StoresAreSound` and `ToolsAreSound` of every behaviour of `MCRecords`, by
`EachStoreSeesItsOwnSteps` and the invariants above.

**Event bus** (`EventBusProofs`): `BusTypeCorrect`, `DeliveredOnceInOrder`,
`NoStepGoesBack`, `FailuresStayVisible` from `DeliverInv` (only the holder of the
token delivers, and it delivers the last accepted revision; a subscriber has heard
what it acknowledged; a failure is recorded, pending in the delivery under way, or
abandoned); `ClosedStaysQuiet` from `CloseInv`; `ReconciliationInforms` from
`ReconcileInv`, which follows one reconciliation through the steps in which others
may overtake it.

**What the attempts found.** Some invariants could not be proved because they were not
true, or not about what they should be; TLC found the smaller counterexample once the
instance allowed for it.

- *Challenge.* `GuessesAreBounded` fails if a verification may be repeated after its
  verdict was forgotten: hence `RepeatWithin` and the assumption that it is less than
  `IdempotencyTTL`.
- *Options.* `late` once marked a call overtaken by any commit, which excused too
  much; it is now set only if a name was taken after one of the call's checks.
- *Options.* With two names the limit of `MaxOptions` decided nothing in the run: no
  mutant of it was noticed. With three it is.
- *Departments.* `Rooted` was a recursive definition about paths, about which nothing can
  be proved here; the one by closed sets is equivalent and needs no induction.

Only model-checked: liveness (`CloseIsLive`, `RunnerExitStopsPeers`,
`CacheReturns`, `BusIsLive`, `ServersProgress`), which is out of the prover's reach;
`RecordsTypeOK` and `AccountIsSound`, because sign-in has no proofs, and because the theorem
about sessions types them without their bounds;
and the bound on version numbers in `OptionsTypeOK`.

## 5. Where the code and its documentation disagree

**A late repair brings old entries back** (`cache_resurrection`). `Invalidate`
puts its token into `pending` before it writes it. A Load may pick the token up
there and write it itself, without condition (`cache.go:304`). If that write
arrives after a *second* Invalidate has written its own token and reported
success, the dataset is back at the first generation, and what was stored there
before the second commit is served again, here and by other instances, until the next
invalidation or its TTL. `cache.go:398` promises that old entries become
unreachable immediately after a successful provider write.
`ReadsObserveInvalidation` is therefore checked, and proved
(`OneInvalidationIsObserved`), for one invalidation among any loads, failures and lost
answers; for several it is false. What holds for several, and is proved, is
`EntriesAreFresh`: under a token there is never anything older
than *that* token's invalidation.

**A caller may inherit a stranger's cancellation** (`cache_cancellation`).
When the last waiter of a flight leaves, the flight is cancelled but stays in the
table until its goroutine removes it. A Load that comes in between joins it and
returns `context canceled` although its own context lives. `cache.go:183` says
that cancellation is a property of all waiters. `SharingIsSound` contains the
promise with exactly this exception, and holds.

**A failed upgrade may remove a developer's file** (`upgrade_unknown`).
`applyUpgradeWithHooks` lists a change for its rollback before the change's own
check (`upgrade.go:715`). When a developer creates a file at a path the plan means to
create, after the plan was verified, the check refuses, and the rollback restores
what the backup knows of the path: nothing. `EditsSurvive` is the promise with this exception
and one more, below.

While modelling, these were seen as well. The properties state what the code does;
none of them is contradicted by a run.

- *Blueprint upgrade.* `applyUpgradeChange` reads the file and compares it with the plan
  (`upgrade.go:784-794`); `writeAtomic` then writes and syncs a temporary file and renames
  it over whatever is there (`managed_root.go:392`), and removing goes the same way. A file the developer
  adds or saves between the two is replaced, and nothing reports it, although the documents
  say that files the snapshot does not know are kept, and never overwritten
  (`blueprints-and-upgrades.md:31`, `agent-native-foundation.zh-CN.md:107`). `EditsSurvive` excepts an edit made
  since the check.
- *Sessions.* `PasswordResetWithDB` revokes the user's sessions in the transaction that
  changes the password, so that "no committed password can coexist with an old durable
  credential" (`admin/models/user.go:132-134`). A login that has verified the old password and
  inserts the row of its session after that transaction (`admin/middleware/auth.go:244`) gets
  one that outlives the change. `SessionsOnlyEnd` says that this is the only way.
- *Server manager.* A component's error that joins `context.Canceled` with a real
  failure is taken for a normal end, since `errors.Is` finds the former
  (`core/server/server.go:166-174`, against the comment at 113-115).
- *Task server.* `UpdateJob` of a key that is stored, in the default storage, does
  not store the new spec.
- *Hub.* Nothing calls `Unregister`: clients that closed stay, and count as online,
  until the periodic cleanup.
- *Event runtime.* A Start admitted between Close's look at the loop and
  `closed = true` keeps its loop running after Close returned nil
  (`authorization_eventbus.go:258-298`). After a Close that failed, Open returns nil
  although the publisher was withdrawn.
- *Derived cache.* A generation key Redis loses brings the entries of the base
  generation back, within their TTL (`cache.go:316`). A Load of another instance that
  joins a flight begun before an invalidation reported success may return what that
  flight read before it: only the invalidating instance moves on to a new epoch
  (`cache.go:177`). The proof of `OneInvalidationIsObserved` does not go through
  without this exception.
- *Configuration.* Once the server runs, `reloadDatabase` with a managed queue always
  fails, since registrations are refused then. `CloseContext` closes the database
  although the object storage did not close in time. An `OnChange` after the close
  opens a database nobody closes.
- *Queues.* A second failing consumer's error is never read; one failing Append stops
  the queue's runnable. The memory queue orphans a queue when two calls create a
  topic at once, and a failing handler sends to the channel only it reads.
- *Options.* The tag `unique_index` makes no index in this version of gorm, so two
  creates or renames that overlap may share a name, and exceed the limit.
- *Sign-in.* The row of a disconnected identity is only marked deleted and keeps its
  unique key, so the identity cannot be bound again, by anyone, its former owner included.
- *Departments and posts.* Two moves under way together may form a cycle, under
  which `GetAllChildrenID` does not return; and `Save` brings a row back that was deleted
  after the update read it.
- *Migrations.* On a database that commits its DDL, a kill or a second command between
  effect and row repeats the effect.
- *Query cache.* `Control.update` reads its row through the cache and saves all of it
  without a version (`control.go:187-219`): racing another update, or after a lost
  invalidation, it writes old fields back. Failures of `RemoveFromTag` are ignored by the
  handlers, so old entries live for their TTL. The third read of the generation,
  before the save, is not what makes entries safe: their key names the generation
  already.
- *Generator.* `custom.go` is planned when it is missing and not checked again
  (`generator.go:1525`, 2130): one the developer creates in between is
  overwritten. A write that fails halfway leaves an output group incomplete, and the
  next run refuses with `OutputGroupConflictError` until someone repairs it.

## 6. What is not modelled

`PROJECT.json` lists the hazards of the code at their lines, each with the
properties that would catch it.

Left out inside the modelled components: encoding and payload limits (an outcome
that may fail), validation of options and keys before an object exists, wording
and redaction of errors, the ages of health reports; a handler that calls back
into its own bus, which the code leaves to the caller's context; the hub's
replication between processes; last-seen times of sessions; narrowing of a post's
scope; which system call of a forced kill fails, and the moment between the check of a
process's identity and the signal to it (`manager.go:865-877`).

Simplified there, with what it leaves unsaid:

- *Query cache, options and configuration* read one database. `gormdb` may be given replicas
  (`gormdb/gorm.go:132-140`); a replica that lags behind the commit that drew a generation
  could be read, and its old rows published under the new generation.
- *Versioned configuration*: a save of private settings only takes no lock and advances no
  revision (`app_config.go:508-548`). The model has no settings of that kind; they are in no
  cached profile.
- *Task server*: one operation or deletion of a task at a time. Two handlers may overlap
  in the code; their changes of schedule and storage take turns at `jobsMu`.
- *Hub*: of the messages to one user, the greeting of a new connection (`handler.go:110`),
  which is sent without the hub; the queue of messages to a user is left out.
- *Server manager*: the model also lets the caller's context end, as an expired deadline,
  after `cancel()` was called and before the wait reads its cause. It stands for a context that ends
  between the select and the cancel, which the model does not tell apart from it.

Left out altogether, with the reason:

- *Pure computation on text and structure*: rendering in `internal/mss/generator`,
  `internal/mss/spec` and `feature`, validation of presentation definitions
  (`admin/presentation`), projection of audit entries, key encoding. No state, no order;
  tests with examples reach them, and a model would repeat them.
- *One command of a provider decides*: WebSocket tickets are a GETDEL (or a locked map).
- *Sequential input and output*: uploads and object storage operations, configuration
  sources, verification evidence (`internal/mss/verify`), `doctor`, `setup`, the command
  lines, monitoring samples and alerts, the audit row per request.
- *Handlers and models*: `admin/apis` and `admin/models` decode requests and call the
  services; their own multi-step writes are modelled with the service (tasks, options,
  configuration), the rest are single statements.
- *Interfaces to other systems*: Kubernetes schedules, NSQ
  and Redis queues, the memory queue (nothing in the admin closes it).
- *The web front end, templates, deployment.*

Most of the lines of the repository are of these kinds, so the definitions stand for
a modest share of all lines, and for most of the lines that coordinate.

Next are proofs of the safety invariants of `SignIn`.
