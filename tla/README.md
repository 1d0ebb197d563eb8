# Codex CPA Pool: specifications, model checking and proofs

Codex CPA Pool is a single-machine deployment of Go processes that share a pool of upstream accounts
("CPA" containers) among users with API keys. A control plane (SQLite, one file lock) decides; a data
plane (Edge and two Gateway slots) serves `/v1` streams from snapshot files and does not depend on it.
This directory models the program's own logic, component by component, checks the models with TLC on
small instances, and proves the most important safety properties with TLAPS for all instances.

Contents: 1 inventory, 2 modules, 3 runs, 4 proofs, 5 findings, 6 abstractions and limits,
7 observations, 8 not modelled and what is left. `PROJECT.json` maps every definition to the source
lines it models, and lists the hazards with the properties that would catch them. Paths below are
relative to `src/`.

## 1. Inventory

### Processes and what they share

| Process | Writes | Reads | Driven by |
|---|---|---|---|
| Admin | accounts, users, teams, routes, settings, auth snapshot, CPA configs, containers, account journal, usage policies | everything | HTTP, jobs, its journal at start |
| Portal | a user's password and route | accounts, their status, usage | HTTP |
| Failover | routes, auth snapshot, audit | quota state, CPA probes, Gateway activity | timer |
| Collector | usage database, quota snapshot, heartbeat | Redis queues, users, teams | timer |
| Quota | quota state, CPA cooldowns, reset credits | upstream accounts | timer, requests |
| Notifications | its state, webhook messages | quota state | timer, schedule |
| Log maintenance | rotates and deletes logs | log directory | timer |
| Bootstrap, Ownership | first initialisation; leases | - | operator |
| Gateway blue, Gateway green | in-flight registry (memory), access log | auth, quota and heartbeat snapshots | requests, fsnotify, ticker |
| Edge | - | `active-gateway.conf` | requests, ticker |
| `scripts/run.sh` | `active-gateway.conf`, service containers | Edge and Gateway status | operator |

The shared state is `control-plane.sqlite3` with its cross-process file lock, `usage.sqlite3`, the
snapshot files in `state/gateway`, the slot file in `state/edge`, the account directories, and Docker.

### Components

| Component | What makes it correct | Modules | Status |
|---|---|---|---|
| Ownership leases and fence (`internal/controlplane/lease.go`, `internal/ownership`, `cmd/ownership`) | a superseded process cannot write; one writer per scope; a superseded process stops | `OwnershipLease`, `FencedWriter` | modelled |
| Auth snapshot (`internal/failover/auth_snapshot.go`) | the snapshot is the image of the database once writers are done | `DataPlane` | modelled |
| Gateway (`internal/gateway`) | nobody is admitted to an account a newer snapshot removed; a refusal rests on real usage | `DataPlane`, `UsageLedger`, `LogFiles` | partly |
| Edge (`internal/edge`) | new requests go to a running slot, streams are never moved | `DataPlane` | modelled |
| Gateway rollout (`run.sh up-core`) | the served slot is not touched | `DataPlane` | partly |
| Account lifecycle (`internal/accountlifecycle`) | rows, secrets, files, containers and snapshot agree whatever step failed | `AccountSaga`, `DataPlane` | modelled |
| Control-plane store (`internal/controlplane`) | one key for all secrets, all or nothing transactions | `StoreBootstrap`, all others | partly |
| User lifecycle (`internal/admin/user_lifecycle.go`, `internal/identity`) | two databases, CPA key lists and snapshot agree | `UserLifecycle` | modelled |
| Teams (`internal/controlplane/catalogs.go`, `internal/admin/users.go`) | usage is recorded for the team the user is in | `Teams` | modelled |
| Projection (`internal/accountprojection`) | a CPA never reads keys of another text; files say what the rows say | `Projection` | modelled |
| Account status (`internal/accountstatus`) | a blocker is never hidden, an old snapshot authorises no switch | `AccountStatus` | modelled |
| Settings (`internal/admin/configuration.go` and pages) | the site is what its settings say, whatever effect failed | `Configuration` | partly |
| CPA images and extensions (`internal/runtimeops`) | an update is all or nothing | `CpaRuntime` | partly |
| Runtime jobs (`internal/runtimeops/jobs.go`) | one job per target; a full queue leaves nothing behind | `RuntimeJobs` | modelled |
| Account Failover (`internal/failover`) | plans are even; users leave an exhausted account | `RouteFailover`, `DataPlane` | modelled |
| Collector, usage store (`internal/collector`, `internal/usage`) | an event counts once, in the right week, for the right team | `UsageLedger`, `Teams` | modelled, partly |
| Usage reports, site time (`internal/usagereport`, `internal/usage`) | all views of the usage agree | `UsageReports` | partly |
| Quota worker (`internal/quota`) | one credit per exhaustion; only superseded cooldowns are cleared | `QuotaRefresh` | modelled |
| Notifications (`internal/notifications`) | a transition is announced; a repetition costs a failure | `Notifications` | modelled |
| Portal sign-in (`internal/portal`) | a refused attempt charges no bucket | `LoginLimiter` | partly |
| Log maintenance (`internal/logmaintenance`) | rotation loses nothing but what it must; the reader counts lines once | `LogFiles` | modelled |
| Bootstrap (`internal/bootstrap`), Web, release tools | a credential handed out works | `StoreBootstrap` | partly |
| Generated contract, frontend, plugins and tools | - | - | not modelled |

### Interactions that are hard

* Two writers of routes (Admin and Failover) each do "change the database, publish the snapshot, wait
  until the Gateway reports it, else undo and publish again". They exclude each other during a
  transaction and a publication only; between those steps anything interleaves.
* Publication is asynchronous: each slot loads when its watcher or its ticker fires, Edge follows the
  slot file on its own ticker, and a request is authorised one step before it is counted.
* Admin can die between any two steps of an account operation, and `Recover` continues from a journal
  that may lag behind the database. User operations, settings, image and plugin updates have no journal
  and compensate in the same process only. Failover has no journal either.
* Collector and Failover reconcile internal keys, and the Collector teams, from rows they read earlier.
* The probes of Admin see only the slot that Edge serves.
* A worker learns that it was superseded from its own heartbeat only. The clock may be set back.
* Redis delivers a usage event at most once and the webhook a message at least once. A reset credit is
  spent upstream even when the answer is lost.
* Files are rewritten in place under a reader: the config of a running CPA, the access log.
* The Gateway combines two files of different age in one decision.
* Several pages write settings, and only one of them holds the lock under which all are replaced.
* Nothing bounds how long a client keeps a stream; timeouts in the manager and the script do.

## 2. Modules

| Module | What it models or proves |
|---|---|
| `FencedWriter` | abstract specification: generations only grow, every write carries the current ones |
| `OwnershipLease` | the lease protocol, the worker guard, the fence and the operator's commands |
| `DataPlane` | snapshots, Gateway slots, Edge, clients, account operations, Failover's route change, rollout |
| `AccountSaga` | account operations on rows, secrets, files, containers and routes; journal and recovery |
| `Projection` | rendered configs under the eyes of CPAs; containers of older releases |
| `AccountStatus` | the observer's snapshots, lists and route changes |
| `UserLifecycle` | creation, rotation, revocation, deletion of users over two databases; key reconciliation |
| `Teams` | memberships and their copy in the usage database |
| `StoreBootstrap` | opening and migrating the store, its key, secrets and imports |
| `LoginLimiter` | the two buckets of a sign-in |
| `UsageLedger` | metering, weekly quotas, their publication and the Gateway's decision |
| `QuotaRefresh` | official quota, cooldown recovery, reset credits |
| `UsageReports` | all views of the usage, calendar days |
| `RouteFailover` | planners, Failover's controller, rebalance and evacuation |
| `Notifications` | transitions, daily report, a webhook that is not idempotent |
| `RuntimeJobs` | the job manager over its pool |
| `LogFiles` | rotation and incremental reading of the access log |
| `Configuration` | settings, their effects and compensation |
| `CpaRuntime` | images and the plugin on the CPA containers |
| `MCControlPlane`, `MCAdmin`, `MCComponents`, `MCCrews`, `MCProgress`, `MCDataPlane`, `MCOwnershipLease`, `MCReports` | instances for TLC |
| `OwnershipLeaseProofs` (with `LogFiles`), `DataPlaneProofs`, `WorkersProofs` (`UsageLedger`, `QuotaRefresh`, `RuntimeJobs`, `Notifications`, `RouteFailover`), `ControlPlaneProofs` (`StoreBootstrap`, `Teams`, `AccountStatus`, `Projection`), `UserLifecycleProofs`, `AdminProofs` (`LoginLimiter`, `CpaRuntime`, `Configuration`), `AccountSagaProofs` and `AccountRecoveryProofs` (`AccountSaga`) | theorems |

`OwnershipLease` justifies what the others take as given: that a fenced transaction or publication is one
step which no superseded process can make.

### OwnershipLease

| State | Code |
|---|---|
| `lease` | rows of the lease records (lease.go, `Lease`) |
| `pc`, `beat` | where a process is in `ownership.Run` and in its heartbeat (guard.go) |
| `rt`, `wk` | the two leases `InstallWriteFence` put on its Store |
| `lock` | the holder of the file lock across `WithWriteFence` |
| `command` | what an operator's command read and had confirmed (cmd/ownership) |
| `stamp` | history: the generations under which a scope was last written |
| `now` | the wall clock, which `StepBack` may set back |

`Join`, `Take`, `TakeRefused` are the start of `Run`; `RenewRuntime`, `RenewWorker`, `RenewError` the
heartbeat; `ControlWrite` any fenced transaction; `BeginFenced` and `EndFenced` a `WithWriteFence`
around another store; `Finish` the exit with its release; `Crash` the death of the process, when the
kernel drops the lock. `ConfirmActivate`/`Activate` and `ConfirmRelease`/`Release` are two steps each
because the commands read and confirm before the transaction that acts.

### DataPlane

| State | Code |
|---|---|
| `catalog`, `route` | rows of `accounts` and `user_routes` |
| `file` | the published auth snapshot; its generation is the number of the publication |
| `loaded`, `running` | the snapshot a slot's engine holds; whether the slot's container runs |
| `selection`, `edge` | the slot in `active-gateway.conf`; the slot Edge uses |
| `request` | a connection: at Edge, admitted (authorised), counted (in the registry) |
| `container` | accounts with a CPA container |
| `op` | the account operation and its journal |
| `mover` | the route change of Failover |
| `rollout` | the step of `up-core` |

An account operation runs publish, wait, drain, commit, finish (deletion) or return, republish, rewait
(replacement, and compensation). `OpFail` fails any step: a first failure is compensated
(`mode = "undo"`), a failure of the compensation leaves the journal (`step = "blocked"`), as
`rollbackUpdate` and the deletion's rollback do. `AdminRestart` is a restart at any step, followed by
`Recover`: a deletion whose row is gone is carried on, everything else goes back to the row.
`Move` ... `MoverCrash` are `applyPlan` with its rollback; a crash leaves `mover.step = "lost"`.
The rollout begins with the slot Edge does not report, drains it (or force-stops it after the timeout,
only while Edge reports the other), recreates it, switches, waits for Edge, puts the file back if Edge
does not follow, and goes on to the old slot.

Definitions marked *Deviation* stand beside the definition they deviate from. No specification uses
them: each is a plausible mistake (a check left out, a missing publication, a swapped order) that must
make a named property fail, and `PROJECT.json` ("mutants") says which.

### Behind the data plane: AccountSaga, Projection, AccountStatus

`AccountSaga` has the parts an account consists of as variables (`row`, `secret`, `userRoute`, `homeOf`,
`oauthDir`, `configFile`, `container`, `backup`, `archived`, `published`), the `journal`, the operation at
work (`saga`) and what happened to it (`past`). `OperatorAsks` is `beginOperation` of the five
operations, `SagaProgress` their steps, their compensation and `Recover`; `Death` is the end of Admin at
any of them, inside a copy too; `OthersMove` is Failover. Users return in three ways with two conditions: `BringHome`
and `RestoreRoutes` are `restoreTo`, for which a user on neither the target, the fallback nor the source is a conflict
(`Strays`); recovery also takes users from the new ID (`RecoveryStrays`). A rename that fails once its users are on the
new ID therefore never compensates its routes: it keeps the journal. Nor its container once the old config is gone:
`RollbackRuntime` creates a container only where it is `Creatable`. Recovery settles both at the next start.

`Projection` follows one text (keys and proxy) from the rows through `config` (with the bytes a shorter
text leaves of a longer one until the truncation) to the `cpa` that watches the file; `Boot`, `Change`,
`Render`, `Writing`, `FileFails`, `RenderFails`, `Done`, `Die` are the renderer and its callers;
`Migration` is `MigrateLegacyConfigMounts` with `mount`, `legacyFile`, `had`, `lost`.

`AccountStatus` has a clock, what every CPA reports (`native`, `blockedSince`), the `cache` of the observer,
its fetches (`flights`, one per set of services: singleflight), a route change and a list under way.

### Users, teams and secrets: UserLifecycle, Teams, StoreBootstrap, LoginLimiter

`UserLifecycle` has the two databases (`rows`, `routed`, `internal`; `credential`), what CPAs accept and
Gateways are served (`accepted`, `served`), the operation of the user manager as its remaining plan of
steps (`task`) and what a round of the Collector or the Failover worker, a `Peer`, read before it reconciles
keys (`scan`); after that only Failover publishes, a Collector's round ends (`PeerFails`). A failing step
replaces the plan by the compensation's; `AdminCrash` compensates nothing.

`Teams` has the rows (`teams`, `rowsOf`, `keyOf`, `member`), the copy in the usage database (`identity`),
requests of Admin (`clerk`: look up, set, read back, sync, each a step), a user operation, and a round of
the Collector. `window` and `late` are history: the memberships that held since somebody read, and users
whose membership was set while they came or went.

`StoreBootstrap` has the database (`schema`, `sealed`), the key file, the usage store, the published marker
and the files of older releases; a `starter` is a bootstrap or a program at its step of `Open` (read the
key, create it exclusively, write it, import) and may die at any. `decided` is what each secret should be.

`LoginLimiter` has the two kinds of `buckets` in `x/time/rate`'s arithmetic, attempts between charge and
verdict (`pending`), and a `reference` computed from the list of `attempts`.

### Metering and quota: UsageLedger, QuotaRefresh, UsageReports

`UsageLedger` follows a request from `Serve` through the Redis queue (`usageQueue`) and the Collector's
`round` into the usage database (`stored`, `weekly`, `identified`, `policies`, `adjustments`), the two files
a round publishes (`quotaFile`, `heartbeat`), what the Gateway has loaded of them (`gate`) and whom it
refuses. `QuotaOperation` is what Admin does to policies; `RoundFailure` ends a round between two steps. A round drains
the accounts that were enabled when it read them (`Collected`); `UpdatePolicy` disables and enables accounts, whose
containers finish their requests all the same.

`QuotaRefresh` has what the service and the CPAs know (`official`, `native`), the worker with its phases,
`request` and `quotaState` on disk, `resetter` per operator, and the `fence` both hold over their calls;
`spent` counts consumed credits.

`UsageReports` has the rows of usage and the catalog; every view is an operator over the same rows, as the
query that computes it, and the windows are those the handlers ask for. Days follow Go's `AddDate`.

### Workers and jobs: RouteFailover, Notifications, RuntimeJobs, LogFiles

`RouteFailover` has account states, routes (`way`), loads (`capacity`), the movers of Failover and Admin with
what they read; the planners are operators. `Notifications` has the saved state, what the receiver has been
told, and the round's message on its way (`sending`). `RuntimeJobs` has jobs, their order, the slot of each
target (`active`), the pool's queue and workers; `Execute`, `WorkEnds`, `Finish` are the three goroutines
involved. `LogFiles` has the log and its backups as sequences of cells, a `rotation` and Admin's `reader`.

### The site: Configuration, CpaRuntime

`Configuration` has the settings table, the effects they should have (`effect`) and the change of the
Configuration Center with its position (`change`); other pages write single rows beside it.
`CpaRuntime` has the mutable image channel, what is pulled, the recorded and the projected image, each CPA
with its container, and the update under way (`work`) with what to roll back.

### Instances

The modules share no state unless section 1 says so (routes and the snapshot, which `DataPlane` has, are
abstract in the others), so one run explores several of them, one per behaviour: `focus` picks it in
`MCControlPlane`, `MCAdmin` and `MCComponents`, `crew` the second writer or the rollout in `MCCrews`.
`MCProgress` combines the leases and the data plane under fairness. `MCDataPlane`, `MCOwnershipLease` and
`MCReports` define constants.

## 3. Runs

| Run | Instance | Shows |
|---|---|---|
| `lease_safety` | leases: two processes of one scope under two runtimes, an operator, TTL 1, clock 1..2 that may go back, 2 generations. Store: 2 programs, 2 keys, 4 values, 4 starts. Status: 2 accounts. Log: 2 backups, 3 lines. Teams: 2 clerks, 2 groups, 1 user, 3 requests. Configs: 2 accounts, 1 change, 2 faults | no fenced mutation is overtaken, `FencedWriter` is implemented; keys, secrets and a handed credential work; a blocker is not hidden; rotation and reader lose nothing they must not; usage goes to a team of the round; no CPA reads a mix of two texts |
| `two_writers` | 2 accounts, 1 user, 1 connection, both slots; Admin beside Failover with 3 publications, or beside the rollout with 2 | database, snapshot and containers agree when all are done, nobody is readmitted to a deleted account, the served slot is not touched, under every interleaving of failures, compensations and deaths |
| `admin_operations` | users: 1 user, 2 CPAs, 2 secrets of each kind, one round of the Collector or Failover worker at a time. Sign-in: 1 client, 2 accounts, burst 2. Settings: 2 saves, 2 troubles. CPAs: 3 units, 2 images, 3 jobs, 2 failures. Reports: 2 rows, zones with and without a change. Notices: 4 half days, 2 turns, 2 slips. Quota: 2 operators, 2 changes outside, 1 break. | who is served and what a compensation restores; a refused attempt is free; settings and effects agree; an update is all or nothing; all views agree; a repetition costs a failure; one credit per exhaustion; a refresh is fresh; cooldowns |
| `components_safety` | ledger: 1 user, 2 zones, 2 ticks, 1 operation, 1 fault; it begins as usual, or with the user unknown, the account disabled or the zone just changed. Routes: 3 accounts, 2 users. Jobs: 3 jobs, 3 targets, 2 workers, queue 1. Saga: 3 account IDs, 2 operations, 1 fault, 1 crash | totals follow from what happened and refusals from the totals; even plans; targets; what a settled account looks like and what an interruption must not do |
| `components_progress` | the same components, smaller, with fairness | usage in an enabled account's queue is stored, an overrun refused, a refresh completed, an alert received, an exhausted account evacuated, a job and an account operation ended |
| `progress` | leases: two duplicates, a clock that only advances. Data plane: Admin alone | a superseded process stops; a publication reaches the slot in service; maintenance ends although a client never does |
| `activation_race`, `removal_without_drain`, `rollback_to_deleted`, `taken_account_id`, `settings_lost`, `daily_gap` | as small as the counterexample allows | the findings of section 5 |

**Bounds and why they are enough.** Two accounts are a source and its fallback; one user and one connection
show every disagreement of `DataPlane`, because each of its properties is violated by one route or request.
Three publications cover the longest chain (two writers publish, one compensates); afterwards the manager's
timeouts still run. Two generations are a process and its successor. Time needs two ticks: before and after an
expiry, an end of a week, a life of a snapshot. Two failures are one forward and one in the compensation; a
crash more than one adds `Recover` inside `Recover`. A queue of one with three jobs is full. Every bound is a
constant; where a theorem of section 4 states the property it holds without the bounds, and the run's task is to
show that the property can fail (each has a mutant it finds) and that every action happens.
`CHECK_DEADLOCK FALSE` stands where a bounded model stops for good when clock, generations or changes are used up.

**Fairness.** `progress`: strong fairness of a heartbeat, because others take the file lock in between but the
ticker fires again and again; weak fairness of the end of a fenced mutation, of each slot's load (a ticker behind
fsnotify), of Edge's refresh, and of the manager's steps, which include the timeout of every wait.
`components_progress`: strong fairness of the Collector's start of a round without a refresh and of the quota
worker's step (their tickers go on after failures), weak fairness of every step inside a round, of the Gateway's
loads, of an operator's reset once begun (an HTTP request runs on), of the notification worker and its interval, of
the Failover controller and Admin's request, of the pool and the goroutines of a job, and of an account operation
including the restart of Admin that continues it. Clients, operators who begin something, failures and crashes get
none. `MaintenanceEnds` excludes an Admin that restarts for ever.

## 4. Proofs

TLAPS checks every theorem for all values of the constants that satisfy the named assumptions. They say:
a worker scope is not the runtime scope and lifetimes are positive (`ConstantsAssumption`); there are exactly two
slots and `None` is no account (`DataPlaneAssumption`); bounds are natural numbers; an official period counts from 1
and no operator is called "free" or "worker" (`QuotaRefreshAssumption`); there is a team to name and nobody's team is
none of them (`TeamsAssumption`); a key can be made at all (`StoreBootstrapAssumption`); a snapshot lives for a
positive time, as the observer's default ensures (`AccountStatusAssumption`); a login bucket is not dropped before it
is full again (`LoginLimiterAssumption`: 30 minutes idle, 5 attempts); the enabled accounts are accounts and "all" is
none (`CpaRuntimeAssumption`); there are finitely many callers, so that a text has a length (`ProjectionAssumption`);
there are finitely many users, time passes, and a weekly quota is positive or unlimited, as admin/users.go demands
(`UsageLedgerAssumption`); the route planners see finitely many users and accounts, in the order of their names
(`RouteFailoverAssumption`); sizes and numbers of backups are positive (`LogFilesAssumption`).
Nothing is assumed about the number of processes, accounts, requests or jobs, nor about clocks, except where a
module says that its clock only advances.

`OwnershipLeaseProofs` rests on `IInv`. `OneFencedWriter` alone is not inductive: two processes could
hold the same generation, or a process one that was not yet given out. `IInv` adds that a token is the
one drawn with the current generation or is cleared, that no claim is ahead of its record, that running
processes of a scope claim different generations, that a process joined the runtime of its owner, and
that nothing changes the leases under a fenced mutation. From it follow `FencedHolder`, `OneWriter`,
`CurrentRuntime`, `ExitIsSafe`, and `Fencing`: every step is a step of `FencedWriter` or a stutter.
Expiry plays no part in any of them, so a clock that goes back cannot break them.

`DataPlaneProofs` has one lemma per actor for the types (`TypeInductive`), then four arguments:

* `NotReadmitted`. `DeletedNotReadmitted` needs two more facts. Nothing is newer than the snapshot
  file (`Ordered`), so the deletion's publication is newer than whatever was loaded or used before. And
  the account is out of the catalog before that publication (`Committed`), so that whoever publishes
  later leaves it out too: this is why `buildPayload` has to look every route's account up.
* `ContainersSettle`. Database and Docker may differ in the account under work only, and each step
  knows on which side it is (`ContainersKnown`).
* `PublicationSettles`. The snapshot is current or somebody still has to publish (`PublicationDue`). The
  delicate case is Failover finding its own route changed and giving up without publishing: only an
  account operation can have changed it, and that operation has published or will.
* `SlotKept`. What an aligned rollout knows of the file and of Edge at each step (`SlotKnown`).

`OwnershipLeaseProofs` also has the access log, which nobody but the leader rotates. `LogsAlwaysFaithful` follows from
`LogInv`: lines are numbered in the order they were written (`Tidy`), a rotation has kept what its next step overwrites
(`RotationKnown`, `LinesKept`, `BackupsOrdered`), and what the reader has counted is behind its offset in the file it
knows, or of a file it can tell from the present one (`RowsBehind`, `FileKnown`, `RowsExact`).

`WorkersProofs` has five parts:

* `UsageAlwaysAgrees`, `RefusalsAreJustified`. `LedgerInv` has the books (`Books`: hourly rows, weekly sums and policies
  are what the events known once each demand), the round that is under way (`Underway`: what was read at a step was so
  at that time), and that every quota in the file, or about to be, was right at some time since it was read
  (`QuotasSound`). Sums and batches are over data of any size; the prover has no induction rule it can apply, so the
  lemmas about them take a least counterexample (`LeastNumber`, from `WFMin` and `NatLessThanWellFounded`).
* `OneCredit`, `CompletedIsFresh` and the action property `OnlySupersededCleared`. `QuotaInv` says that whoever works
  under the fence holds it, that a consumed credit ended the period it was meant for (so that a retry after a lost
  answer finds a newer one), that a captured request is older than its round, and that a credential about to be
  cleared was superseded when it was reread.
* `TargetsAreKept` follows from `JobsInv`: a task is in one place (queue, pool or nowhere), and the slot of a target
  names a live job of that target, so a finished job can only free its own slot.
* `RepeatsArePaid` compares what was sent with what was saved. `NoticesInv` says that every repetition uses up a
  failure that left something unrecorded, and that a saved round leaves nothing unrecorded.
* `PlansAlwaysEven`, an action property, from the types (`RouteTypes`) and what the two planners compute. They loop
  over sorted users; the last turn over a set of numbers is that of its largest one (`LoopTurns`), and an induction over
  subsets by their largest number (`ByLargest`) follows the plan turn by turn. `Spread` says what an evacuation has
  spread so far: no user it gave to an account would find a lighter one. That each turn keeps it needs that the
  comparison by cross multiplication orders the accounts (`WeightedOrder`). A rebalance comes out exact because as many
  users are placed as there are target places (`Slots`, `UsersTakeSlots`): while a user waits some account has a
  deficit (`PlaceLeft`), and at the end none has. Scores are exact there; the code divides floating-point numbers.

`ControlPlaneProofs` has four parts:

* `KeysAndSecretsAlwaysKept`. That all secrets are sealed with one key is not inductive: a program may hold a key
  that is in no file any more. `KeysKnown`: whoever holds a key holds the one in the file, or, if that was lost, the
  one something is sealed with; a key is created only while nothing is sealed, and the exclusive creation lets
  one process write it. `ImportsKnown`: files of older releases are found only beside a sealed credential, and what is
  being imported was missing. `AloneKnown`: a bootstrap that is alone sees nobody act until it hands out.
* `TeamsAgreeAlways`. Whoever copies memberships has read them before. `ReadingsHeld`: what a reader holds held at
  some time since its read, so what it copies is in its window; `CompensationKnown`: a compensation brings no
  membership of nobody back, unless it was set while the user came or went.
* `StatusAlwaysSound`. `SeenFree`: an observation that shows an account as selectable is older than none of its
  blockers; with the bounds of a fetch and of a snapshot's life this limits how old a blocker can be that a route
  change overlooks. `BlockersAlwaysWin` is the table of states, by cases.
* `ProjectionIsSound`. `FilesWritten`: the configs that are not to do say what the rows say. `WriteSound`: what is
  being overwritten has no byte that the next write does not cover, because `previous` is padded to the longer of the
  two texts, so no CPA can load a tail. `LoadsSound`: a CPA that mounts the directory has loaded the file as it is or
  has an event. `LegacySound` closes the gap for containers of the older release, which see no event: there is none
  any more when an operation can change the rows, and until then their config does not exist or is the rendered one.
  `ContainersKept` follows the migration from step to step.

`UserLifecycleProofs`: `UsersInv` follows an operation by its plan, the steps that are still to do. `Met` is
the table of what may be left in each operation, failure and compensation, and `PlanFacts` what follows from it; what
is neither to be rendered nor to be published any more is as the user's rows demand (the restored ones, while
restoring them is still to come). Other users
who are not left unresolved are as between operations (`OthersClean`). `UsersAlwaysConsistent` and the action property `InternalKeysStable` follow.

`AdminProofs` has three parts:

* `LimitsAreExact`, `GuessingIsBounded`. A dropped bucket was full (this needs the assumption above), so it has what
  a bucket kept for ever would have; attempts are paid from the burst and the minutes since the key was forgotten.
* `UpdatesAreAtomic`. `UpdateKept`: the CPAs that were tried run the new image, except the one being replaced; those
  not tried are as before; a rollback tag names the image an account ran, and the plugin is the rendered one, so that
  the container made by a rollback is the old one. `PluginKept` says it of an installation. Both hold until a rollback
  fails or Admin dies over a job, which the code does not repair.
* `ChangesAreAtomic`. `ChangeKept`: what the outstanding steps do not bring about is as the new settings say, and what
  no step of the change touches is as the old ones say. The order of the steps matters in one place: a CPA restarts on
  a configuration that was rendered before.

`AccountSagaProofs` and `AccountRecoveryProofs` have `SettledAlwaysAgrees` and `InterruptionsAlwaysHarmless`, from
`SagaInv`. Neither property is inductive: between two steps almost nothing agrees, and what makes an interruption
harmless is what the code still knows. `SagaInv` says it in four parts. `SagaBase`: what the journal and the running
operation contain; steps are done in order, and undone in the reverse order until one of them fails. `Records`: rows,
routes and snapshot, as far as the steps that publish have come. `Facets`: files, secrets and containers, per kind of
operation and in three layers: what recovery will find whatever happened (`CreateKept` and its like), what has been
done or undone (`CreateSteps` ...), and what a recovery has redone (`RecoverySteps`). A compensation that fails itself
(`dirty`) keeps the first layer only, which is why the layers are apart. `RemovedUnpublished`: no container goes
while the snapshot still leads to it, but in the cases `Rebuilt` names. There is one lemma per step, and frame lemmas
for the facets a step leaves alone. The theorems assume `~TakenIds`, that operators create accounts and rename them
under free IDs: with a taken one they are false, and the run `taken_account_id` shows the code's behaviour then.
## 5. Findings

1. `activation_race`: `cpa-ownership activate` compares the expected generation with a record it reads
   before the transaction. Two overlapping commands let the second replace a generation that its
   operator never confirmed (cmd/ownership/main.go:285-293).
2. `removal_without_drain`: `Delete` drains only if it moved a route. A stream admitted before another
   writer moved its user is cut when the container goes; `Recover` drains in every case and says that
   it obeys the same boundary as the normal path (manager.go:506, journal.go:259-270). The property
   also fails because a drain sees only the slot Edge serves, and because a request is counted one step
   after it is authorised.
3. `rollback_to_deleted`: Failover's rollback writes a route back without looking the account up; if
   the account was deleted meanwhile, the user has no usable route until somebody assigns one
   (internal/controlplane/routes.go:153-216).
4. `taken_account_id`: nobody looks whether the ID of a creation or a rename is in use before the journal is
   written. If Admin dies while the operation is only accepted, `Recover` takes the other account for the committed
   result and replaces its running container, or fails for ever on its files
   (internal/accountlifecycle/journal.go:215-219, 302, 353).
5. `settings_lost`: general settings, onboarding and the clearing of the webhook write without the lock under which
   the Configuration Center reads all settings, replaces all, and, if an effect fails, puts all back. What was saved
   in between is lost (internal/admin/general_settings.go:86; internal/controlplane/store.go:936-938 says otherwise).
6. `daily_gap`: where clocks skip midnight (America/Santiago, America/Havana), the bounds of a user's days leave an
   hour out; its rows are missing from the totals and make the combinations fail
   (internal/usage/daily_trend.go:67-69, 157). In Africa/Cairo and Asia/Beirut the gap lies after midnight; the
   weekly report loses the last hour of such a week (internal/usagereport/report.go:55-73).

## 6. Abstractions and limits

* A snapshot generation is a number instead of a UUID; the code compares UUIDs for equality, and so
  do `Active` and the guards. Only the properties compare numbers.
* A snapshot's load is one step although the engine stores the parsed records after reading the file;
  Edge's choice likewise. A request keeps what it read.
* In `DataPlane` users have a single key and their route decides the account; keys, teams and the quota decision
  are subjects of `UserLifecycle`, `Teams` and `UsageLedger`. `Refuse` covers every refusal.
* A replacement of an account without routes counts as evacuated; `Recover` then rebuilds its container.
* Crashes lose memory only: SQLite transactions and renames are atomic and durable. Copies of directories, files
  rewritten in place and the creation of the key are not, and are modelled in parts.
* `ControlWrite` stands for any fenced transaction of a worker; what it writes is the subject of the other modules.
* `AccountSaga`: a drain and a publication succeed or fail; one directory stands for OAuth and logs; ports,
  defaults and e-mail addresses are left out. `SettledAgrees` excepts accounts of which a copy or a removal was cut short
  (`past.cut`); `InterruptionsHarmless` excepts the three cases of `Rebuilt`: an update compensated after its users were
  back, the later steps of a compensation that fails itself, and Recover's rebuild of the account it ends up with.
* `UserLifecycle`: a route is present or absent; old rows of rotated keys are left out, as nothing reads them.
  `RemovedNotServed` and `ActiveServed` except users whose last operation was abandoned or reported that its
  compensation failed (`unresolved`), because nothing repairs them but the next operation.
* `StoreBootstrap`: programs write secrets only once the management credential exists; the credential itself is never
  imported (older files exist only beside a sealed credential); the loss of the key while somebody is about to
  create it is left out; a value saved while an import is between look-up and write is excepted (`overtaken`).
* `AccountStatus`: a fetch reads all CPAs at one instant. `LogFiles`: rows of one account; a clock set back by one tick.
* `RouteFailover`: Failover's mode is not "off"; a mover reads routes and records in one step. `PlansEven` is about the
  result of one operation; that a plan rests on stale readings is the subject of `ExhaustedEvacuated`.
* `UsageLedger`: `UsageArrives` is about enabled accounts only. Usage that a request of a disabled account still reports
  stays in that account's queue until the account is enabled again. An event is one token; `UsageReports`: tokens are distinct powers, so that sums identify sets.
* `ServedSlotKept` is claimed for rollouts that begin with the file and Edge in agreement (`aligned`).
* `ClearedSuperseded` allows that a CPA blocks again between the reread and the request that clears it.

## 7. Observations

Seen while modelling, and either outside a model, excepted in a property (section 6), or deliberate:

*Accounts.* A failing `Delete` after the backup restores it by removing and copying; death inside the copy leaves a
partial directory that `Recover`'s fast path accepts. account_lifecycle.go:519-521 stops before it removes; when the
removal fails `PrepareUpdate` returns no transition, and the rollback leaves an enabled account's container stopped,
against the comment at :84-86. `rollbackAuthClear` says that recovery will finish restoring OAuth, but recovery clears
it again; death inside the backup of a clearing followed by `Recover` clears OAuth with an incomplete backup, and
`clearDirectory` failing midway has no rollback. A rename removes the old config before its users return and before the
snapshot is published; if one of these fails, the rollback cannot create the old container again, which needs that
config, and the journal stays with no container under either ID until the next start (manager.go:406-416,
files.go:166-171, account_lifecycle.go:699-702, 825-831), although manager.go:60-62 speaks of a "retained rollback
candidate" that goes "only after the new Gateway snapshot is active". `AccountSaga` has these steps. A rename whose old name sorts first deletes the old secret before it
writes the new one. Death after a creation with a custom proxy and before its secret makes `Recover` fail closed until
somebody supplies it. Failover moving an evacuated user makes `Recover` conflict until the route is put back.
`RestartRunningAccount` (runtimeops/account_lifecycle.go:578) drains without evacuating, bounded by its timeout.

*Projection.* All renderings hold `identityOperationLock`, so the renderer's own mutex is not needed today. One account
whose proxy is enabled without a URL makes every rendering fail, and Admin cannot start. Death between the removal of
an older container and its replacement leaves the account without one, and the next start passes it over; death after
the replacement and before its probe lets the next start remove the older file unprobed, though
account_lifecycle.go:343-347 says only after the probe.

*Data plane.* `docs/deployment.md:61`, `docs/upgrade.md:34` and `docs/troubleshooting.md:98` say that a drain timeout
does not end old streams, while `run.sh` force-stops the slot by default (scripts/run.sh:2435-2436, 2978-3003). An
interrupted rollout leaves a slot file that the next one takes for a completed switch (run.sh:3062).

*Users and teams.* A Collector with an outdated set can reissue a deleted user's key, so that the rollback of the
deletion conflicts. Death after `ApplyUserRevocation` leaves the user served until the next operation. A user created
after a round's `SyncIdentities` whose events are drained in that round is dropped as unmapped. `applyUserTeamUpdate`
looks users up before its transaction, so that a deletion in between leaves a membership of nobody that blocks
`DeleteTeam` and is shown nowhere. `SyncUserTeams` compares no versions: an outdated reader overwrites a newer copy until
the next round. A password change under way during a deletion, or a refresh racing a logout, commits all the same.

*Store.* Clearing the webhook deletes the secret and leaves the older release's file, so that the next start of any
program imports it again (admin/notifications.go:269, store.go:666-702; migration_test.go:233 asserts the file). If
disabling the notifications fails after that, sending goes on although notifications.go:266-267 says "remains
fail-closed". A crash between creating and writing the key leaves an incomplete key that is refused for ever. Two
bootstraps by hand on one root both pass the check; the first one's credential may not be the stored one.

*Site.* A crash of Admin over a change leaves effects unapplied; only the accounts are rendered at the start. A crash
between `WriteRuntimeState` and `ProjectCPAImage` leaves compose.env behind; `UpdateImage` has no journal. A crash in
`UpdatePlugin` leaves `Staging` set, as its comment says, until the next update, whose rollback would restore it. A
stopped CPA skipped by an image update starts with its old image, though the message says "the next start will use the
target image" (images.go:324-327, docker.go:270-273). An enabled account without a container makes every change that
restarts the accounts fail. `trimLocked` loops for ever under its mutex if more jobs live than the history holds; the
defaults (concurrency 1, queue 16, history 60) exclude it.

*Usage.* Disabling an account keeps its container and its requests (CHANGELOG.md:76), but the Collector no longer drains
its queue (collector/runtime.go:148-151): what they use is counted only once the account is enabled again. Adjustments put into other weeks by a change of the zone may exceed the week's usage (clamped at 0);
`SetQuotaPolicy` does not recheck the cap of a bonus; a crash between `EnsureWeekTimezone` and
`ConfigurePersonalQuotaReset` leaves policies at the old zone's week ends. `PublicGatewayUsage` counts an empty user as
a key and `AccountSummaries` does not; `TeamUsage` skips a user of a team created between its two reads; Admin's windows
are open at the end and the Portal's end now.

*Status, log, notifications.* A CPA that does not answer stays selectable, by design. Two failing publications in a row
discard all backups; lines appended between copy and truncation are lost; a truncation between the two reads
misaligns the reader until its next reset; a rotation makes Admin forget the last hour's errors. An accepted but
unrecorded notification can leave the saved alerts and the receiver in disagreement; the loss of a "refreshed"
announcement after a failed send is deliberate (`TestWorkerRefreshBaselineAdvancesEvenWhenWebhookFails`). One user who
cannot be placed blocks a whole evacuation, by design.

## 8. Not modelled, and what is left

Not modelled: the generated contract, the frontend, plugins and tools (generated code, pure presentation); Web,
release tools, translations and branding (no state that interacts); tags, which nothing assigns; diagnostics and the
overview (read only); the OAuth login job, which runs without the operation lock; `AllowUnavailableProxyRepair`;
HTTP parsing and cookies; session storage beyond the races of section 7; key.map, which nothing reads.

Only model-checked: every liveness property (`SupersededStops`, `PublicationReachesClients`, `MaintenanceEnds` and
those of `components_progress`), because ENABLED and fairness are out of the prover's reach; and one safety property of
pure algorithms, `ReportsAgree`, which the run evaluates on all bounded inputs: every view folds over the rows, and it
is no theorem for every calendar (`daily_gap` shows it fail where clocks skip midnight). Every other safety property of
a passing run is proved.
