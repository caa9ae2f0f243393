# Audit service: a verification project

TLA+ models of the audit service, the TLC runs that check them on small
instances, and proofs for every value of the constants. `PROJECT.json` lists
components, runs, mutants, the map from definitions to source lines, findings,
hazards and theorems. Paths below are relative to `src/`.

## 1. The system

The service stores immutable audit records in a SQL database and serves them.
Several replicas run against one database, one Redis and one NATS JetStream.

| Part | State it keeps | Operations | Hard behaviour |
|---|---|---|---|
| audit recording (`internal/audit`, `internal/database/transaction.go`) | tables `audit_records`, `audit_record_keys` | `Record` | lookup and insert are separate statements; two replicas record one event; COMMIT of unknown outcome |
| event consumer (`internal/app/audit_eventbus.go`) | the durable consumer of the bus | `start`, `consume`, `stop` | at-least-once delivery, crash between commit and acknowledgement, delivery limit |
| reading and export (`internal/audit`) | none | `Get`, `Query`, `Export` | paging by count and offset while rows are inserted |
| route policies (`internal/routepolicy`) | policies in the database; a compiled snapshot and a revision in each replica | `Set`, `RefreshSource`, `Run`, `Notify`, `SyncRoutes`, `EvaluateRoute` | optimistic versions, reloads that share no transaction, lossy notification, poll by revision |
| HTTP and gRPC pipelines (`internal/transport`) | per-request context | deadline, limits, authentication, policy, idempotency, access log | order of the middlewares, what is stored when a step fails |
| idempotency (`internal/idempotency`, middleware) | a mark per key in Redis | `Begin`, `Complete`, `Fail` | expiry while the worker runs, result not stored |
| locks and scheduler (`internal/cache`, `internal/scheduler`) | a lock per key in Redis | `TryLock`, `Lock`, `Extend`, `Unlock`, the cron job | expiry while the job runs |
| outbound clients (`internal/outbound`, `internal/grpcclient`) | circuit breaker | `Do`, retries | repeating what may be done; what counts against the upstream |
| configuration (`internal/config`) | none after the start | `LoadWithProfile`, `Validate` | which of flag, environment and files names the profile, and which profile is checked |
| migrations (`internal/migration`) | schema, version and dirty mark in the database | `Run` at the start | replicas that migrate together; a death in the middle; two releases on one schema |
| application lifecycle (`internal/app`, hooks of the servers) | what is open, what serves | start and stop hooks | order of hooks, rollback of a failed start, work under way when connections close |
| health (`internal/health`) | none | `Live`, `Ready`, the gRPC check | two probes joined |
| rate limits, authentication | little | see `PROJECT.json` | |

Interaction: the consumer and both servers call `Service.Record`; every request
of `/api/v1` is admitted by the snapshot of `routepolicy.Manager`; `Set` writes
the database, reloads its own snapshot and publishes on a Redis channel that
every `Manager.Run` subscribes to; `Run` also polls the database.

What makes each part correct: a record id has one row, forever, whoever records
it and however often; an answer or an acknowledgement is only given for a
committed row of the right tenant; an admissible event is recorded in the end;
an export is the query it stands for; of two updates of one policy version one
is accepted; what a replica enforces never goes back, includes its own writes
and ends at what the database holds;
a job runs under its lock and is never locked out for good; what goes past the
startup migration has its schema, whole; no work meets a closed connection; and
a process of the production profile serves only guarded.

## 2. Modules

| Module | Models | State |
|---|---|---|
| `AuditLog` | abstract: an append-only log with one row per id that answers only with its rows | `records`, `answered` |
| `AuditIngest` | `Service.Record`, `Transactor.Within`, `SQLRepository.Create/Get`, the consumer and the clients around it | database (`keys`, `records`, `orphans`), runs (`pc`, `job`, `value`), bus (`due`, `count`, `done`), observation (`answered`), `faults` |
| `AuditIngestProofs` | theorems about `AuditIngest` | |
| `AuditExport` | `Service.Export` over `SQLRepository.Query`, with inserts | `table`, the loop variables of Export, `lines` of the CSV; observations `start`, `slipped` |
| `AuditExportProofs` | theorems about `AuditExport` | |
| `RoutePolicy` | `routepolicy.Service.Set`, `Repository.Set/Load/Revision`, `Manager`, start and crash of a replica | `db`, `clock`; per call `wpc`, `input`, `stamp`, `outcome`; per replica `snapshot`, `revision`, `inbox`, `life`; per reload `refresh` |
| `RoutePolicyProofs` | theorems about `RoutePolicy` | |
| `Idempotency` | `IdempotencyExecution` over the marks in Redis | per request `stage`, `call`, `budget`, `reply`; per key `mark` |
| `IdempotencyProofs` | theorems about `Idempotency` | |
| `RequestChain` | the middlewares of the HTTP server and the interceptors of the gRPC server | one request: `shape`, `pos`, `dir`, `subject`, `read`, `reply`, `writes`, `served`, `late`, `panicked`, `records`; `cfg` and the current `rule` |
| `RequestChainProofs` | theorems about `RequestChain` | |
| `Outbound` | `HTTPClient.Do` and the interceptors of `grpcclient.Dial` | per caller `phase`, `call`, `attempt`, `ctx`, `last`, `answer`, `open`, `current`; the `breaker`; observation `bad` |
| `OutboundProofs` | theorems about `Outbound` | |
| `Scheduler` | the cron job of each replica, `TryLock` and `Unlock` over redsync | `redis`; per job `stage`, `mine`, `age`; the `lock` and releases on their way (`late`) |
| `SchedulerProofs` | theorems about `Scheduler` | |
| `Configuration` | `LoadWithProfile`, `setDefaults`, `Validate`, `validateClientPolicy` | none: operators over what a process is started with |
| `Rollout` | extends `Configuration`: `main`, the startup migration, constructors, start and stop hooks, `SyncRoutes` | per replica `release`, `cfg`, `pc`, `up`, `open`, `serving`, `left`, `poller`, `txn`; the database: `schema`, `migrator`, `routes`, `synced`; `faults` |
| `RolloutProofs` | theorems about `Rollout` and `Configuration` | |
| `MC*` | the constants of the instances | |

### AuditIngest

A worker is a goroutine that runs `Record` for a message: an event of the bus or
a call of a client. Its `pc` names the next statement: the checks (`Admit`), the
lookup of a given id (`Lookup`), the two inserts of `Create` (`InsertKey`,
`InsertRow`), `Commit`, the lookup after `ErrDuplicate` (`Reread`) and the return
(`Answer`). The insert of the key waits for every open transaction with the same
id, which is what the unique index does. `CommitUnknown` and `Crash` leave a row
in `orphans`: the server has the COMMIT and decides later (`ResolveOrphan`).
`Fail` is the error return: the consumer refuses the event, the client may call
again. The data of a record is one `Body`; id, tenant and `occurred_at` are kept
apart because the properties are about them. An empty id draws from `FreshId`
one that was not used before (UUIDs do not collide).

A principal is assumed to have an id, as those the pipelines create do;
without one `Within` returns an error, which is `DbError` here.

### AuditExport

Rows are numbers in the sort order. A page is two steps, `Count` and `Select`;
`Insert` may happen between any two steps and put a row anywhere, since
`occurred_at` is the producer's. Page limit and largest export are constants
(100 and 10000 in the code).

### RoutePolicy

A call of `Set` is validated, opens its transaction (`SetBegin`: SELECT FOR
UPDATE and the version check), commits, reloads its replica, notifies and
returns. `RefreshSource` is three steps under the mutex of its replica: the
policies (`RefreshBegin`), the references and the compilation
(`RefreshInstall`), the revision (`RefreshRevision`). `stamp` is the time of the
write statement, so `db[x].at` is not the order of the commits. `Manager.Run`
takes a message (`RunMessage`) or finds a new revision (`RunPoll`) and then
waits for the mutex (`RunReload`); pending messages are one flag, since each
only asks for a reload. Expressions and reference sets are model values;
`Compiles` (the CEL compiler, external) says which go together, `Trimmed` what
trimming does to references. The database triggers give the version.
Authorization is enabled and replicas have loaded the seed in the initial state.

### Idempotency

A request arrives, takes the mark of its key or is answered from it (`Acquire`,
`Decline`), runs the handler (`Finish`, `Panic`) and publishes its answer
(`Persist`). Each Redis call can fail before or after it took effect
(`BeginUnavailable`, `BeginLost`, `PersistLost`). `Tick` is one unit of time: it
takes from the life of the marks and from the deadlines, and does not pass a
deadline, since the contexts of Begin, handler and publication end there. A
handler that ignores its context would overrun it; none in the repository
does, all their work being SQL and Redis calls with that context. The manager is a
library; the model takes from it that Begin is atomic, compares fingerprints and
sets an expiry, and that Complete and Fail compare owners in Lua (`README.md:224`
of the repository). Requests without a key or outside the configured paths pass
the middleware by and are not modelled.

### RequestChain

A chain is a sequence of stages, `pos` the stage a request is at and `dir`
whether it goes in, comes back, panics or is done. A stage's action on the way
in is its code before `c.Next`, on the way back the code after it. Stages that
only add headers, ids, logs and metrics are left out, and so is the idempotency
stage. One request is followed: others would meet it only in the limiter, which
may refuse at any time, and in the policies, which `Reload` changes at any time.
`rule` is what the snapshot holds for the request's route, by what `Evaluate`
would return. Verification of tokens and PSKs is the `cred` of a request.
`ServedUnderPolicy` is about the routes and methods that can have a policy. The
gRPC health check cannot: route discovery leaves it out, and the README (line
164) means it to be unauthenticated. It passes the same stages, which refuse it
when authorization is enabled (section 4). The property takes a bad credential
to be refused on every other route, as the middlewares that are installed do;
the skip lists the README describes (line 135) are not read by them.

A panic can start in the handler, before or after it wrote its answer
(`HandlerPanics`), in a stage on the way in (`StagePanics`) or in the recorder of
the access log (`RecorderPanics`). It skips what the stages do after the call;
`Recovery` answers it without asking whether something was written, so an HTTP
answer that was written gets a second body appended. `AnsweredOnce` states this
exception. Over gRPC what a handler returned is dropped.

Recording an access is handing an entry to the recorder; that it cannot be stored
is logged and changes nothing else. Since every handler answers through `OK` or
`Fail`, also when its context has ended, the answer of `Timeout` is only possible
for a request without a route.

### Outbound

A call begins if the breaker admits it, makes attempts with waits between them
(`Attempt`, `Wait`, `WaitCut`) and ends, when the breaker counts the whole
series as one. A busy response of HTTP goes through the breaker inside an error,
which counts it, and is taken out again for the caller (`Wrap`, `Unwrap`). What
an attempt does to the upstream is not modelled. Its outcomes are the classes that the code tells apart; the backoff is a
wait of any length, which at most five attempts keep far from overflow
(`config/config.go:639`). The breaker is the library gobreaker: one probe when
half-open, and a series that was admitted in an earlier state does not count
(`Ignored`). `bad` observes from outside how many series admitted in the present
state have failed, for HTTP since the last success; a caller's cancellation is
none of them.
The gRPC client excludes OK, and the repository does not show what the library
makes of that, so the model has both. Closing idle connections and stopping the
registry are left out here; the latter is a step of `Rollout`.

### Health, in RequestChain

`/ready` and the gRPC check are handlers of their own in `RequestChain`: a probe
of each dependency (`Probe`) ends up, down or disabled, in any order, `ready` is
what the loop of `Service.Ready` has made of the results so far (`Joined`), and
the answer is given after both (`Ready`): 503 over HTTP, NOT_SERVING without an
error over gRPC. `ReadyMeansAllUp` is about checks that are served; `List` of the
gRPC health service, which always says SERVING, is not modelled. The two timeouts are two of the ways in which a probe is down.

### Scheduler

An attempt has a token of its own. Redis has taken the lock (`Take`) before the
caller learns of it (`Acquired`), and a caller that gives up leaves a release on
its way or none (`Abandon`, `LateRelease`). `age` is the time since the call of
`TryLock`, in the units of `Tick`, which passes no deadline of the two contexts;
a running job may stall for any time, since nothing renews its lock. Lock and
Extend of the Locker have no caller in the service.

### Configuration and Rollout

A configuration is the set of switches that are on; the layers (`Defaults`, the
file, the file of the profile, the environment) turn switches on and off.
`Validate` has the checks that depend on the profile or on two parts being
enabled together. The checks of single values are the switch `malformed`, and so
are those that a part which is enabled has its values and that client
credentials come with a secret (`config/config.go:535`), on which no property
depends.

A process of `Rollout` goes through the phases `schema`, `lock`, `version`,
`migrate` (the startup migration), `build` (constructors), `start`,
`deactivate`, `store`, `listen` (start hooks), `run` and `stop`. `up` counts the
hooks that are started, in the order in which the constructors add them, which
follows from what they take: first what is opened (`Opening`; disabled
connections have no hook, `Made`), then the four parts (`Hooks`). A
failed start hook runs the stop hooks of those before it (`StartFails`), as
`Stop` does from the last one. A part that stops takes no more work and may have
some left (`Quiesce`), for which its hook waits (`Drained`); a deadline that
passes ends the process where it is (`Die`), since fx runs no further hooks
then. `SyncRoutes` is three steps, as under READ COMMITTED: the rows that its
UPDATE finds (`SyncSnapshot`), the change of those still active after waiting
for others (`SyncDeactivate`), inserts and commit (`SyncStore`, `Duplicate`). The
UPDATE takes its row locks in one step, so that a deadlock of two UPDATEs, which
the database would end with an error, is not in the model as such; a failed
statement is. The releases of the run share an active route of each protocol,
which every `SyncRoutes` locks: the second of two replicas sees what the first
has inserted, and `Duplicate`, the unique key of `route_definitions` against a
second insert, never holds there.
Each release has one migration; the first one brings the routes of the first
release, as `000007_route_policies.up.sql` does. A failed statement leaves the
version dirty, and nobody cleans it in the model.

## 3. Runs

| Run | Result | What it shows |
|---|---|---|
| `ingest_race` | pass | Two workers; an event, another tenant's call with the same id, a call without id; two deliveries each and two faults. `OneRowPerKey`, `AnswersAreRecorded`, `AckedIsRecorded`, `RowsAreRequested`, `TransactionsExclusive`, refinement of `AuditLog` (`ImplementsLog`). |
| `ingest_live` | pass | One event published twice and a refused call, three deliveries, two faults: `ReplaysAgree`, and `AdmissibleEventsRecorded` under fairness. |
| `export_pages` | pass | Pages of two, up to six rows, every table: exports of whole pages are the query (`WholePagesAreTheQuery`) and cover old rows in spite of inserts (`OldRowsCovered`); no export exceeds its bound (`TypeOK`). |
| `export_partial_page` | violation | `ExportIsTheQuery` for `max_records` 3 with pages of two. |
| `policy_safety` | pass | Two calls on two replicas, three routes (one without a policy, one unregistered), one fault of any kind including a crash, and an input that only compiles trimmed: `OneWriterPerVersion`, `WriterSeesItsPolicy`, `SnapshotNeverGoesBack`. |
| `policy_notify` | pass | Redis, no faults: `ReplicasConverge`. |
| `policy_poll` | violation | No Redis: `ReplicasConverge` fails. |
| `idempotency` | pass | Two requests of two subjects with two bodies under one key; deadline 3, publication 1, mark 2, so that workers come late: `WorksUnderMark`, `ReplayIsOwn`, `StoredResultIsFinal`, and `KeyIsReleased` under fairness. |
| `request_chain` | pass | Every kind of request, credential, key, origin and media type under five configurations, while the rule changes and any stage, handler or recorder may panic: `ServedUnderPolicy`, `AccessIsRecorded`, `AnsweredOnce`, `ReadyMeansAllUp`, `EveryRequestEnds`. |
| `outbound` | pass | Two callers of one client: HTTP with a breaker (two attempts, threshold two), HTTP without one (three attempts), gRPC with one. `ResponsesAreAccounted`, `TripsOnFailures`, and `EveryCallEnds` under fairness. |
| `scheduler` | pass | Two replicas, a lock of two units, calls of one: `WorksUnderLock`, `OverlapNeedsStall`, and `JobKeepsRunning` under fairness. |
| `rollout` | pass | Two replicas of two releases, one of them at times with another of five setups, one fault: `WorkHasItsResources`, `SchemaServesRelease`, `RoutesFollowLastSync`, `ProductionIsGuarded`, and `EveryReplicaServes` under fairness. |

Bounds. `MaxDeliver` is `consumer_max_deliver`; two suffices for a repeated
delivery to race the first, three to survive two faults. `MaxFaults` bounds
database errors, lost answers, lost commits, crashes and deliveries that
overtake a slow worker; two allow a fault during the recovery from another. Two
workers are enough for every race of two runs, and the proofs lift the bound.
`OldRowsCovered` excludes a row committed between the count and the select of
one page: then the stale count ends the loop early, which the run would report
without that condition. Symmetry (workers, fresh ids, clocks) is used only in
`ingest_race`, which has no liveness property. The times of `Idempotency`
reverse the order of the defaults (10 s, 2 s, 30 s), because late workers are
the hard case; the theorems cover every order. `RequestChain` needs no bound: a
request passes at most twelve stages. In `Outbound` two callers can meet at the
breaker, a threshold of two needs two failures in a row, and two or three
attempts allow a retry of a retry. `bad` is counted up to the threshold. In `Scheduler` a lock of two units can
expire before, during and after a job, and three tokens allow a late release of
an attempt before the current ones. In `Rollout` two replicas can meet in the
migration, in `SyncRoutes` and with different releases; the releases share a
route, one drops a route and one adds one; the setups contain each way to choose
production, one that `Validate` must refuse for what the environment does, one
without most parts, and two that are valid and cannot start. One fault is enough
for a dirty version, a rollback of a start and a death with work under way; a
second would add deaths during the recovery, which restarts like the first.

What some properties leave open. `OldRowsCovered` is about rows committed between
pages. `WriterSeesItsPolicy` and `SnapshotNeverGoesBack` compare versions: they
do not say that the references a snapshot has joined belong to that version, or
that a stored policy compiles. `ReplicasConverge` is checked with one route that
is written, so that two commits whose time stamps are in the other order do not
meet. `RoutesFollowLastSync` says that the routes of the release that committed
last are active, not that no others are: a route that the newer release inserts
after the older one's UPDATE took its snapshot stays active when the older one
commits last. `WorkHasItsResources` is about the consumer, the scheduler and the
servers, and leaves out `Manager.Run`, for which no hook waits.

The type invariants of `RequestChain`, `Outbound` and `Rollout` are not in these
configurations; they are proved (section 5).

Fairness. A goroutine that can go on does (`WF` on the steps of a run, `SF`
where it competes for a row lock or a mutex); the bus delivers what is due and
its acknowledgement timers run; the database ends the transactions it holds; the
ticker, the subscription and the restart of a replica (by the deployment) go
on. A request goes on along its chain, and time passes. Cron fires again and again and Redis is
reached from time to time (`SF` on `Take` and `Acquired`). A process goes on and
gets the locks it waits for (`SF` on its steps), and the deployment restarts
what is down with the new release and a good configuration. Nothing is assumed of
faults, of callers or of new inserts.
`AdmissibleEventsRecorded` needs fewer faults than deliveries, since the bus
gives up after the limit, and no other tenant with the same id, since `Record`
then fails each time.

## 4. Findings

1. Export with a `max_records` that is not a multiple of 100 repeats some rows
   and omits others: the last page is smaller and its OFFSET is computed from
   the smaller size (`audit/service.go:248`, `audit/repository.go:68`).
2. A reload reads the revision after the policies (`routepolicy/manager.go:51-56`).
   A write that commits in between is never loaded by the poll. With Redis the
   writer's message repairs it; without Redis, the default, nothing does.

Observations made while modelling, for which there is no run:

- `Set` compiles trimmed permission references and stores the untrimmed ones
  (`routepolicy/service.go:75-89`). The stored policy may not compile, and then
  every later reload of every replica fails. `policy_safety` has such an input.
- With authorization enabled, as production requires, the gRPC health check is
  refused: the interceptor covers it (`transport/grpc/server.go:115-127`), route
  discovery leaves it out (`:95`). The README (line 164) calls it
  unauthenticated, and the default of `auth.skip_grpc_methods` names it
  (`config/config.go:416`). In `RequestChain` the rule of the health service is
  always missing (`RuleHere`).
- A panic after an HTTP answer was written makes `Recovery` append a second JSON
  body to it (`transport/http/middleware.go:231`), where `Timeout` asks first.
- `authorization.enabled` without a database is valid and cannot start:
  `SyncRoutes` needs the database. An HTTP upstream with credentials and
  `allow_insecure` is valid (`config/config.go:630`) and refused by
  `NewHTTPClient` (`outbound/http.go:37`).
- When the HTTP server cannot listen, `Manager.Run` has been started already and
  is not stopped, since the stop hook of a failed start is not run
  (`transport/http/server.go:94-100`); it polls until the process ends.
- Once the newer release has migrated, a replica of the older one cannot start
  again with `auto_up`: the migrator has no file for the version it finds.
- `SyncRoutes` of the older release marks the routes that only the newer one has
  inactive, unless they were inserted after its UPDATE began. The policies of those routes stay in force: `Load` does not look at
  the status of a route.

- The mark of an idempotency key is never renewed, and any positive
  `processing_ttl` is accepted (`config/config.go:576`). Below
  `http.request_timeout` two requests can execute at once, where the README
  (line 222) promises 30010. The defaults are safe (`OneExecutionPerKey`).
- The lists `auth.skip_*` and `auth.psk.*` have no effect: the wired middleware
  (`transport/http/middleware.go:420`) does not read them. The README (line 135)
  describes them.
- The HTTP client repeats a POST whose context has an idempotency key without
  sending the key (`outbound/http.go:135-141`), so that the upstream cannot
  recognise the repetition; the gRPC client sends it. The README (line 228)
  speaks of "calls carrying an idempotency key".
- The breaker encloses the path check of the HTTP client, so a caller's invalid
  path counts as a failure of the upstream (`outbound/http.go:94`).

## 5. Proofs

`AuditIngestProofs` proves, for every set of workers, messages, ids, tenants and
times and every bound, from `ConstantsAssumption` alone (ids, tenants and times
are apart from their "empty" values, `Req` maps messages to requests):

- `InvariantHolds`: `Spec => []IInv`;
- `TypeCorrect`, `StoredOnce`, `InsertsExclusive`, `AnswersDurable`,
  `AcknowledgedDurable`, `OnlyRequestedRows`, `ReplaysReturnOneRow`: the safety
  properties of the runs;
- `Refinement`: `Spec => ImplementsLog`.

`OneRowPerKey` is not inductive: that a commit adds no second row of an id
depends on what the other runs hold. `IInv` adds what a run holds at each
statement (`RunInv`), that at most one transaction, open or left with the
server, has inserted an id and none a committed one (`TransactionsExclusive`),
and that a minted id is private until it is committed (`MintedPrivate`), which
replaces the lookup such runs skip. The proof has one step per action; the
refinement maps `Commit` and a committing `ResolveOrphan` to `Append`, `Answer`
and `AnswerLost` to `Reply`, and every other step to a stutter.

`IdempotencyProofs` proves, for every set of requests, keys and calls, from
`IdempotencyAssumption` (times are positive, calls have keys):

- `TypeCorrect`;
- `MarksAreHeld`: `WorksUnderMark`, whatever the times are: a request that has
  worked for less than `ProcessingTTL` holds the live mark of its key. The
  inductive invariant is `Leased` (the mark lives at least as long as the part
  of `ProcessingTTL` the request has not used) with `BudgetBound`;
- `OneExecutionPerKey`: `NoOverlap`, if `ProcessingTTL > RequestTimeout`, from
  `MarksAreHeld`; no run checks it, since the run takes the other case;
- `ResultIsNeverRefused`: `LeaseOutlivesWork`, which is inductive with
  `BudgetBound`, if `ProcessingTTL > RequestTimeout + PersistTimeout`;
- `ReplaysAreOwn`: `ReplayIsOwn`, through `PrintsAgree` (a worker's mark has the
  fingerprint of its call, a published result the fingerprint of the call it
  answers), whatever the times are;
- `StoredResultsAreFinal`: the action property `StoredResultIsFinal`.

The fingerprint is a tuple in the model: two different requests with one SHA-256
value are taken to be impossible.

`AuditExportProofs`, for every finite set of rows, every page size and every
limit that is a multiple of it (`ExportAssumption`; 100 and 10000 in the code):
`TypeCorrect`, `PagesTile` (`WholePagesAreTheQuery`) and `NothingOldIsMissed`
(`OldRowsCovered`). The page that `LIMIT` and `OFFSET` select is the rows whose
rank, the number of rows before them, lies in an interval. The lemmas say that
ranks differ (`RanksDiffer`), follow the order (`RankOrders`), leave no gap
(`RanksFill`) and only grow when rows are inserted (`RankGrows`). Of the
invariant, `Tiled` says that an undisturbed export has written exactly the ranks
below the offset of its next page, and `Covered` that in a table that grows an
old row not yet written has a rank at or behind that offset. Neither property is
inductive without them, since both speak only of an export that has ended.

`RoutePolicyProofs`, for every set of replicas, routes, calls and inputs, any
relation `Compiles` and any number of faults (`PolicyAssumption`: `None` is
apart from policies, inputs and entries, each call has a replica, the seed has
version 1 for registered routes): `TypeCorrect`, `VersionsAreTakenOnce`
(`OneWriterPerVersion`), `SetIsEnforced` (`WriterSeesItsPolicy`) and the action
property `ReloadsOnlyAdvance` (`SnapshotNeverGoesBack`). Two arguments meet. The
row lock orders the writes of a route: an open transaction is the only one on
its route and based on the version that is committed (`Based`), so each call
that has committed is overtaken and has a version of its own (`Overtaken`). The
mutex orders the reloads of a replica (`Mutex`): what a reload holds after its
first statement is at least as new as the snapshot it will replace
(`HeadsAhead`) and shows every call that waits for it or was served before
(`HeadsSee`), which the snapshot inherits (`SnapshotSees`). That the references
are read later, and may belong to another version, does not enter: the
properties are about versions.

`RequestChainProofs`, for every set of configurations and requests
(`ChainAssumption`: only business requests and calls can be reads that the
access log tracks, as `auditAccessOperation` and its gRPC twin have it): `TypeCorrect`,
`NoWayAroundThePolicy` (`ServedUnderPolicy`), `OneEntryPerAccess`
(`AccessIsRecorded`), `OneAnswer` (`AnsweredOnce`), `ReadinessIsTrue`
(`ReadyMeansAllUp`). A lemma gives the place of each stage in each chain
(`Places`) and one covers the three ways a panic starts (`PanicKeeps`). The
invariant says what a request has behind it at each place
(`Screened`, `Logging`), that nothing is answered on the way in (`Entering`,
`Answering`), how far a panic is from the recovery (`Panicking`) and what
`Ready` has made of the probes so far (`Probing`). A change of the order of two
middlewares breaks `Places`, or the step of the stage that moved.

`OutboundProofs`, for every set of callers, clients and calls
(`OutboundAssumption`: one to five attempts and a positive threshold, as
`Validate` demands): `TypeCorrect`, `NothingLeaks` (`ResponsesAreAccounted`) and
the action property `OpensOnFailures` (`TripsOnFailures`). `Series` bounds the
attempts of a call and says which body is open at each phase; `Wrapping` that
the caller gets what went into the breaker; `Counted` that the failures a closed
breaker has counted are among those observed.

`SchedulerProofs`, for every set of replicas and tokens and all positive times
(`SchedulerAssumption`): `TypeCorrect`, `HeldWhileRunning` (`WorksUnderLock`)
and `OverlapOnlyByStall` (`OverlapNeedsStall`). While an attempt works, life of
the lock and age of the attempt add up to at least `LockTTL` (`Leased`); a token
belongs to one attempt and a late release carries that of one that is over
(`Private`), so that it never frees the lock of another.

`RolloutProofs`, for every set of replicas, every set of setups, any routes of
the two releases and any number of faults (`RolloutAssumption`: setups are well
formed, and no route is both an HTTP and a gRPC route): `TypeCorrect`,
`NothingIsClosedUnderWork` (`WorkHasItsResources`), `SchemaIsReady`
(`SchemaServesRelease`), `LastSyncDecides` (`RoutesFollowLastSync`) and
`GuardsAreUp` (`ProductionIsGuarded`). What is opened takes the first one to
three hooks and the parts the four after them (`HooksAre`, for every
configuration). The invariant says where `up` stands in each phase (`Counted`),
that only a part whose hook is started has work, and that the part whose hook is
about to stop takes none (`Placed`), and that resources are open as long as a
part can be up (`Opened`): that a stop hook waits for its part then gives the
first property. A transaction of `SyncRoutes` deactivates rows of its protocol
only (`Registered`), so that the commits of the two protocols do not disturb
each other. `SchemaServesRelease` is inductive with the type invariant: a
migration begins on a clean version and raises it. `GuardsAreUp` rests on
`LoadIs`: what is loaded was validated for the profile that is active.

Every safety property of the runs is stated by a theorem. Only model-checked are
the liveness properties (`AdmissibleEventsRecorded`, `ReplicasConverge`,
`KeyIsReleased`, `EveryRequestEnds`, `EveryCallEnds`, `JobKeepsRunning`,
`EveryReplicaServes`): they rest on fairness and `ENABLED`, which the prover does
not handle. The violations of `export_partial_page` and `policy_poll` are
counterexamples and need no proof.

## 6. Plan

1. Abstract specifications for other components, and the proof that the detailed
   ones implement them: a register with versions for the policies of a route
   (`RoutePolicy`), and an idempotent operation (`Idempotency`).
2. Safety lemmas on the way to the liveness properties, such as that a key,
   a lock or a migration lock always has somebody who will release it.
3. Operators for `Query` and `normalizeFilter`, checked against a reference.

## 7. Not modelled

Metrics, logs, tracing, request ids, error tables, the generated API description
(`docs/docs.go`), the content of summaries and CSV cells, the conversion of gRPC
messages, and the libraries behind the bus, CEL, Redis, migrations, fx and the
tokens, which appear only as the code uses them. Of modelled components: the
migrate command with `down` and `steps` and the rewriting of connection URLs;
`Lock`, `Extend` and `Until` of the Locker, `Authentication` and `Authorization`
of the HTTP transport and the tokens of `auth.Service.Issue`, which nothing in
the service calls; the routes for swagger, metrics and pprof; paging of policies
and reading of records, which change nothing.
