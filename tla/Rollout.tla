-------------------------------- MODULE Rollout -------------------------------
(***************************************************************************)
(* Replicas of two releases start, serve and stop against one database.    *)
(*                                                                         *)
(* A process loads its configuration, migrates the schema, opens what it   *)
(* needs, and then runs the start hooks of its parts in order; it stops by *)
(* running the stop hooks of the parts that were started, in reverse.  A   *)
(* part that serves takes work, and its stop hook waits for what is left.  *)
(* When a deadline passes the process ends where it is, as in a crash.     *)
(*                                                                         *)
(* The libraries fx (hooks), golang-migrate (lock and dirty flag) and the  *)
(* transactions of SyncRoutes under READ COMMITTED are modelled from how   *)
(* the code uses them.  The hooks of logger, tracing and token verifier    *)
(* are left out.                                                           *)
(***************************************************************************)
EXTENDS Configuration, Naturals, Sequences

CONSTANTS
    Replica,
    Setups,     \* Setups[r]: what the process of replica r may be started with
    Good,       \* what the deployment means to start it with
    Routes,     \* Routes[n][p]: the routes of release n in protocol p
    Nobody,
    MaxFaults   \* bound on crashes, missed deadlines and failed steps

Release == 1..2
Protocol == {"grpc", "http"}
Route == UNION {Routes[n][p] : n \in Release, p \in Protocol}

ASSUME RolloutAssumption ==
    /\ \A r \in Replica : Setups[r] \subseteq Setup /\ Good \in Setups[r]
    /\ Loads(Good)
    /\ \A n \in Release : \A p \in Protocol : Routes[n][p] # {}
    /\ \A m, n \in Release : Routes[m]["grpc"] \cap Routes[n]["http"] = {}
    /\ Nobody \notin Replica
    /\ MaxFaults \in Nat

VARIABLES
    release,  \* the release of each replica while it lives, else 0
    cfg,      \* its configuration
    pc,       \* what it does
    up,       \* how many of its hooks are started
    open,     \* the resources it has open
    serving,  \* the parts that take work
    left,     \* parts that take no more, with work still under way
    poller,   \* whether Manager.Run is running
    txn,      \* its transaction in SyncRoutes
    schema,   \* the schema and its migration table
    migrator, \* the holder of the migration lock
    routes,   \* route_definitions
    synced,   \* the release whose routes were stored last, by protocol
    faults

process == <<release, cfg, pc, up, open, serving, left, poller, txn>>
store == <<schema, migrator, routes, synced>>
vars == <<process, store, faults>>

Parts == {"events", "scheduler", "grpc", "http"}
Resources == {"database", "redis", "registry"}

\* The phases of a process, and among them those of its start hooks.
Phases == {"down", "schema", "lock", "version", "migrate", "build",
           "start", "deactivate", "store", "listen", "run", "stop"}
Starting == {"start", "deactivate", "store", "listen"}

NoTxn == [rows |-> {}, missing |-> {}]
NoConfig == [profile |-> "", on |-> {}]

TypeOK ==
    /\ release \in [Replica -> Release \cup {0}]
    /\ cfg \in [Replica -> {NoConfig} \cup [profile : Profile, on : SUBSET Switch]]
    /\ pc \in [Replica -> Phases]
    /\ up \in [Replica -> 0..7]
    /\ open \in [Replica -> SUBSET (Resources \cup {"events"})]
    /\ serving \in [Replica -> SUBSET Parts]
    /\ left \in [Replica -> SUBSET Parts]
    /\ poller \in [Replica -> BOOLEAN]
    /\ txn \in [Replica -> [rows : SUBSET Route, missing : SUBSET Route]]
    /\ schema \in [exists : BOOLEAN, version : 0..2, dirty : BOOLEAN]
    /\ migrator \in Replica \cup {Nobody}
    /\ routes \in [Route -> {"absent", "active", "inactive"}]
    /\ synced \in [Protocol -> Release \cup {0}]
    /\ faults \in 0..MaxFaults

Init ==
    /\ release = [r \in Replica |-> 0]
    /\ cfg = [r \in Replica |-> NoConfig]
    /\ pc = [r \in Replica |-> "down"]
    /\ up = [r \in Replica |-> 0]
    /\ open = [r \in Replica |-> {}]
    /\ serving = [r \in Replica |-> {}]
    /\ left = [r \in Replica |-> {}]
    /\ poller = [r \in Replica |-> FALSE]
    /\ txn = [r \in Replica |-> NoTxn]
    /\ schema = [exists |-> FALSE, version |-> 0, dirty |-> FALSE]
    /\ migrator = Nobody
    /\ routes = [x \in Route |-> "absent"]
    /\ synced = [p \in Protocol |-> 0]
    /\ faults = 0
-------------------------------------------------------------------------------
On(r, x) == x \in cfg[r].on
Go(r, phase) == pc' = [pc EXCEPT ![r] = phase]

\* What is disabled is not made; the other constructors always add a hook.
Made(r, h) == h \in {"database", "redis"} => On(r, h)

\* The order in which the constructors add their hooks: fx makes what a
\* constructor takes before it calls the constructor.  What is opened comes
\* first.
Opening(r) ==
    (IF Made(r, "database") THEN <<"database">> ELSE <<>>)
      \o (IF Made(r, "redis") THEN <<"redis">> ELSE <<>>) \o <<"registry">>

Hooks(r) == Opening(r) \o <<"events", "scheduler", "grpc", "http">>
Hook(r) == Hooks(r)[up[r] + 1]

\* The process is gone, and with it what it held.
Gone(r) ==
    /\ Go(r, "down")
    /\ cfg' = [cfg EXCEPT ![r] = NoConfig]
    /\ up' = [up EXCEPT ![r] = 0]
    /\ open' = [open EXCEPT ![r] = {}]
    /\ serving' = [serving EXCEPT ![r] = {}]
    /\ left' = [left EXCEPT ![r] = {}]
    /\ poller' = [poller EXCEPT ![r] = FALSE]
    /\ txn' = [txn EXCEPT ![r] = NoTxn]
    /\ migrator' = IF migrator = r THEN Nobody ELSE migrator
    /\ release' = [release EXCEPT ![r] = 0]
    /\ UNCHANGED <<schema, routes, synced>>

Fault == faults < MaxFaults /\ faults' = faults + 1

\* main: a configuration that cannot be loaded ends the process.  The deployment
\* starts processes of either release.
Launch(r, n, s) ==
    /\ pc[r] = "down"
    /\ Loads(s)
    /\ release' = [release EXCEPT ![r] = n]
    /\ cfg' = [cfg EXCEPT ![r] = Load(s)]
    /\ Go(r, IF "autoUp" \in Load(s).on THEN "schema" ELSE "build")
    /\ UNCHANGED <<up, open, serving, left, poller, txn, store, faults>>
-------------------------------------------------------------------------------
(* The startup migration. *)

Migrating(r, from, to) ==
    /\ pc[r] = from
    /\ Go(r, to)
    /\ UNCHANGED <<release, cfg, up, open, serving, left, poller, txn, routes, synced, faults>>

\* ensureSchema.  The schema is created if that is asked for; a lock in the
\* transaction makes two replicas do it one after the other.
EnsureSchema(r) ==
    /\ Migrating(r, "schema", "lock")
    /\ schema' = [schema EXCEPT !.exists = @ \/ On(r, "createSchema")]
    /\ UNCHANGED migrator

\* Up of golang-migrate: under the lock, it looks at the version.
TakeLock(r) ==
    /\ schema.exists
    /\ migrator = Nobody
    /\ Migrating(r, "lock", "version")
    /\ migrator' = r
    /\ UNCHANGED schema

\* It marks the version dirty, runs the migration, and cleans the mark.
Current(r) == schema.version = release[r] /\ ~ schema.dirty
Behind(r) == schema.version < release[r] /\ ~ schema.dirty

MigrateBegin(r) ==
    /\ Behind(r)
    /\ Migrating(r, "version", "migrate")
    /\ schema' = [schema EXCEPT !.version = @ + 1, !.dirty = TRUE]
    /\ UNCHANGED migrator

\* The first migration brings the routes of its release with it.
MigrateEnd(r) ==
    /\ pc[r] = "migrate"
    /\ Go(r, "version")
    /\ schema' = [schema EXCEPT !.dirty = FALSE]
    /\ routes' = IF schema.version = 1
                 THEN [x \in Route |-> IF x \in Routes[1]["http"] \cup Routes[1]["grpc"]
                                       THEN "active" ELSE routes[x]]
                 ELSE routes
    /\ UNCHANGED <<release, cfg, up, open, serving, left, poller, txn, migrator, synced, faults>>

\* Mutant of Migrated: the connection with the lock is left open.
MigratedHolding(r) ==
    /\ Current(r)
    /\ Migrating(r, "version", "build")
    /\ UNCHANGED <<migrator, schema>>

\* Nothing more to do (ErrNoChange counts as success).
Migrated(r) ==
    /\ Current(r)
    /\ Migrating(r, "version", "build")
    /\ migrator' = Nobody
    /\ UNCHANGED schema

\* Up refuses a dirty version, and one of which it has no file; without the
\* schema there is no migration table.
MigrationRefused(r) ==
    \/ pc[r] = "lock" /\ ~ schema.exists
    \/ pc[r] = "version" /\ ~ Current(r) /\ ~ Behind(r)

\* Mutant of MigrationFails: the error is logged and the start goes on.
MigrationFailsQuietly(r) ==
    /\ \/ MigrationRefused(r) /\ UNCHANGED faults
       \/ pc[r] \in {"schema", "lock", "version", "migrate"} /\ Fault
    /\ Go(r, "build")
    /\ migrator' = IF migrator = r THEN Nobody ELSE migrator
    /\ UNCHANGED <<release, cfg, up, open, serving, left, poller, txn, schema, routes, synced>>

\* runStartupMigration returns the error, and fx.New fails.  Any statement of
\* the migration can be the one that fails.
MigrationFails(r) ==
    /\ \/ MigrationRefused(r) /\ UNCHANGED faults
       \/ pc[r] \in {"schema", "lock", "version", "migrate"} /\ Fault
    /\ Gone(r)
-------------------------------------------------------------------------------
(* Construction, and the start hooks. *)

\* NewHTTPClient refuses credentials without TLS, also where allow_insecure
\* has made the configuration valid.
Constructible(r) == ~ (On(r, "httpUpstream") /\ On(r, "credentials") /\ ~ On(r, "clientTLS"))

\* newDatabase, newRedis and NewRegistry open and try out what they make.  Their
\* hooks are the first, and have nothing to start.
Build(r) ==
    /\ pc[r] = "build"
    /\ Constructible(r)
    /\ open' = [open EXCEPT ![r] = {h \in Resources : Made(r, h)}]
    /\ up' = [up EXCEPT ![r] = Len(Opening(r))]
    /\ Go(r, "start")
    /\ UNCHANGED <<release, cfg, serving, left, poller, txn, store, faults>>

BuildFails(r) ==
    /\ pc[r] = "build"
    /\ \/ ~ Constructible(r) /\ UNCHANGED faults
       \/ Fault
    /\ Gone(r)

Started(r) == up' = [up EXCEPT ![r] = @ + 1]

\* The hook of a disabled part has nothing to start.
Idle(r) ==
    LET h == Hook(r) IN
    \/ h = "events" /\ ~ On(r, "eventBus")
    \/ h = "scheduler" /\ ~ On(r, "cron")
    \/ h = "grpc" /\ ~ On(r, "grpc")

SkipHook(r) ==
    /\ pc[r] = "start"
    /\ Idle(r)
    /\ Started(r)
    /\ UNCHANGED <<release, cfg, pc, open, serving, left, poller, txn, store, faults>>

\* auditEventRuntime.start opens the bus and consumes; cron starts.
StartPart(r) ==
    /\ pc[r] = "start"
    /\ Hook(r) \in {"events", "scheduler"}
    /\ ~ Idle(r)
    /\ Started(r)
    /\ serving' = [serving EXCEPT ![r] = @ \cup {Hook(r)}]
    /\ open' = [open EXCEPT ![r] = @ \cup ({"events"} \cap {Hook(r)})]
    /\ UNCHANGED <<release, cfg, pc, left, poller, txn, store, faults>>

\* The hook of an enabled server is next.
AtServer(r) == pc[r] = "start" /\ Hook(r) \in Protocol /\ ~ Idle(r)

\* Without authorization it has no routes to register.
StartOpen(r) ==
    /\ AtServer(r)
    /\ ~ On(r, "authorization")
    /\ Go(r, "listen")
    /\ UNCHANGED <<release, cfg, up, open, serving, left, poller, txn, store, faults>>

Mine(r) == Routes[release[r]][Hook(r)]

\* Mutant of Scope: the protocol is not compared.
ScopeOfService(r) == Route

\* The rows that SyncRoutes deactivates are those of its protocol.
Scope(r) == UNION {Routes[n][Hook(r)] : n \in Release}

\* SyncRoutes needs the database and its tables.
HasTables(r) == On(r, "database") /\ schema.version >= 1

\* The UPDATE that deactivates sees the rows active when it begins, and waits
\* for transactions that have changed one of them.
SyncSnapshot(r) ==
    /\ AtServer(r)
    /\ On(r, "authorization")
    /\ HasTables(r)
    /\ txn' = [txn EXCEPT ![r].rows = {x \in Scope(r) : routes[x] = "active"}]
    /\ Go(r, "deactivate")
    /\ UNCHANGED <<release, cfg, up, open, serving, left, poller, store, faults>>

\* The rows that transactions of others have changed and not committed.
Locked(r) == UNION {txn[s].rows : s \in {q \in Replica \ {r} : pc[q] = "store"}}

\* Then it changes those that still are active.  The SELECTs that follow see
\* what is committed: the routes that are missing will be inserted.
SyncDeactivate(r) ==
    /\ pc[r] = "deactivate"
    /\ txn[r].rows \cap Locked(r) = {}
    /\ txn' = [txn EXCEPT ![r] =
                 [rows |-> {x \in txn[r].rows : routes[x] = "active"},
                  missing |-> {x \in Mine(r) : routes[x] = "absent"}]]
    /\ Go(r, "store")
    /\ UNCHANGED <<release, cfg, up, open, serving, left, poller, store, faults>>

\* An INSERT fails when another transaction has inserted the row meanwhile.
Duplicate(r) == \E x \in txn[r].missing : routes[x] # "absent"

\* The rows are inserted or activated, and the transaction commits.
SyncStore(r) ==
    /\ pc[r] = "store"
    /\ Mine(r) \cap Locked(r) = {}
    /\ ~ Duplicate(r)
    /\ routes' = [x \in Route |-> IF x \in Mine(r) THEN "active"
                                  ELSE IF x \in txn[r].rows THEN "inactive" ELSE routes[x]]
    /\ synced' = [synced EXCEPT ![Hook(r)] = release[r]]
    /\ txn' = [txn EXCEPT ![r] = NoTxn]
    /\ Go(r, "listen")
    /\ UNCHANGED <<release, cfg, up, open, serving, left, poller, schema, migrator, faults>>

\* Whether the hook starts Manager.Run.
Polls(r) == Hook(r) = "http" /\ On(r, "authorization")

\* RefreshSource loads the policies; the server listens and serves.  That
\* ValidateRoutes finds routes without a policy is only logged.
Listen(r) ==
    /\ pc[r] = "listen"
    /\ serving' = [serving EXCEPT ![r] = @ \cup {Hook(r)}]
    /\ poller' = [poller EXCEPT ![r] = @ \/ Polls(r)]
    /\ Started(r)
    /\ Go(r, IF Hook(r) = "http" THEN "run" ELSE "start")
    /\ UNCHANGED <<release, cfg, open, left, txn, store, faults>>

\* What makes a start fail without any fault.
StartRefused(r) ==
    \/ AtServer(r) /\ On(r, "authorization") /\ ~ HasTables(r)
    \/ pc[r] = "store" /\ Mine(r) \cap Locked(r) = {} /\ Duplicate(r)

\* The n-th hook begins to stop: its part takes no more work, and has some left
\* or not.
Quiesce(r, n) ==
    LET part == {Hooks(r)[m] : m \in {n} \cap DOMAIN Hooks(r)} IN
    /\ serving' = [serving EXCEPT ![r] = @ \ part]
    /\ \E some \in SUBSET (part \cap serving[r]) : left' = [left EXCEPT ![r] = @ \cup some]

\* A start hook returns an error: fx runs the stop hooks of those before it.
\* Its own is not run, so that a poller it has started goes on.
StartFails(r) ==
    /\ pc[r] \in Starting
    /\ \/ StartRefused(r) /\ UNCHANGED faults
       \/ Fault
    /\ Go(r, "stop")
    /\ Quiesce(r, up[r])
    /\ txn' = [txn EXCEPT ![r] = NoTxn]
    /\ \/ pc[r] = "listen" /\ poller' = [poller EXCEPT ![r] = @ \/ Polls(r)]
       \/ UNCHANGED poller
    /\ UNCHANGED <<release, cfg, up, open, store>>
-------------------------------------------------------------------------------
(* Work, and the stop hooks. *)

\* The last request, event or job of a part is over.
Done(r) ==
    /\ \E p \in left[r] : left' = [left EXCEPT ![r] = @ \ {p}]
    /\ UNCHANGED <<release, cfg, pc, up, open, serving, poller, txn, store, faults>>

\* The process is told to stop.  The HTTP server is the first to do so, and
\* stops Manager.Run before.
Stop(r) ==
    /\ pc[r] = "run"
    /\ Go(r, "stop")
    /\ Quiesce(r, up[r])
    /\ poller' = [poller EXCEPT ![r] = FALSE]
    /\ UNCHANGED <<release, cfg, up, open, txn, store, faults>>

\* Mutant of Drained: a stop hook does not wait for the work of its part.
DrainedAnyway(r) == TRUE

\* Shutdown, GracefulStop, the WaitGroup of the consumer and the context of
\* cron wait for the work of the part.
Drained(r) == Hooks(r)[up[r]] \notin left[r]

\* A stop hook is over, and the one before it begins.  A resource is closed by
\* its hook, and the bus by that of the consumer.
StopHook(r) ==
    /\ pc[r] = "stop"
    /\ up[r] > 0
    /\ Drained(r)
    /\ open' = [open EXCEPT ![r] = @ \ {Hooks(r)[up[r]]}]
    /\ up' = [up EXCEPT ![r] = @ - 1]
    /\ Quiesce(r, up[r] - 1)
    /\ UNCHANGED <<release, cfg, pc, poller, txn, store, faults>>

Exit(r) ==
    /\ pc[r] = "stop"
    /\ up[r] = 0
    /\ Gone(r)
    /\ UNCHANGED faults

\* The process is killed, or a deadline for start or stop passes.
Die(r) ==
    /\ pc[r] # "down"
    /\ Fault
    /\ Gone(r)

Step(r) ==
    \/ EnsureSchema(r)
    \/ TakeLock(r)
    \/ MigrateBegin(r)
    \/ MigrateEnd(r)
    \/ Migrated(r)
    \/ MigrationFails(r)
    \/ Build(r)
    \/ BuildFails(r)
    \/ SkipHook(r)
    \/ StartPart(r)
    \/ StartOpen(r)
    \/ SyncSnapshot(r)
    \/ SyncDeactivate(r)
    \/ SyncStore(r)
    \/ Listen(r)
    \/ StartFails(r)
    \/ StopHook(r)
    \/ Exit(r)

Next ==
    \E r \in Replica :
      \/ \E n \in Release : \E s \in Setups[r] : Launch(r, n, s)
      \/ Step(r)
      \/ Done(r)
      \/ Stop(r)
      \/ Die(r)

\* A process goes on, gets the locks for which it waits, and ends its work; the
\* deployment finishes the rollout, and restarts what is down.
Fairness ==
    \A r \in Replica : SF_vars(Step(r) \/ Done(r)) /\ SF_vars(Launch(r, 2, Good))

Spec == Init /\ [][Next]_vars /\ Fairness
-------------------------------------------------------------------------------
\* What work of a part uses: requests are authenticated and limited, read the
\* database, ask other services and publish operation logs; an event is recorded
\* after a look at its application; the job takes its lock in Redis.
Needs(r, p) ==
    LET uses == CASE p \in Protocol -> Resources \cup {"events"}
                  [] p = "events" -> {"database", "registry", "events"}
                  [] p = "scheduler" -> {"redis"}
                  [] OTHER -> {}
    IN {h \in uses : IF h = "events" THEN On(r, "eventBus") ELSE Made(r, h)}

\* No request, event or job meets a closed connection: stops, failed starts and
\* their rollback close what work uses only after that work has ended.  A missed
\* deadline ends the process without closing anything.
WorkHasItsResources ==
    \A r \in Replica : \A p \in serving[r] \cup left[r] : Needs(r, p) \subseteq open[r]

\* "Startup fails when migration fails" and "Concurrent replicas are serialized
\* by the database migration lock" (README): what goes past the startup
\* migration has the schema of its release, whole, whoever migrated it, and
\* only the migration of a newer release is ever under way beside it.
SchemaServesRelease ==
    \A r \in Replica :
      On(r, "autoUp") /\ pc[r] \in Starting \cup {"build", "run", "stop"} =>
        /\ schema.version >= release[r]
        /\ schema.dirty => schema.version > release[r]

\* route_definitions has active the routes of the release that registered them
\* last, in both protocols, whatever transactions of SyncRoutes overlapped; and
\* a server takes requests only after the routes of its own release are known,
\* so that a policy can be set for each of them, and over HTTP not without
\* Manager.Run.
RoutesFollowLastSync ==
    /\ \A p \in Protocol : synced[p] # 0 =>
         \A x \in Routes[synced[p]][p] : routes[x] = "active"
    /\ \A r \in Replica : On(r, "authorization") =>
         /\ \A p \in serving[r] \cap Protocol :
              \A x \in Routes[release[r]][p] : routes[x] # "absent"
         /\ "http" \in serving[r] => poller[r]

\* "authorization must be enabled in production", "grpc tls must be enabled in
\* production" and the like (Validate): a process whose active profile is
\* production serves only guarded, whichever of flag, environment and files
\* named the profile or changed a switch.
ProductionIsGuarded ==
    \A r \in Replica : cfg[r].profile = "production" =>
      /\ serving[r] \cap Protocol # {} => On(r, "authorization") /\ On(r, "jwks")
      /\ "grpc" \in serving[r] => On(r, "grpcTLS") /\ ~ On(r, "reflection")

\* However the replicas meet in the migration and in SyncRoutes, each of them
\* serves in the end, unless a migration that failed or died has left the
\* schema dirty, which waits for an operator.
EveryReplicaServes == \A r \in Replica : []<>(pc[r] = "run" \/ schema.dirty)
===============================================================================
