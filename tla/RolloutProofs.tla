---------------------------- MODULE RolloutProofs -----------------------------
(***************************************************************************)
(* What Rollout promises, for every set of replicas, every configuration   *)
(* they may be started with, every set of routes of the two releases and   *)
(* any number of faults.                                                   *)
(*                                                                         *)
(* The properties rest on where the hooks of a process stand in each phase *)
(* (Counted), on which parts can have work then (Placed), and on what is   *)
(* open (Opened) and registered (Registered) as long as they can.          *)
(***************************************************************************)
EXTENDS Rollout, TLAPS

\* How many hooks belong to what was opened; the parts follow, each at its place.
Base(r) == Len(Opening(r))

Place(p) ==
    IF p = "events" THEN 1 ELSE IF p = "scheduler" THEN 2
    ELSE IF p = "grpc" THEN 3 ELSE 4

Booting == {"down", "schema", "lock", "version", "migrate", "build"}
Syncing == {"deactivate", "store", "listen"}

\* A process has a release, and what was loaded for production was validated.
Loaded(r) ==
    /\ pc[r] # "down" => release[r] \in Release
    /\ cfg[r].profile = "production" => Validate("production", cfg[r].on)

\* Where the hooks stand in each phase.  A hook that registers routes or listens
\* is that of an enabled server.
Counted(r) ==
    /\ pc[r] \in Booting => up[r] = 0
    /\ pc[r] = "start" => up[r] \in Base(r)..(Base(r) + 3)
    /\ pc[r] \in Syncing => /\ up[r] \in {Base(r) + 2, Base(r) + 3}
                            /\ up[r] = Base(r) + 2 => On(r, "grpc")
    /\ pc[r] = "run" => up[r] = Base(r) + 4
    /\ pc[r] = "stop" => up[r] <= Base(r) + 4

\* Only a part whose hook is started has work, and when hooks stop, the one that
\* is about to end takes no more.
Placed(r) ==
    /\ \A p \in serving[r] \cup left[r] : Base(r) + Place(p) <= up[r]
    /\ pc[r] = "stop" => \A p \in serving[r] : Base(r) + Place(p) < up[r]
    /\ "grpc" \in serving[r] => On(r, "grpc")

\* As long as a part can be up, so is what the parts use.
Opened(r) ==
    /\ up[r] >= Base(r) => {h \in Resources : Made(r, h)} \subseteq open[r]
    /\ up[r] > Base(r) /\ On(r, "eventBus") => "events" \in open[r]

\* A transaction of SyncRoutes deactivates rows of its own protocol, and after it
\* the routes of the server are known.
Registered(r) ==
    /\ pc[r] \in {"deactivate", "store"} => txn[r].rows \subseteq Scope(r)
    /\ pc[r] = "listen" /\ On(r, "authorization") =>
         \A x \in Mine(r) : routes[x] # "absent"

Local(r) == Loaded(r) /\ Counted(r) /\ Placed(r) /\ Opened(r) /\ Registered(r)

IInv ==
    /\ TypeOK
    /\ \A r \in Replica : Local(r)
    /\ SchemaServesRelease
    /\ RoutesFollowLastSync
-------------------------------------------------------------------------------
(* The hooks. *)

\* What is opened has one to three hooks, the last of which is the registry's.
LEMMA OpeningIs ==
  ASSUME NEW r
  PROVE  Opening(r) \in Seq(Resources) /\ Base(r) \in 1..3
  <1> DEFINE d == IF Made(r, "database") THEN <<"database">> ELSE <<>>
             e == IF Made(r, "redis") THEN <<"redis">> ELSE <<>>
  <1>1. d \in Seq(Resources) /\ Len(d) \in 0..1
    <2>1. CASE Made(r, "database")
      BY <2>1 DEF Resources
    <2>2. CASE ~ Made(r, "database")
      BY <2>2
    <2>3. QED
      BY <2>1, <2>2
  <1>2. e \in Seq(Resources) /\ Len(e) \in 0..1
    <2>1. CASE Made(r, "redis")
      BY <2>1 DEF Resources
    <2>2. CASE ~ Made(r, "redis")
      BY <2>2
    <2>3. QED
      BY <2>1, <2>2
  <1>3. Opening(r) = d \o e \o <<"registry">>
    BY DEF Opening
  <1>4. <<"registry">> \in Seq(Resources) /\ Len(<<"registry">>) = 1
    BY DEF Resources
  <1> HIDE DEF d, e
  <1>5. QED
    BY <1>1, <1>2, <1>3, <1>4 DEF Base

\* The hooks of what is opened come first, those of the parts have their places.
LEMMA HooksAre ==
  ASSUME NEW r
  PROVE  /\ Base(r) \in 1..3
         /\ DOMAIN Hooks(r) = 1..(Base(r) + 4)
         /\ \A i \in 1..Base(r) : Hooks(r)[i] \in Resources
         /\ \A p \in Parts : Hooks(r)[Base(r) + Place(p)] = p
  <1>1. Hooks(r) = Opening(r) \o <<"events", "scheduler", "grpc", "http">>
    BY DEF Hooks
  <1>2. /\ DOMAIN Hooks(r) = 1..(Base(r) + 4)
        /\ \A i \in 1..Base(r) : Hooks(r)[i] = Opening(r)[i]
        /\ Hooks(r)[Base(r) + 1] = "events"
        /\ Hooks(r)[Base(r) + 2] = "scheduler"
        /\ Hooks(r)[Base(r) + 3] = "grpc"
        /\ Hooks(r)[Base(r) + 4] = "http"
    BY <1>1, OpeningIs DEF Base
  <1>3. \A i \in 1..Base(r) : Opening(r)[i] \in Resources
    BY OpeningIs DEF Base
  <1>4. QED
    BY <1>2, <1>3, OpeningIs DEF Parts, Place

\* The same after a step, whatever configuration it leaves.
LEMMA BaseNext == (\A r \in Replica : Base(r) \in 1..3)'
  <1>1. \A r \in Replica : Base(r) \in 1..3
    BY HooksAre
  <1>2. QED
    BY <1>1, PTL

\* The hooks of a replica depend on its configuration only.
LEMMA HooksStay ==
  ASSUME NEW r, cfg'[r] = cfg[r]
  PROVE  /\ Base(r)' = Base(r)
         /\ Hooks(r)' = Hooks(r)
         /\ \A x : On(r, x)' = On(r, x)
         /\ \A h : Made(r, h)' = Made(r, h)
  BY DEF Base, Hooks, Opening, Made, On
-------------------------------------------------------------------------------
(* What a step of one replica leaves alone. *)

\* Nothing of the process of replica r changes.
Same(r) ==
    /\ release'[r] = release[r]
    /\ cfg'[r] = cfg[r]
    /\ pc'[r] = pc[r]
    /\ up'[r] = up[r]
    /\ open'[r] = open[r]
    /\ serving'[r] = serving[r]
    /\ left'[r] = left[r]
    /\ poller'[r] = poller[r]
    /\ txn'[r] = txn[r]

\* A route that is known stays known.
RoutesStay == \A x \in Route : routes[x] # "absent" => routes'[x] # "absent"

Past == Starting \cup {"build", "run", "stop"}

\* The parts have their places, from 1 to 4.
LEMMA PlaceIs ==
  /\ \A p : Place(p) \in 1..4
  /\ \A p, q \in Parts : Place(p) = Place(q) => p = q
  BY DEF Place, Parts

\* In each phase of a server's hook, it is the one that is next.
LEMMA ServerIsNext ==
  ASSUME NEW r, TypeOK, Counted(r), pc[r] \in Syncing
  PROVE  /\ Hook(r) \in Protocol
         /\ Hook(r) = "grpc" => up[r] = Base(r) + 2 /\ On(r, "grpc")
         /\ Hook(r) = "http" => up[r] = Base(r) + 3
  <1>1. Base(r) \in 1..3
        /\ Hooks(r)[Base(r) + 3] = "grpc" /\ Hooks(r)[Base(r) + 4] = "http"
    BY HooksAre DEF Parts, Place
  <1>2. up[r] \in {Base(r) + 2, Base(r) + 3} /\ (up[r] = Base(r) + 2 => On(r, "grpc"))
    BY DEF Counted
  <1>3. QED
    BY <1>1, <1>2 DEF Hook, Protocol

\* The routes of a release are routes.
LEMMA RoutesAreRoutes ==
  ASSUME NEW n \in Release, NEW p \in Protocol
  PROVE  Routes[n][p] \subseteq Route
  BY DEF Route

\* A replica that does nothing keeps its part of the invariant.
LEMMA Frame ==
  ASSUME NEW r, TypeOK, Local(r), Same(r), RoutesStay
  PROVE  Local(r)'
  <1>1. /\ Base(r)' = Base(r)
        /\ Hooks(r)' = Hooks(r)
        /\ \A x : On(r, x)' = On(r, x)
        /\ \A h : Made(r, h)' = Made(r, h)
    BY HooksStay DEF Same
  <1>2. Loaded(r)'
    BY DEF Local, Same, Loaded
  <1>3. Counted(r)'
    BY <1>1 DEF Local, Same, Counted
  <1>4. Placed(r)'
    BY <1>1 DEF Local, Same, Placed
  <1>5. Opened(r)'
    BY <1>1 DEF Local, Same, Opened
  <1>6. Registered(r)'
    <2>1. Hook(r)' = Hook(r)
      BY <1>1 DEF Hook, Same
    <2>2. Scope(r)' = Scope(r) /\ Mine(r)' = Mine(r)
      BY <2>1 DEF Scope, Mine, Same
    <2>3. ASSUME pc[r] = "listen"
          PROVE  Mine(r) \subseteq Route
      <3>1. Hook(r) \in Protocol
        BY <2>3, ServerIsNext DEF Local, Syncing
      <3>2. release[r] \in Release
        BY <2>3 DEF Local, Loaded
      <3>3. QED
        BY <3>1, <3>2, RoutesAreRoutes DEF Mine
    <2>4. QED
      BY <1>1, <2>2, <2>3 DEF Local, Same, Registered, RoutesStay
  <1>7. QED
    BY <1>2, <1>3, <1>4, <1>5, <1>6 DEF Local

\* A step of one replica that leaves schema and routes alone.
LEMMA StoreStays ==
  ASSUME IInv, NEW r \in Replica,
         UNCHANGED <<schema, routes, synced>>,
         \A s \in Replica \ {r} : Same(s),
         release'[r] = release[r],
         cfg'[r] = cfg[r],
         pc'[r] \in Past => pc[r] \in Past,
         serving'[r] \cap Protocol \subseteq serving[r],
         "http" \in serving'[r] => poller'[r] = poller[r]
  PROVE  SchemaServesRelease' /\ RoutesFollowLastSync'
  <1>1. \A s \in Replica : release'[s] = release[s] /\ cfg'[s] = cfg[s]
    BY DEF Same
  <1>2. SchemaServesRelease'
    <2>1. \A s \in Replica : pc'[s] \in Past => pc[s] \in Past
      BY DEF Same
    <2>2. QED
      BY <1>1, <2>1 DEF IInv, SchemaServesRelease, On, Past
  <1>3. RoutesFollowLastSync'
    <2>1. \A s \in Replica :
            /\ serving'[s] \cap Protocol \subseteq serving[s]
            /\ "http" \in serving'[s] => poller'[s] = poller[s]
      BY DEF Same
    <2>2. QED
      BY <1>1, <2>1 DEF IInv, RoutesFollowLastSync, On, Protocol
  <1>4. QED
    BY <1>2, <1>3

\* A server that takes requests has a release, and it is one of the two.
LEMMA ServesRelease ==
  ASSUME IInv, NEW r \in Replica, serving[r] # {}
  PROVE  release[r] \in Release /\ serving[r] \subseteq Parts
  <1>1. serving[r] \subseteq Parts
    BY DEF IInv, TypeOK
  <1>2. PICK p \in serving[r] : TRUE
    OBVIOUS
  <1>3. Base(r) + Place(p) <= up[r]
    BY DEF IInv, Local, Placed
  <1>4. pc[r] # "down"
    BY <1>3, HooksAre, PlaceIs DEF IInv, Local, Counted, Booting
  <1>5. QED
    BY <1>1, <1>4 DEF IInv, Local, Loaded

\* Routes that become active disturb nobody.
LEMMA RoutesFollow ==
  ASSUME IInv, \A x \in Route : routes'[x] \in {"active", routes[x]},
         UNCHANGED <<release, cfg, serving, poller, synced>>
  PROVE  RoutesFollowLastSync'
  <1>1. ASSUME NEW p \in Protocol, synced[p] # 0, NEW x \in Routes[synced[p]][p]
        PROVE  routes'[x] = "active"
    <2>1. x \in Route
      BY <1>1, RoutesAreRoutes DEF IInv, TypeOK
    <2>2. QED
      BY <1>1, <2>1 DEF IInv, RoutesFollowLastSync
  <1>2. ASSUME NEW r \in Replica, On(r, "authorization"),
               NEW p \in serving[r] \cap Protocol, NEW x \in Routes[release[r]][p]
        PROVE  routes'[x] # "absent"
    <2>1. x \in Route
      BY <1>2, ServesRelease, RoutesAreRoutes
    <2>2. QED
      BY <1>2, <2>1 DEF IInv, RoutesFollowLastSync
  <1>3. QED
    BY <1>1, <1>2 DEF IInv, RoutesFollowLastSync, On
-------------------------------------------------------------------------------
(* The initial state, the end of a process, and its launch. *)

LEMMA InitOK == Init => IInv
  <1> SUFFICES ASSUME Init PROVE IInv
    OBVIOUS
  <1>1. TypeOK
    BY RolloutAssumption DEF Init, TypeOK, Phases, Protocol, Release, NoTxn
  <1>2. ASSUME NEW r \in Replica PROVE Local(r)
    <2>1. Base(r) \in 1..3
      BY HooksAre
    <2>2. /\ pc[r] = "down" /\ up[r] = 0 /\ serving[r] = {} /\ left[r] = {}
          /\ cfg[r].profile # "production"
      BY DEF Init, NoConfig
    <2>3. Loaded(r)
      BY <2>2 DEF Loaded
    <2>4. Counted(r) /\ Registered(r)
      BY <2>2 DEF Counted, Registered, Booting, Syncing
    <2>5. Placed(r)
      BY <2>2 DEF Placed
    <2>6. Opened(r)
      <3>1. ~ (up[r] >= Base(r)) /\ ~ (up[r] > Base(r))
        BY <2>1, <2>2
      <3>2. QED
        BY <3>1 DEF Opened
    <2>7. QED
      BY <2>3, <2>4, <2>5, <2>6 DEF Local
  <1>3. SchemaServesRelease
    BY DEF Init, SchemaServesRelease, Starting
  <1>4. RoutesFollowLastSync
    BY DEF Init, RoutesFollowLastSync, On, NoConfig
  <1>5. QED
    BY <1>1, <1>2, <1>3, <1>4 DEF IInv

\* The death of a process, wherever it is: nothing of it is left behind.
LEMMA GoneKeeps ==
  ASSUME IInv, NEW r \in Replica, Gone(r), faults' \in 0..MaxFaults
  PROVE  IInv'
  <1>1. TypeOK'
    BY DEF IInv, TypeOK, Gone, Go, Phases, NoTxn, Release
  <1>2. \A s \in Replica \ {r} : Same(s)
    BY DEF IInv, TypeOK, Gone, Go, Same
  <1>3. /\ pc'[r] = "down" /\ cfg'[r].profile # "production" /\ cfg'[r].on = {}
        /\ up'[r] = 0 /\ serving'[r] = {} /\ left'[r] = {}
    BY DEF IInv, TypeOK, Gone, Go, NoConfig
  <1>4. Local(r)'
    <2>1. Loaded(r)'
      BY <1>3 DEF Loaded
    <2>2. Counted(r)' /\ Registered(r)'
      BY <1>3 DEF Counted, Registered, Booting, Syncing
    <2>3. Placed(r)'
      BY <1>3 DEF Placed
    <2>4. Opened(r)'
      <3>1. ~ (up'[r] >= Base(r)') /\ ~ (up'[r] > Base(r)')
        BY <1>3, BaseNext
      <3>2. QED
        BY <3>1 DEF Opened
    <2>5. QED
      BY <2>1, <2>2, <2>3, <2>4 DEF Local
  <1>5. \A s \in Replica \ {r} : Local(s)'
    BY <1>2, Frame DEF IInv, Gone, RoutesStay
  <1>6. SchemaServesRelease'
    BY <1>2, <1>3 DEF IInv, Gone, Same, SchemaServesRelease, On, Starting
  <1>7. RoutesFollowLastSync'
    <2>1. \A s \in Replica \ {r} :
            /\ serving'[s] = serving[s] /\ poller'[s] = poller[s]
            /\ release'[s] = release[s] /\ cfg'[s] = cfg[s]
      BY <1>2 DEF Same
    <2>2. routes' = routes /\ synced' = synced
      BY DEF Gone
    <2>3. QED
      BY <1>3, <2>1, <2>2 DEF IInv, RoutesFollowLastSync, On
  <1>8. QED
    BY <1>1, <1>4, <1>5, <1>6, <1>7 DEF IInv

\* What is loaded is a configuration, validated for the profile that is active.
LEMMA LoadIs ==
  ASSUME NEW s \in Setup, Loads(s)
  PROVE  /\ Load(s) \in [profile : Profile, on : SUBSET Switch]
         /\ Load(s).profile = "production" => Validate("production", Load(s).on)
  <1>1. Load(s).profile \in Profile
    BY DEF Loads, Load
  <1>2. Layered(s, ProfileOf(s)) \in SUBSET Switch
    <2>1. Overlay(Defaults, s.base.says) \in SUBSET Switch
      BY DEF Overlay, Defaults, Switch, Setup, Layer
    <2>2. s.profiles[ProfileOf(s)].says.on \in SUBSET Switch
      BY DEF Loads, Setup, Layer
    <2>3. QED
      BY <2>1, <2>2 DEF Layered, Overlay, Setup, Layer
  <1>3. QED
    BY <1>1, <1>2 DEF Loads, Load, CheckedAs

LEMMA LaunchKeeps ==
  ASSUME IInv, NEW r \in Replica, NEW n \in Release, NEW s \in Setups[r], Launch(r, n, s)
  PROVE  IInv'
  <1>1. /\ Load(s) \in [profile : Profile, on : SUBSET Switch]
        /\ Load(s).profile = "production" => Validate("production", Load(s).on)
    BY LoadIs, RolloutAssumption DEF Launch
  <1>2. TypeOK'
    BY <1>1 DEF IInv, TypeOK, Launch, Go, Phases, store
  <1>3. \A q \in Replica \ {r} : Same(q)
    BY DEF IInv, TypeOK, Launch, Go, Same
  <1>4. /\ pc'[r] \in {"schema", "build"}
        /\ pc'[r] = "build" => "autoUp" \notin Load(s).on
        /\ cfg'[r] = Load(s) /\ release'[r] = n
        /\ up'[r] = 0 /\ serving'[r] = {} /\ left'[r] = {}
    <2>1. up[r] = 0 /\ pc[r] = "down"
      BY DEF IInv, Local, Counted, Booting, Launch
    <2>2. serving[r] = {} /\ left[r] = {}
      <3>1. \A p \in serving[r] \cup left[r] : Base(r) + Place(p) <= 0
        BY <2>1 DEF IInv, Local, Placed
      <3>2. QED
        BY <3>1, HooksAre, PlaceIs
    <2>3. QED
      BY <2>1, <2>2 DEF IInv, TypeOK, Launch, Go
  <1>5. Local(r)'
    <2>1. Base(r)' \in 1..3
      BY BaseNext
    <2>2. QED
      BY <1>1, <1>4, <2>1 DEF Local, Loaded, Counted, Placed, Opened, Registered,
                              Booting, Syncing
  <1>6. \A q \in Replica \ {r} : Local(q)'
    BY <1>3, Frame DEF IInv, Launch, store, RoutesStay
  <1>7. SchemaServesRelease'
    BY <1>3, <1>4 DEF IInv, Launch, store, Same, SchemaServesRelease, On, Starting
  <1>8. RoutesFollowLastSync'
    BY <1>3, <1>4 DEF IInv, Launch, store, Same, RoutesFollowLastSync, On
  <1>9. QED
    BY <1>2, <1>5, <1>6, <1>7, <1>8 DEF IInv
-------------------------------------------------------------------------------
(* The startup migration. *)

\* A process in a phase before its hooks that goes on to another such phase.
LEMMA BootStep ==
  ASSUME IInv, NEW r \in Replica, pc[r] \in Booting \ {"down"},
         pc' = [pc EXCEPT ![r] = pc'[r]], pc'[r] \in Booting \ {"down"},
         UNCHANGED <<release, cfg, up, open, serving, left, poller, txn>>,
         RoutesStay
  PROVE  /\ \A s \in Replica \ {r} : Same(s)
         /\ \A s \in Replica : Local(s)'
  <1>1. \A s \in Replica \ {r} : Same(s)
    BY DEF IInv, TypeOK, Same
  <1>2. \A s \in Replica \ {r} : Local(s)'
    BY <1>1, Frame DEF IInv
  <1>3. Local(r)'
    <2>1. /\ Base(r)' = Base(r)
          /\ \A x : On(r, x)' = On(r, x)
          /\ \A h : Made(r, h)' = Made(r, h)
      BY HooksStay
    <2>2. Loaded(r)'
      BY DEF IInv, Local, Loaded, Booting
    <2>3. Counted(r)' /\ Registered(r)'
      BY DEF IInv, Local, Counted, Registered, Booting, Syncing
    <2>4. Placed(r)'
      BY <2>1 DEF IInv, Local, Placed, Booting
    <2>5. Opened(r)'
      BY <2>1 DEF IInv, Local, Opened
    <2>6. QED
      BY <2>2, <2>3, <2>4, <2>5 DEF Local
  <1>4. QED
    BY <1>1, <1>2, <1>3

\* The steps that move a process on in the migration and leave version and
\* dirty mark as they are.
LEMMA EnsureSchemaKeeps ==
  ASSUME IInv, NEW r \in Replica, EnsureSchema(r)
  PROVE  IInv'
  <1>1. TypeOK'
    BY DEF IInv, TypeOK, EnsureSchema, Migrating, Go, Phases
  <1>2. /\ pc[r] = "schema" /\ pc'[r] = "lock" /\ pc' = [pc EXCEPT ![r] = pc'[r]]
        /\ UNCHANGED <<release, cfg, up, open, serving, left, poller, txn, routes, synced>>
        /\ schema'.version = schema.version /\ schema'.dirty = schema.dirty
    BY DEF IInv, TypeOK, EnsureSchema, Migrating, Go
  <1>3. \A s \in Replica : Local(s)'
    BY <1>2, BootStep DEF Booting, RoutesStay
  <1>4. SchemaServesRelease'
    <2>1. \A s \in Replica : pc'[s] \in Past => pc[s] \in Past
      BY <1>2 DEF IInv, TypeOK, Past, Starting
    <2>2. QED
      BY <1>2, <2>1 DEF IInv, SchemaServesRelease, On, Past
  <1>5. RoutesFollowLastSync'
    BY <1>2 DEF IInv, RoutesFollowLastSync, On
  <1>6. QED
    BY <1>1, <1>3, <1>4, <1>5 DEF IInv

LEMMA TakeLockKeeps ==
  ASSUME IInv, NEW r \in Replica, TakeLock(r)
  PROVE  IInv'
  <1>1. TypeOK'
    BY DEF IInv, TypeOK, TakeLock, Migrating, Go, Phases
  <1>2. /\ pc[r] = "lock" /\ pc'[r] = "version" /\ pc' = [pc EXCEPT ![r] = pc'[r]]
        /\ UNCHANGED <<release, cfg, up, open, serving, left, poller, txn>>
        /\ UNCHANGED <<schema, routes, synced>>
    BY DEF IInv, TypeOK, TakeLock, Migrating, Go
  <1>3. (\A s \in Replica \ {r} : Same(s)) /\ \A s \in Replica : Local(s)'
    BY <1>2, BootStep DEF Booting, RoutesStay
  <1>4. SchemaServesRelease' /\ RoutesFollowLastSync'
    BY <1>2, <1>3, StoreStays DEF Past, Starting
  <1>5. QED
    BY <1>1, <1>3, <1>4 DEF IInv

\* A migration begins only on a clean version older than the release of the
\* process; whoever is past its own migration has at least that version.
LEMMA MigrateBeginKeeps ==
  ASSUME IInv, NEW r \in Replica, MigrateBegin(r)
  PROVE  IInv'
  <1>1. /\ pc[r] = "version" /\ pc'[r] = "migrate" /\ pc' = [pc EXCEPT ![r] = pc'[r]]
        /\ UNCHANGED <<release, cfg, up, open, serving, left, poller, txn, routes, synced>>
        /\ UNCHANGED <<migrator, faults>>
        /\ schema.version < release[r] /\ ~ schema.dirty
        /\ schema' = [schema EXCEPT !.version = @ + 1, !.dirty = TRUE]
    BY DEF IInv, TypeOK, MigrateBegin, Behind, Migrating, Go
  <1>2. schema'.version = schema.version + 1
    BY <1>1 DEF IInv, TypeOK
  <1>3. TypeOK'
    <2>1. schema.version + 1 \in 0..2
      BY <1>1 DEF IInv, TypeOK, Release
    <2>2. schema' \in [exists : BOOLEAN, version : 0..2, dirty : BOOLEAN]
      BY <1>1, <2>1 DEF IInv, TypeOK
    <2>3. QED
      BY <1>1, <2>2 DEF IInv, TypeOK, Phases
  <1>4. \A s \in Replica : Local(s)'
    BY <1>1, BootStep DEF Booting, RoutesStay
  <1>5. SchemaServesRelease'
    <2>1. \A s \in Replica : pc'[s] \in Past => pc[s] \in Past
      BY <1>1 DEF IInv, TypeOK, Past, Starting
    <2>2. \A s \in Replica : release[s] \in 0..2 /\ schema.version \in 0..2
      BY DEF IInv, TypeOK, Release
    <2>3. QED
      BY <1>1, <1>2, <2>1, <2>2 DEF IInv, SchemaServesRelease, On, Past
  <1>6. RoutesFollowLastSync'
    BY <1>1 DEF IInv, RoutesFollowLastSync, On
  <1>7. QED
    BY <1>3, <1>4, <1>5, <1>6 DEF IInv

\* The end of a migration cleans the mark, and makes no route unknown.
LEMMA MigrateEndKeeps ==
  ASSUME IInv, NEW r \in Replica, MigrateEnd(r)
  PROVE  IInv'
  <1>1. /\ pc[r] = "migrate" /\ pc'[r] = "version" /\ pc' = [pc EXCEPT ![r] = pc'[r]]
        /\ UNCHANGED <<release, cfg, up, open, serving, left, poller, txn>>
        /\ UNCHANGED <<migrator, synced, faults>>
        /\ schema' = [schema EXCEPT !.dirty = FALSE]
        /\ schema'.version = schema.version /\ ~ schema'.dirty
    BY DEF IInv, TypeOK, MigrateEnd, Go
  <1>2. \A x \in Route : routes'[x] \in {"active", routes[x]}
    BY DEF MigrateEnd
  <1>3. TypeOK'
    <2>1. routes' \in [Route -> {"absent", "active", "inactive"}]
      BY DEF IInv, TypeOK, MigrateEnd
    <2>2. schema' \in [exists : BOOLEAN, version : 0..2, dirty : BOOLEAN]
      BY <1>1 DEF IInv, TypeOK
    <2>3. pc' \in [Replica -> Phases]
      BY DEF IInv, TypeOK, MigrateEnd, Go, Phases
    <2>4. QED
      BY <2>1, <2>2, <2>3 DEF IInv, TypeOK, MigrateEnd
  <1>4. \A s \in Replica : Local(s)'
    BY <1>1, <1>2, BootStep DEF Booting, RoutesStay
  <1>5. SchemaServesRelease'
    <2>1. \A s \in Replica : pc'[s] \in Past => pc[s] \in Past
      BY <1>1 DEF IInv, TypeOK, Past, Starting
    <2>2. QED
      BY <1>1, <2>1 DEF IInv, SchemaServesRelease, On, Past
  <1>6. RoutesFollowLastSync'
    BY <1>1, <1>2, RoutesFollow DEF IInv
  <1>7. QED
    BY <1>3, <1>4, <1>5, <1>6 DEF IInv

LEMMA MigratedKeeps ==
  ASSUME IInv, NEW r \in Replica, Migrated(r)
  PROVE  IInv'
  <1>1. /\ pc[r] = "version" /\ pc'[r] = "build" /\ pc' = [pc EXCEPT ![r] = pc'[r]]
        /\ UNCHANGED <<release, cfg, up, open, serving, left, poller, txn>>
        /\ UNCHANGED <<schema, routes, synced, faults>>
        /\ schema.version = release[r] /\ ~ schema.dirty
        /\ migrator' = Nobody
    BY DEF IInv, TypeOK, Migrated, Current, Migrating, Go
  <1>2. TypeOK'
    BY <1>1 DEF IInv, TypeOK, Phases
  <1>3. \A s \in Replica : Local(s)'
    BY <1>1, BootStep DEF Booting, RoutesStay
  <1>4. SchemaServesRelease'
    <2>1. \A s \in Replica \ {r} : pc'[s] = pc[s]
      BY <1>1 DEF IInv, TypeOK
    <2>2. schema.version >= release[r]
      BY <1>1 DEF IInv, TypeOK
    <2>3. QED
      BY <1>1, <2>1, <2>2 DEF IInv, SchemaServesRelease, On
  <1>5. RoutesFollowLastSync'
    BY <1>1 DEF IInv, RoutesFollowLastSync, On
  <1>6. QED
    BY <1>2, <1>3, <1>4, <1>5 DEF IInv
-------------------------------------------------------------------------------
(* Construction, and the start hooks. *)

LEMMA BuildKeeps ==
  ASSUME IInv, NEW r \in Replica, Build(r)
  PROVE  IInv'
  <1>1. /\ pc[r] = "build" /\ pc'[r] = "start" /\ up[r] = 0 /\ up'[r] = Base(r)
        /\ open'[r] = {h \in Resources : Made(r, h)}
        /\ UNCHANGED <<release, cfg, serving, left, poller, txn>>
        /\ UNCHANGED <<schema, migrator, routes, synced, faults>>
    BY DEF IInv, TypeOK, Local, Counted, Booting, Build, Go, store, Base
  <1>2. TypeOK'
    <2>1. Base(r) \in 0..7
      BY HooksAre
    <2>2. /\ up' \in [Replica -> 0..7]
          /\ pc' \in [Replica -> Phases]
          /\ open' \in [Replica -> SUBSET (Resources \cup {"events"})]
      BY <2>1 DEF IInv, TypeOK, Build, Go, Base, Phases
    <2>3. QED
      BY <1>1, <2>2 DEF IInv, TypeOK
  <1>3. \A s \in Replica \ {r} : Same(s)
    BY DEF IInv, TypeOK, Build, Go, Same
  <1>4. \A s \in Replica \ {r} : Local(s)'
    BY <1>1, <1>3, Frame DEF IInv, RoutesStay
  <1>5. Local(r)'
    <2>1. /\ Base(r)' = Base(r) /\ Base(r) \in 1..3
          /\ \A x : On(r, x)' = On(r, x)
          /\ \A h : Made(r, h)' = Made(r, h)
      BY <1>1, HooksStay, HooksAre
    <2>2. Loaded(r)' /\ Registered(r)'
      BY <1>1 DEF IInv, Local, Loaded, Registered
    <2>3. Counted(r)'
      BY <1>1, <2>1 DEF Counted, Booting, Syncing
    <2>4. Placed(r)'
      BY <1>1, <2>1, PlaceIs DEF IInv, Local, Placed
    <2>5. Opened(r)'
      BY <1>1, <2>1 DEF Opened
    <2>6. QED
      BY <2>2, <2>3, <2>4, <2>5 DEF Local
  <1>6. SchemaServesRelease' /\ RoutesFollowLastSync'
    BY <1>1, <1>3, StoreStays DEF Past, Starting
  <1>7. QED
    BY <1>2, <1>4, <1>5, <1>6 DEF IInv

\* In phase "start", the next hook is that of a part, and which one it is says
\* how many are started.
LEMMA PartIsNext ==
  ASSUME NEW r, TypeOK, Counted(r), pc[r] = "start"
  PROVE  /\ Hook(r) \in Parts
         /\ up[r] + 1 = Base(r) + Place(Hook(r))
  <1>1. /\ Base(r) \in 1..3
        /\ Hooks(r)[Base(r) + 1] = "events"
        /\ Hooks(r)[Base(r) + 2] = "scheduler"
        /\ Hooks(r)[Base(r) + 3] = "grpc"
        /\ Hooks(r)[Base(r) + 4] = "http"
    BY HooksAre DEF Parts, Place
  <1>2. up[r] \in {Base(r), Base(r) + 1, Base(r) + 2, Base(r) + 3}
    BY <1>1 DEF Counted
  <1>3. QED
    BY <1>1, <1>2 DEF Hook, Parts, Place

LEMMA SkipHookKeeps ==
  ASSUME IInv, NEW r \in Replica, SkipHook(r)
  PROVE  IInv'
  <1>1. /\ pc[r] = "start" /\ up'[r] = up[r] + 1 /\ up' = [up EXCEPT ![r] = up[r] + 1]
        /\ UNCHANGED <<release, cfg, pc, open, serving, left, poller, txn>>
        /\ UNCHANGED <<schema, migrator, routes, synced, faults>>
    BY DEF IInv, TypeOK, SkipHook, Started, store
  <1>2. /\ Hook(r) \in {"events", "scheduler", "grpc"}
        /\ Hook(r) = "events" => ~ On(r, "eventBus")
    BY DEF SkipHook, Idle
  <1>3. /\ Base(r) \in 1..3
        /\ up[r] \in {Base(r), Base(r) + 1, Base(r) + 2}
        /\ up[r] = Base(r) => ~ On(r, "eventBus")
    BY <1>1, <1>2, PartIsNext, HooksAre DEF IInv, TypeOK, Local, Place
  <1>4. TypeOK'
    <2>1. up[r] + 1 \in 0..7
      BY <1>3
    <2>2. QED
      BY <1>1, <2>1 DEF IInv, TypeOK
  <1>5. \A s \in Replica \ {r} : Same(s)
    BY <1>1 DEF IInv, TypeOK, Same
  <1>6. \A s \in Replica \ {r} : Local(s)'
    BY <1>1, <1>5, Frame DEF IInv, RoutesStay
  <1>7. Local(r)'
    <2>1. /\ Base(r)' = Base(r)
          /\ \A x : On(r, x)' = On(r, x)
          /\ \A h : Made(r, h)' = Made(r, h)
      BY <1>1, HooksStay
    <2>2. Loaded(r)' /\ Registered(r)'
      BY <1>1 DEF IInv, Local, Loaded, Registered
    <2>3. Counted(r)'
      BY <1>1, <1>3, <2>1 DEF Counted, Booting, Syncing
    <2>4. Placed(r)'
      <3>1. \A p \in serving[r] \cup left[r] : Base(r) + Place(p) <= up[r] + 1
        BY <1>3, PlaceIs DEF IInv, Local, Placed
      <3>2. QED
        BY <1>1, <2>1, <3>1 DEF IInv, Local, Placed
    <2>5. Opened(r)'
      BY <1>1, <1>3, <2>1 DEF IInv, Local, Opened
    <2>6. QED
      BY <2>2, <2>3, <2>4, <2>5 DEF Local
  <1>8. SchemaServesRelease' /\ RoutesFollowLastSync'
    BY <1>1, <1>5, StoreStays
  <1>9. QED
    BY <1>4, <1>6, <1>7, <1>8 DEF IInv

\* A part that starts finds open what it uses, and the consumer opens the bus.
LEMMA StartPartKeeps ==
  ASSUME IInv, NEW r \in Replica, StartPart(r)
  PROVE  IInv'
  <1>1. /\ pc[r] = "start" /\ up'[r] = up[r] + 1 /\ up' = [up EXCEPT ![r] = up[r] + 1]
        /\ UNCHANGED <<release, cfg, pc, left, poller, txn>>
        /\ UNCHANGED <<schema, migrator, routes, synced, faults>>
        /\ serving' = [serving EXCEPT ![r] = serving[r] \cup {Hook(r)}]
        /\ serving'[r] = serving[r] \cup {Hook(r)}
        /\ open' = [open EXCEPT ![r] = open[r] \cup ({"events"} \cap {Hook(r)})]
        /\ open'[r] = open[r] \cup ({"events"} \cap {Hook(r)})
        /\ Hook(r) \in {"events", "scheduler"}
    BY DEF IInv, TypeOK, StartPart, Started, store
  <1>2. /\ Base(r) \in 1..3
        /\ up[r] + 1 = Base(r) + Place(Hook(r))
        /\ up[r] \in {Base(r), Base(r) + 1}
        /\ up[r] = Base(r) => Hook(r) = "events"
    <2>1. up[r] + 1 = Base(r) + Place(Hook(r)) /\ Base(r) \in 1..3 /\ up[r] \in 0..7
      BY <1>1, PartIsNext, HooksAre DEF IInv, TypeOK, Local
    <2>2. CASE Hook(r) = "events"
      BY <2>1, <2>2 DEF Place
    <2>3. CASE Hook(r) = "scheduler"
      BY <2>1, <2>3 DEF Place
    <2>4. QED
      BY <1>1, <2>2, <2>3
  <1>3. TypeOK'
    <2>1. up[r] + 1 \in 0..7
      BY <1>2
    <2>2. QED
      BY <1>1, <2>1 DEF IInv, TypeOK, Parts
  <1>4. \A s \in Replica \ {r} : Same(s)
    BY <1>1 DEF IInv, TypeOK, Same
  <1>5. \A s \in Replica \ {r} : Local(s)'
    BY <1>1, <1>4, Frame DEF IInv, RoutesStay
  <1>6. Local(r)'
    <2>1. /\ Base(r)' = Base(r)
          /\ \A x : On(r, x)' = On(r, x)
          /\ \A h : Made(r, h)' = Made(r, h)
      BY <1>1, HooksStay
    <2>2. Loaded(r)' /\ Registered(r)'
      BY <1>1 DEF IInv, Local, Loaded, Registered
    <2>3. Counted(r)'
      BY <1>1, <1>2, <2>1 DEF Counted, Booting, Syncing
    <2>4. Placed(r)'
      <3>1. \A p \in serving'[r] \cup left[r] : Base(r) + Place(p) <= up[r] + 1
        BY <1>1, <1>2, PlaceIs DEF IInv, Local, Placed
      <3>2. QED
        BY <1>1, <2>1, <3>1 DEF IInv, Local, Placed
    <2>5. Opened(r)'
      <3>1. {h \in Resources : Made(r, h)} \subseteq open[r]
        BY <1>2 DEF IInv, Local, Opened
      <3>2. On(r, "eventBus") => "events" \in open'[r]
        <4>1. CASE up[r] = Base(r)
          BY <1>1, <1>2, <4>1
        <4>2. CASE up[r] = Base(r) + 1
          BY <1>1, <1>2, <4>2 DEF IInv, Local, Opened
        <4>3. QED
          BY <1>2, <4>1, <4>2
      <3>3. QED
        BY <1>1, <2>1, <3>1, <3>2 DEF Opened
    <2>6. QED
      BY <2>2, <2>3, <2>4, <2>5 DEF Local
  <1>7. SchemaServesRelease' /\ RoutesFollowLastSync'
    BY <1>1, <1>4, StoreStays DEF Protocol
  <1>8. QED
    BY <1>3, <1>5, <1>6, <1>7 DEF IInv
-------------------------------------------------------------------------------
(* The hook of a server: SyncRoutes, and the listener. *)

\* Only the hook of an enabled server registers routes and listens.
LEMMA AtServerIs ==
  ASSUME IInv, NEW r \in Replica, AtServer(r)
  PROVE  /\ pc[r] = "start"
         /\ Hook(r) \in Protocol
         /\ up[r] \in {Base(r) + 2, Base(r) + 3}
         /\ up[r] = Base(r) + 2 => On(r, "grpc")
  <1>1. pc[r] = "start" /\ Hook(r) \in Protocol /\ (Hook(r) = "grpc" => On(r, "grpc"))
    BY DEF AtServer, Idle
  <1>2. up[r] + 1 = Base(r) + Place(Hook(r)) /\ Base(r) \in 1..3 /\ up[r] \in 0..7
    BY <1>1, PartIsNext, HooksAre DEF IInv, TypeOK, Local
  <1>3. CASE Hook(r) = "grpc"
    BY <1>1, <1>2, <1>3 DEF Place
  <1>4. CASE Hook(r) = "http"
    BY <1>1, <1>2, <1>4 DEF Place
  <1>5. QED
    BY <1>1, <1>3, <1>4 DEF Protocol

\* A step of such a hook that starts nothing yet; what it does to routes and to
\* its transaction comes apart.
LEMMA HookStep ==
  ASSUME IInv, NEW r \in Replica,
         pc[r] # "down", pc'[r] \in Syncing, pc' = [pc EXCEPT ![r] = pc'[r]],
         up[r] \in {Base(r) + 2, Base(r) + 3},
         up[r] = Base(r) + 2 => On(r, "grpc"),
         UNCHANGED <<release, cfg, up, open, serving, left, poller>>,
         txn' = [txn EXCEPT ![r] = txn'[r]],
         RoutesStay, Registered(r)'
  PROVE  /\ \A s \in Replica \ {r} : Same(s)
         /\ \A s \in Replica : Local(s)'
  <1>1. \A s \in Replica \ {r} : Same(s)
    BY DEF IInv, TypeOK, Same
  <1>2. \A s \in Replica \ {r} : Local(s)'
    BY <1>1, Frame DEF IInv
  <1>3. Local(r)'
    <2>1. /\ Base(r)' = Base(r)
          /\ \A x : On(r, x)' = On(r, x)
          /\ \A h : Made(r, h)' = Made(r, h)
      BY HooksStay
    <2>2. Loaded(r)'
      BY DEF IInv, Local, Loaded
    <2>3. Counted(r)'
      BY <2>1 DEF Counted, Booting, Syncing
    <2>4. Placed(r)'
      BY <2>1 DEF IInv, Local, Placed, Syncing
    <2>5. Opened(r)'
      BY <2>1 DEF IInv, Local, Opened
    <2>6. QED
      BY <2>2, <2>3, <2>4, <2>5 DEF Local
  <1>4. QED
    BY <1>1, <1>2, <1>3

LEMMA StartOpenKeeps ==
  ASSUME IInv, NEW r \in Replica, StartOpen(r)
  PROVE  IInv'
  <1>1. /\ pc[r] = "start" /\ pc'[r] = "listen" /\ pc' = [pc EXCEPT ![r] = pc'[r]]
        /\ UNCHANGED <<release, cfg, up, open, serving, left, poller, txn>>
        /\ UNCHANGED <<schema, migrator, routes, synced, faults>>
        /\ ~ On(r, "authorization")
    BY DEF IInv, TypeOK, StartOpen, AtServer, Go, store
  <1>2. txn' = [txn EXCEPT ![r] = txn'[r]]
    BY <1>1 DEF IInv, TypeOK
  <1>3. Registered(r)'
    BY <1>1 DEF Registered, On
  <1>4. TypeOK'
    BY <1>1 DEF IInv, TypeOK, Phases
  <1>5. (\A s \in Replica \ {r} : Same(s)) /\ \A s \in Replica : Local(s)'
    BY <1>1, <1>2, <1>3, AtServerIs, HookStep DEF StartOpen, Syncing, RoutesStay
  <1>6. SchemaServesRelease' /\ RoutesFollowLastSync'
    BY <1>1, <1>5, StoreStays DEF Past, Starting
  <1>7. QED
    BY <1>4, <1>5, <1>6 DEF IInv

LEMMA SyncSnapshotKeeps ==
  ASSUME IInv, NEW r \in Replica, SyncSnapshot(r)
  PROVE  IInv'
  <1> DEFINE seen == {x \in Scope(r) : routes[x] = "active"}
  <1>1. /\ pc[r] = "start" /\ pc'[r] = "deactivate" /\ pc' = [pc EXCEPT ![r] = pc'[r]]
        /\ UNCHANGED <<release, cfg, up, open, serving, left, poller>>
        /\ UNCHANGED <<schema, migrator, routes, synced, faults>>
    BY DEF IInv, TypeOK, SyncSnapshot, AtServer, Go, store
  <1>2. Hook(r) \in Protocol
    BY AtServerIs DEF SyncSnapshot
  <1>3. Scope(r) \subseteq Route
    BY <1>2 DEF Scope, Route
  <1>4. /\ txn'[r].rows = seen
        /\ txn' = [txn EXCEPT ![r] = txn'[r]]
        /\ txn' \in [Replica -> [rows : SUBSET Route, missing : SUBSET Route]]
    <2>1. txn' = [txn EXCEPT ![r] = [txn[r] EXCEPT !.rows = seen]]
      BY DEF SyncSnapshot
    <2>2. /\ txn \in [Replica -> [rows : SUBSET Route, missing : SUBSET Route]]
          /\ seen \in SUBSET Route
      BY <1>3 DEF IInv, TypeOK
    <2> HIDE DEF seen
    <2>3. QED
      BY <2>1, <2>2
  <1>5. Registered(r)'
    <2>1. Hook(r)' = Hook(r)
      BY <1>1, HooksStay DEF Hook
    <2>2. Scope(r)' = Scope(r)
      BY <2>1 DEF Scope
    <2>3. QED
      BY <1>1, <1>4, <2>2 DEF Registered
  <1>6. TypeOK'
    <2>1. pc' \in [Replica -> Phases]
      BY <1>1 DEF IInv, TypeOK, Phases
    <2> HIDE DEF seen
    <2>2. QED
      BY <1>1, <1>4, <2>1 DEF IInv, TypeOK
  <1>7. (\A s \in Replica \ {r} : Same(s)) /\ \A s \in Replica : Local(s)'
    BY <1>1, <1>4, <1>5, AtServerIs, HookStep DEF SyncSnapshot, Syncing, RoutesStay
  <1>8. SchemaServesRelease' /\ RoutesFollowLastSync'
    BY <1>1, <1>7, StoreStays DEF Past, Starting
  <1>9. QED
    BY <1>6, <1>7, <1>8 DEF IInv

LEMMA SyncDeactivateKeeps ==
  ASSUME IInv, NEW r \in Replica, SyncDeactivate(r)
  PROVE  IInv'
  <1> DEFINE mine == {x \in txn[r].rows : routes[x] = "active"}
             new == {x \in Mine(r) : routes[x] = "absent"}
  <1>1. /\ pc[r] = "deactivate" /\ pc'[r] = "store" /\ pc' = [pc EXCEPT ![r] = pc'[r]]
        /\ UNCHANGED <<release, cfg, up, open, serving, left, poller>>
        /\ UNCHANGED <<schema, migrator, routes, synced, faults>>
    BY DEF IInv, TypeOK, SyncDeactivate, Go, store
  <1>2. Counted(r) /\ pc[r] \in Syncing /\ release[r] \in Release
    BY <1>1 DEF IInv, Local, Loaded, Syncing
  <1>3. Hook(r) \in Protocol
    BY <1>2, ServerIsNext DEF IInv
  <1>4. Mine(r) \subseteq Route
    BY <1>2, <1>3, RoutesAreRoutes DEF Mine
  <1>5. /\ txn'[r].rows = mine
        /\ txn' = [txn EXCEPT ![r] = txn'[r]]
        /\ txn' \in [Replica -> [rows : SUBSET Route, missing : SUBSET Route]]
    <2>1. txn' = [txn EXCEPT ![r] = [rows |-> mine, missing |-> new]]
      BY DEF SyncDeactivate
    <2>2. /\ txn \in [Replica -> [rows : SUBSET Route, missing : SUBSET Route]]
          /\ mine \in SUBSET Route /\ new \in SUBSET Route
      BY <1>4 DEF IInv, TypeOK
    <2> HIDE DEF mine, new
    <2>3. QED
      BY <2>1, <2>2
  <1>6. Registered(r)'
    <2>1. Hook(r)' = Hook(r)
      BY <1>1, HooksStay DEF Hook
    <2>2. Scope(r)' = Scope(r)
      BY <2>1 DEF Scope
    <2>3. mine \subseteq Scope(r)
      BY <1>1 DEF IInv, Local, Registered
    <2>4. QED
      BY <1>1, <1>5, <2>2, <2>3 DEF Registered
  <1>7. TypeOK'
    BY <1>1, <1>5 DEF IInv, TypeOK, Phases
  <1>8. (\A s \in Replica \ {r} : Same(s)) /\ \A s \in Replica : Local(s)'
    <2>1. up[r] \in {Base(r) + 2, Base(r) + 3} /\ (up[r] = Base(r) + 2 => On(r, "grpc"))
      BY <1>2 DEF Counted
    <2>2. QED
      BY <1>1, <1>5, <1>6, <2>1, HookStep DEF Syncing, RoutesStay
  <1>9. SchemaServesRelease' /\ RoutesFollowLastSync'
    BY <1>1, <1>8, StoreStays DEF Past, Starting
  <1>10. QED
    BY <1>7, <1>8, <1>9 DEF IInv

\* The commit of SyncRoutes makes the routes of its release and protocol active,
\* and only routes of its protocol inactive: those of the other one stay as
\* their last registration left them.
LEMMA SyncStoreKeeps ==
  ASSUME IInv, NEW r \in Replica, SyncStore(r)
  PROVE  IInv'
  <1>1. /\ pc[r] = "store" /\ pc'[r] = "listen" /\ pc' = [pc EXCEPT ![r] = pc'[r]]
        /\ UNCHANGED <<release, cfg, up, open, serving, left, poller>>
        /\ UNCHANGED <<schema, migrator, faults>>
        /\ txn' = [txn EXCEPT ![r] = NoTxn] /\ txn'[r] = NoTxn
    BY DEF IInv, TypeOK, SyncStore, Go
  <1>2. Counted(r) /\ pc[r] \in Syncing /\ release[r] \in Release
    BY <1>1 DEF IInv, Local, Loaded, Syncing
  <1>3. Hook(r) \in Protocol
    BY <1>2, ServerIsNext DEF IInv
  <1>4. Mine(r) \subseteq Route
    BY <1>2, <1>3, RoutesAreRoutes DEF Mine
  <1>5. /\ \A x \in Mine(r) : routes'[x] = "active"
        /\ \A x \in Route : x \notin txn[r].rows => routes'[x] \in {"active", routes[x]}
        /\ RoutesStay
        /\ routes' \in [Route -> {"absent", "active", "inactive"}]
    <2>1. routes' = [x \in Route |-> IF x \in Mine(r) THEN "active"
                       ELSE IF x \in txn[r].rows THEN "inactive" ELSE routes[x]]
      BY DEF SyncStore
    <2>2. routes \in [Route -> {"absent", "active", "inactive"}]
      BY DEF IInv, TypeOK
    <2>3. QED
      BY <1>4, <2>1, <2>2 DEF RoutesStay
  <1>6. /\ synced'[Hook(r)] = release[r]
        /\ \A p \in Protocol \ {Hook(r)} : synced'[p] = synced[p]
        /\ synced' \in [Protocol -> Release \cup {0}]
    BY <1>2, <1>3 DEF IInv, TypeOK, SyncStore
  <1>7. TypeOK'
    <2>1. txn' \in [Replica -> [rows : SUBSET Route, missing : SUBSET Route]]
      BY <1>1 DEF IInv, TypeOK, NoTxn
    <2>2. pc' \in [Replica -> Phases]
      BY <1>1 DEF IInv, TypeOK, Phases
    <2>3. QED
      BY <1>1, <1>5, <1>6, <2>1, <2>2 DEF IInv, TypeOK
  <1>8. Registered(r)'
    <2>1. Hook(r)' = Hook(r)
      BY <1>1, HooksStay DEF Hook
    <2>2. Mine(r)' = Mine(r)
      BY <1>1, <2>1 DEF Mine
    <2>3. QED
      BY <1>1, <1>5, <2>2 DEF Registered
  <1>9. \A s \in Replica : Local(s)'
    <2>1. up[r] \in {Base(r) + 2, Base(r) + 3} /\ (up[r] = Base(r) + 2 => On(r, "grpc"))
      BY <1>2 DEF Counted
    <2>2. txn' = [txn EXCEPT ![r] = txn'[r]]
      BY <1>1
    <2>3. QED
      BY <1>1, <1>5, <1>8, <2>1, <2>2, HookStep DEF Syncing
  <1>10. SchemaServesRelease'
    <2>1. \A s \in Replica : pc'[s] \in Past => pc[s] \in Past
      BY <1>1 DEF IInv, TypeOK, Past, Starting
    <2>2. QED
      BY <1>1, <2>1 DEF IInv, SchemaServesRelease, On, Past
  <1>11. RoutesFollowLastSync'
    <2>1. ASSUME NEW p \in Protocol, synced'[p] # 0, NEW x \in Routes[synced'[p]][p]
          PROVE  routes'[x] = "active"
      <3>1. CASE p = Hook(r)
        BY <1>5, <1>6, <2>1, <3>1 DEF Mine
      <3>2. CASE p # Hook(r)
        <4>1. synced'[p] = synced[p] /\ synced[p] \in Release
          BY <1>6, <2>1, <3>2 DEF IInv, TypeOK
        <4>2. x \in Route /\ routes[x] = "active"
          BY <2>1, <4>1, RoutesAreRoutes DEF IInv, RoutesFollowLastSync
        <4>3. x \notin Scope(r)
          BY <1>3, <2>1, <3>2, <4>1, RolloutAssumption DEF Scope, Protocol
        <4>4. x \notin txn[r].rows
          BY <1>1, <4>3 DEF IInv, Local, Registered
        <4>5. QED
          BY <1>5, <4>2, <4>4
      <3>3. QED
        BY <3>1, <3>2
    <2>2. ASSUME NEW s \in Replica, On(s, "authorization"),
                 NEW p \in serving[s] \cap Protocol, NEW x \in Routes[release[s]][p]
          PROVE  routes'[x] # "absent"
      <3>1. x \in Route
        BY <2>2, ServesRelease, RoutesAreRoutes
      <3>2. QED
        BY <1>5, <2>2, <3>1 DEF IInv, RoutesFollowLastSync, RoutesStay
    <2>3. QED
      BY <1>1, <2>1, <2>2 DEF IInv, RoutesFollowLastSync, On
  <1>12. QED
    BY <1>7, <1>9, <1>10, <1>11 DEF IInv

\* A server that listens has its routes registered, and over HTTP its poller.
LEMMA ListenKeeps ==
  ASSUME IInv, NEW r \in Replica, Listen(r)
  PROVE  IInv'
  <1>1. /\ pc[r] = "listen"
        /\ pc' = [pc EXCEPT ![r] = IF Hook(r) = "http" THEN "run" ELSE "start"]
        /\ pc'[r] = IF Hook(r) = "http" THEN "run" ELSE "start"
        /\ up' = [up EXCEPT ![r] = up[r] + 1] /\ up'[r] = up[r] + 1
        /\ serving' = [serving EXCEPT ![r] = serving[r] \cup {Hook(r)}]
        /\ serving'[r] = serving[r] \cup {Hook(r)}
        /\ UNCHANGED <<release, cfg, open, left, txn>>
        /\ UNCHANGED <<schema, migrator, routes, synced, faults>>
    BY DEF IInv, TypeOK, Listen, Started, Go, store
  <1>2. poller' \in [Replica -> BOOLEAN] /\ poller'[r] = (poller[r] \/ Polls(r))
    BY DEF IInv, TypeOK, Listen, Polls
  <1>3. Counted(r) /\ pc[r] \in Syncing /\ release[r] \in Release
    BY <1>1 DEF IInv, Local, Loaded, Syncing
  <1>4. /\ Base(r) \in 1..3
        /\ Hook(r) \in Protocol
        /\ Hook(r) = "grpc" => up[r] = Base(r) + 2 /\ On(r, "grpc")
        /\ Hook(r) = "http" => up[r] = Base(r) + 3
    BY <1>3, ServerIsNext, HooksAre DEF IInv
  <1>5. up[r] + 1 = Base(r) + Place(Hook(r)) /\ up[r] + 1 \in 0..7
    <2>1. CASE Hook(r) = "grpc"
      BY <1>4, <2>1 DEF Place
    <2>2. CASE Hook(r) = "http"
      BY <1>4, <2>2 DEF Place
    <2>3. QED
      BY <1>4, <2>1, <2>2 DEF Protocol
  <1>6. TypeOK'
    <2>1. pc' \in [Replica -> Phases] /\ up' \in [Replica -> 0..7]
      BY <1>1, <1>5 DEF IInv, TypeOK, Phases
    <2>2. serving' \in [Replica -> SUBSET Parts]
      BY <1>1, <1>4 DEF IInv, TypeOK, Parts, Protocol
    <2>3. QED
      BY <1>1, <1>2, <2>1, <2>2 DEF IInv, TypeOK
  <1>7. \A s \in Replica \ {r} : Same(s)
    BY <1>1 DEF IInv, TypeOK, Listen, Same
  <1>8. \A s \in Replica \ {r} : Local(s)'
    BY <1>1, <1>7, Frame DEF IInv, RoutesStay
  <1>9. Local(r)'
    <2>1. /\ Base(r)' = Base(r)
          /\ \A x : On(r, x)' = On(r, x)
          /\ \A h : Made(r, h)' = Made(r, h)
      BY <1>1, HooksStay
    <2>2. Loaded(r)' /\ Registered(r)'
      BY <1>1 DEF IInv, Local, Loaded, Registered
    <2>3. Counted(r)'
      <3>1. CASE Hook(r) = "grpc"
        BY <1>1, <1>4, <2>1, <3>1 DEF Counted, Booting, Syncing
      <3>2. CASE Hook(r) = "http"
        BY <1>1, <1>4, <2>1, <3>2 DEF Counted, Booting, Syncing
      <3>3. QED
        BY <1>4, <3>1, <3>2 DEF Protocol
    <2>4. Placed(r)'
      <3>1. ASSUME NEW p \in serving'[r] \cup left[r]
            PROVE  Base(r) + Place(p) <= up[r] + 1
        <4>1. CASE p = Hook(r)
          BY <1>5, <4>1
        <4>2. CASE p # Hook(r)
          <5>1. Base(r) + Place(p) <= up[r] /\ up[r] \in 0..7
            BY <1>1, <3>1, <4>2 DEF IInv, TypeOK, Local, Placed
          <5>2. QED
            BY <1>4, <5>1, PlaceIs
        <4>3. QED
          BY <4>1, <4>2
      <3>2. "grpc" \in serving'[r] => On(r, "grpc")
        BY <1>1, <1>4 DEF IInv, Local, Placed
      <3>3. pc'[r] # "stop"
        BY <1>1
      <3>4. QED
        BY <1>1, <2>1, <3>1, <3>2, <3>3 DEF Placed
    <2>5. Opened(r)'
      <3>1. up[r] > Base(r) /\ up[r] >= Base(r)
        BY <1>4 DEF Protocol
      <3>2. QED
        BY <1>1, <2>1, <3>1 DEF IInv, Local, Opened
    <2>6. QED
      BY <2>2, <2>3, <2>4, <2>5 DEF Local
  <1>10. SchemaServesRelease'
    <2>1. \A s \in Replica : pc'[s] \in Past => pc[s] \in Past
      BY <1>1 DEF IInv, TypeOK, Past, Starting
    <2>2. QED
      BY <1>1, <2>1 DEF IInv, SchemaServesRelease, On, Past
  <1>11. RoutesFollowLastSync'
    <2>1. \A s \in Replica \ {r} : serving'[s] = serving[s] /\ poller'[s] = poller[s]
      BY <1>7 DEF Same
    <2>2. ASSUME On(r, "authorization")
          PROVE  /\ \A p \in serving'[r] \cap Protocol :
                      \A x \in Routes[release[r]][p] : routes[x] # "absent"
                 /\ "http" \in serving'[r] => poller'[r]
      <3>1. \A x \in Routes[release[r]][Hook(r)] : routes[x] # "absent"
        BY <1>1, <2>2 DEF IInv, Local, Registered, Mine
      <3>2. Hook(r) = "http" => poller'[r]
        BY <1>2, <2>2 DEF Polls
      <3>3. "http" \in serving[r] => poller'[r]
        BY <1>2, <2>2 DEF IInv, RoutesFollowLastSync
      <3>4. QED
        BY <1>1, <2>2, <3>1, <3>2, <3>3 DEF IInv, RoutesFollowLastSync
    <2>3. QED
      BY <1>1, <2>1, <2>2 DEF IInv, RoutesFollowLastSync, On
  <1>12. QED
    BY <1>6, <1>8, <1>9, <1>10, <1>11 DEF IInv
-------------------------------------------------------------------------------
(* The stop hooks. *)

\* When the n-th hook begins to stop, exactly its part takes no more work.
LEMMA QuiesceIs ==
  ASSUME IInv, NEW r \in Replica, NEW n \in 0..7, Quiesce(r, n)
  PROVE  /\ serving' \in [Replica -> SUBSET Parts]
         /\ left' \in [Replica -> SUBSET Parts]
         /\ \A s \in Replica \ {r} : serving'[s] = serving[s] /\ left'[s] = left[s]
         /\ serving'[r] \subseteq serving[r]
         /\ \A p \in Parts : Base(r) + Place(p) = n => p \notin serving'[r]
         /\ \A p \in left'[r] \ left[r] : p \in serving[r] /\ Base(r) + Place(p) = n
  <1> DEFINE part == {Hooks(r)[m] : m \in {n} \cap DOMAIN Hooks(r)}
  <1>1. PICK some \in SUBSET (part \cap serving[r]) :
          /\ serving' = [serving EXCEPT ![r] = serving[r] \ part]
          /\ left' = [left EXCEPT ![r] = left[r] \cup some]
    BY DEF Quiesce
  <1>2. \A p \in Parts : p \in part <=> Base(r) + Place(p) = n
    <2>1. /\ Base(r) \in 1..3
          /\ DOMAIN Hooks(r) = 1..(Base(r) + 4)
          /\ \A i \in 1..Base(r) : Hooks(r)[i] \in Resources
          /\ \A p \in Parts : Hooks(r)[Base(r) + Place(p)] = p
      BY HooksAre
    <2>2. ASSUME NEW p \in Parts, Base(r) + Place(p) = n
          PROVE  p \in part
      BY <2>1, <2>2, PlaceIs
    <2>3. ASSUME NEW p \in Parts, p \in part
          PROVE  Base(r) + Place(p) = n
      <3>1. n \in 1..(Base(r) + 4) /\ p = Hooks(r)[n]
        BY <2>1, <2>3
      <3>2. p \notin Resources
        BY DEF Parts, Resources
      <3>3. n \in {Base(r) + 1, Base(r) + 2, Base(r) + 3, Base(r) + 4}
        BY <2>1, <3>1, <3>2
      <3>4. /\ Hooks(r)[Base(r) + 1] = "events"
            /\ Hooks(r)[Base(r) + 2] = "scheduler"
            /\ Hooks(r)[Base(r) + 3] = "grpc"
            /\ Hooks(r)[Base(r) + 4] = "http"
        BY <2>1 DEF Parts, Place
      <3>5. QED
        BY <3>1, <3>3, <3>4 DEF Place
    <2>4. QED
      BY <2>2, <2>3
  <1> HIDE DEF part
  <1>3. serving \in [Replica -> SUBSET Parts] /\ left \in [Replica -> SUBSET Parts]
    BY DEF IInv, TypeOK
  <1>4. QED
    BY <1>1, <1>2, <1>3

\* A failed start stops the hooks that were started, in reverse; the part before
\* the one that failed is the first to take no more work.
LEMMA StartFailsKeeps ==
  ASSUME IInv, NEW r \in Replica, StartFails(r)
  PROVE  IInv'
  <1>1. /\ pc[r] \in Starting /\ pc'[r] = "stop" /\ pc' = [pc EXCEPT ![r] = "stop"]
        /\ UNCHANGED <<release, cfg, up, open>>
        /\ UNCHANGED <<schema, migrator, routes, synced>>
        /\ txn' = [txn EXCEPT ![r] = NoTxn]
        /\ Quiesce(r, up[r])
    BY DEF IInv, TypeOK, StartFails, Go, store
  <1>2. /\ poller' \in [Replica -> BOOLEAN]
        /\ \A s \in Replica \ {r} : poller'[s] = poller[s]
        /\ poller[r] => poller'[r]
    BY DEF IInv, TypeOK, StartFails, Polls
  <1>3. faults' \in 0..MaxFaults
    BY RolloutAssumption DEF IInv, TypeOK, StartFails, Fault
  <1>4. up[r] \in 0..7 /\ Base(r) \in 1..3 /\ up[r] <= Base(r) + 3
    BY <1>1, HooksAre DEF IInv, TypeOK, Local, Counted, Starting, Syncing
  <1>5. /\ serving' \in [Replica -> SUBSET Parts]
        /\ left' \in [Replica -> SUBSET Parts]
        /\ \A s \in Replica \ {r} : serving'[s] = serving[s] /\ left'[s] = left[s]
        /\ serving'[r] \subseteq serving[r]
        /\ \A p \in Parts : Base(r) + Place(p) = up[r] => p \notin serving'[r]
        /\ \A p \in left'[r] \ left[r] : p \in serving[r] /\ Base(r) + Place(p) = up[r]
    BY <1>1, <1>4, QuiesceIs
  <1>6. TypeOK'
    <2>1. pc' \in [Replica -> Phases]
      BY <1>1 DEF IInv, TypeOK, Phases
    <2>2. txn' \in [Replica -> [rows : SUBSET Route, missing : SUBSET Route]]
      BY <1>1 DEF IInv, TypeOK, NoTxn
    <2>3. QED
      BY <1>1, <1>2, <1>3, <1>5, <2>1, <2>2 DEF IInv, TypeOK
  <1>7. \A s \in Replica \ {r} : Same(s)
    BY <1>1, <1>2, <1>5 DEF IInv, TypeOK, Same
  <1>8. \A s \in Replica \ {r} : Local(s)'
    BY <1>1, <1>7, Frame DEF IInv, RoutesStay
  <1>9. Local(r)'
    <2>1. /\ Base(r)' = Base(r)
          /\ \A x : On(r, x)' = On(r, x)
          /\ \A h : Made(r, h)' = Made(r, h)
      BY <1>1, HooksStay
    <2>2. Loaded(r)' /\ Registered(r)'
      BY <1>1 DEF IInv, Local, Loaded, Registered, Starting
    <2>3. Counted(r)'
      BY <1>1, <1>4, <2>1 DEF Counted, Booting, Syncing
    <2>4. Placed(r)'
      <3>1. ASSUME NEW p \in serving'[r]
            PROVE  Base(r) + Place(p) < up[r]
        <4>1. Base(r) + Place(p) <= up[r] /\ Base(r) + Place(p) # up[r]
          BY <1>5, <3>1 DEF IInv, Local, Placed
        <4>2. QED
          BY <1>4, <4>1, PlaceIs
      <3>2. \A p \in left'[r] : Base(r) + Place(p) <= up[r]
        BY <1>4, <1>5 DEF IInv, Local, Placed
      <3>3. "grpc" \in serving'[r] => On(r, "grpc")
        BY <1>5 DEF IInv, Local, Placed
      <3>4. \A p \in serving'[r] : Base(r) + Place(p) <= up[r]
        BY <1>5 DEF IInv, Local, Placed
      <3>5. QED
        BY <1>1, <2>1, <3>1, <3>2, <3>3, <3>4 DEF Placed
    <2>5. Opened(r)'
      BY <1>1, <2>1 DEF IInv, Local, Opened
    <2>6. QED
      BY <2>2, <2>3, <2>4, <2>5 DEF Local
  <1>10. SchemaServesRelease'
    <2>1. \A s \in Replica : pc'[s] \in Past => pc[s] \in Past
      BY <1>1, <1>7 DEF Same, Past
    <2>2. QED
      BY <1>1, <2>1 DEF IInv, SchemaServesRelease, On, Past
  <1>11. RoutesFollowLastSync'
    <2>1. \A s \in Replica : serving'[s] \subseteq serving[s] /\ (poller[s] => poller'[s])
      BY <1>2, <1>5
    <2>2. QED
      BY <1>1, <2>1 DEF IInv, RoutesFollowLastSync, On
  <1>12. QED
    BY <1>6, <1>8, <1>9, <1>10, <1>11 DEF IInv

LEMMA DoneKeeps ==
  ASSUME IInv, NEW r \in Replica, Done(r)
  PROVE  IInv'
  <1>1. /\ UNCHANGED <<release, cfg, pc, up, open, serving, poller, txn>>
        /\ UNCHANGED <<schema, migrator, routes, synced, faults>>
    BY DEF Done, store
  <1>2. /\ left' \in [Replica -> SUBSET Parts]
        /\ \A s \in Replica \ {r} : left'[s] = left[s]
        /\ left'[r] \subseteq left[r]
    BY DEF IInv, TypeOK, Done
  <1>3. TypeOK'
    BY <1>1, <1>2 DEF IInv, TypeOK
  <1>4. \A s \in Replica \ {r} : Same(s)
    BY <1>1, <1>2 DEF Same
  <1>5. \A s \in Replica \ {r} : Local(s)'
    BY <1>1, <1>4, Frame DEF IInv, RoutesStay
  <1>6. Local(r)'
    <2>1. /\ Base(r)' = Base(r)
          /\ Hooks(r)' = Hooks(r)
          /\ \A x : On(r, x)' = On(r, x)
          /\ \A h : Made(r, h)' = Made(r, h)
      BY <1>1, HooksStay
    <2>2. Loaded(r)' /\ Counted(r)' /\ Opened(r)'
      BY <1>1, <2>1 DEF IInv, Local, Loaded, Counted, Opened
    <2>3. Placed(r)'
      BY <1>1, <1>2, <2>1 DEF IInv, Local, Placed
    <2>4. Registered(r)'
      BY <1>1, <2>1 DEF IInv, Local, Registered, Scope, Mine, Hook
    <2>5. QED
      BY <2>2, <2>3, <2>4 DEF Local
  <1>7. SchemaServesRelease' /\ RoutesFollowLastSync'
    BY <1>1, <1>4, StoreStays
  <1>8. QED
    BY <1>3, <1>5, <1>6, <1>7 DEF IInv

LEMMA StopKeeps ==
  ASSUME IInv, NEW r \in Replica, Stop(r)
  PROVE  IInv'
  <1>1. /\ pc[r] = "run" /\ pc'[r] = "stop" /\ pc' = [pc EXCEPT ![r] = "stop"]
        /\ UNCHANGED <<release, cfg, up, open, txn>>
        /\ UNCHANGED <<schema, migrator, routes, synced, faults>>
        /\ poller' = [poller EXCEPT ![r] = FALSE]
        /\ Quiesce(r, up[r])
    BY DEF IInv, TypeOK, Stop, Go, store
  <1>2. up[r] = Base(r) + 4 /\ up[r] \in 0..7 /\ Base(r) \in 1..3
    BY <1>1, HooksAre DEF IInv, TypeOK, Local, Counted
  <1>3. /\ serving' \in [Replica -> SUBSET Parts]
        /\ left' \in [Replica -> SUBSET Parts]
        /\ \A s \in Replica \ {r} : serving'[s] = serving[s] /\ left'[s] = left[s]
        /\ serving'[r] \subseteq serving[r]
        /\ \A p \in Parts : Base(r) + Place(p) = up[r] => p \notin serving'[r]
        /\ \A p \in left'[r] \ left[r] : p \in serving[r] /\ Base(r) + Place(p) = up[r]
    BY <1>1, <1>2, QuiesceIs
  <1>4. TypeOK'
    <2>1. pc' \in [Replica -> Phases]
      BY <1>1 DEF IInv, TypeOK, Phases
    <2>2. poller' \in [Replica -> BOOLEAN]
      BY <1>1 DEF IInv, TypeOK
    <2>3. QED
      BY <1>1, <1>3, <2>1, <2>2 DEF IInv, TypeOK
  <1>5. \A s \in Replica \ {r} : Same(s)
    BY <1>1, <1>3 DEF IInv, TypeOK, Same
  <1>6. \A s \in Replica \ {r} : Local(s)'
    BY <1>1, <1>5, Frame DEF IInv, RoutesStay
  <1>7. Local(r)'
    <2>1. /\ Base(r)' = Base(r)
          /\ \A x : On(r, x)' = On(r, x)
          /\ \A h : Made(r, h)' = Made(r, h)
      BY <1>1, HooksStay
    <2>2. Loaded(r)' /\ Registered(r)'
      BY <1>1 DEF IInv, Local, Loaded, Registered
    <2>3. Counted(r)'
      BY <1>1, <1>2, <2>1 DEF Counted, Booting, Syncing
    <2>4. Placed(r)'
      <3>1. ASSUME NEW p \in serving'[r]
            PROVE  Base(r) + Place(p) < up[r]
        <4>1. Base(r) + Place(p) <= up[r] /\ Base(r) + Place(p) # up[r]
          BY <1>3, <3>1 DEF IInv, Local, Placed
        <4>2. QED
          BY <1>2, <4>1, PlaceIs
      <3>2. \A p \in left'[r] : Base(r) + Place(p) <= up[r]
        BY <1>2, <1>3 DEF IInv, Local, Placed
      <3>3. "grpc" \in serving'[r] => On(r, "grpc")
        BY <1>3 DEF IInv, Local, Placed
      <3>4. \A p \in serving'[r] : Base(r) + Place(p) <= up[r]
        BY <1>3 DEF IInv, Local, Placed
      <3>5. QED
        BY <1>1, <2>1, <3>1, <3>2, <3>3, <3>4 DEF Placed
    <2>5. Opened(r)'
      BY <1>1, <2>1 DEF IInv, Local, Opened
    <2>6. QED
      BY <2>2, <2>3, <2>4, <2>5 DEF Local
  <1>8. "http" \notin serving'[r]
    BY <1>2, <1>3 DEF Parts, Place
  <1>9. SchemaServesRelease' /\ RoutesFollowLastSync'
    BY <1>1, <1>3, <1>5, <1>8, StoreStays DEF Past
  <1>10. QED
    BY <1>4, <1>6, <1>7, <1>9 DEF IInv

\* A stop hook ends when the work of its part has, and closes what is its own:
\* the parts that still have work are those before it.
LEMMA StopHookKeeps ==
  ASSUME IInv, NEW r \in Replica, StopHook(r)
  PROVE  IInv'
  <1>1. /\ pc[r] = "stop"
        /\ UNCHANGED <<release, cfg, pc, poller, txn>>
        /\ UNCHANGED <<schema, migrator, routes, synced, faults>>
        /\ up' = [up EXCEPT ![r] = up[r] - 1] /\ up'[r] = up[r] - 1
        /\ open' = [open EXCEPT ![r] = open[r] \ {Hooks(r)[up[r]]}]
        /\ open'[r] = open[r] \ {Hooks(r)[up[r]]}
        /\ up[r] > 0
        /\ Hooks(r)[up[r]] \notin left[r]
        /\ Quiesce(r, up[r] - 1)
    BY DEF IInv, TypeOK, StopHook, Drained, store
  <1>2. /\ up[r] \in 1..7 /\ up[r] - 1 \in 0..7
        /\ Base(r) \in 1..3 /\ up[r] <= Base(r) + 4
    BY <1>1, HooksAre DEF IInv, TypeOK, Local, Counted
  <1>3. /\ serving' \in [Replica -> SUBSET Parts]
        /\ left' \in [Replica -> SUBSET Parts]
        /\ \A s \in Replica \ {r} : serving'[s] = serving[s] /\ left'[s] = left[s]
        /\ serving'[r] \subseteq serving[r]
        /\ \A p \in Parts : Base(r) + Place(p) = up[r] - 1 => p \notin serving'[r]
        /\ \A p \in left'[r] \ left[r] : Base(r) + Place(p) = up[r] - 1
    BY <1>1, <1>2, QuiesceIs
  <1>4. TypeOK'
    <2>1. up' \in [Replica -> 0..7]
      BY <1>1, <1>2 DEF IInv, TypeOK
    <2>2. open' \in [Replica -> SUBSET (Resources \cup {"events"})]
      BY <1>1 DEF IInv, TypeOK
    <2>3. QED
      BY <1>1, <1>3, <2>1, <2>2 DEF IInv, TypeOK
  <1>5. \A s \in Replica \ {r} : Same(s)
    BY <1>1, <1>3 DEF IInv, TypeOK, Same
  <1>6. \A s \in Replica \ {r} : Local(s)'
    BY <1>1, <1>5, Frame DEF IInv, RoutesStay
  <1>7. Local(r)'
    <2>1. /\ Base(r)' = Base(r)
          /\ \A x : On(r, x)' = On(r, x)
          /\ \A h : Made(r, h)' = Made(r, h)
      BY <1>1, HooksStay
    <2>2. Loaded(r)' /\ Registered(r)'
      BY <1>1 DEF IInv, Local, Loaded, Registered
    <2>3. Counted(r)'
      BY <1>1, <1>2, <2>1 DEF Counted, Booting, Syncing
    <2>4. Placed(r)'
      <3>1. ASSUME NEW p \in serving'[r]
            PROVE  Base(r) + Place(p) < up[r] - 1
        <4>1. Base(r) + Place(p) < up[r] /\ Base(r) + Place(p) # up[r] - 1
          BY <1>1, <1>3, <3>1 DEF IInv, Local, Placed
        <4>2. QED
          BY <1>2, <4>1, PlaceIs
      <3>2. ASSUME NEW p \in left'[r]
            PROVE  Base(r) + Place(p) <= up[r] - 1
        <4>1. CASE p \in left[r]
          <5>1. Base(r) + Place(p) <= up[r] /\ p \in Parts
            BY <4>1 DEF IInv, TypeOK, Local, Placed
          <5>2. Base(r) + Place(p) # up[r]
            BY <1>1, <4>1, <5>1, HooksAre
          <5>3. QED
            BY <1>2, <5>1, <5>2, PlaceIs
        <4>2. CASE p \notin left[r]
          BY <1>2, <1>3, <3>2, <4>2
        <4>3. QED
          BY <4>1, <4>2
      <3>3. "grpc" \in serving'[r] => On(r, "grpc")
        BY <1>3 DEF IInv, Local, Placed
      <3>4. \A p \in serving'[r] : Base(r) + Place(p) <= up[r] - 1
        BY <1>2, <3>1, PlaceIs
      <3>5. QED
        BY <1>1, <2>1, <3>1, <3>2, <3>3, <3>4 DEF Placed
    <2>5. Opened(r)'
      <3>1. ASSUME up[r] > Base(r)
            PROVE  /\ Hooks(r)[up[r]] \notin Resources
                   /\ Hooks(r)[up[r]] = "events" => up[r] = Base(r) + 1
        <4>1. up[r] \in {Base(r) + 1, Base(r) + 2, Base(r) + 3, Base(r) + 4}
          BY <1>2, <3>1
        <4>2. /\ Hooks(r)[Base(r) + 1] = "events"
              /\ Hooks(r)[Base(r) + 2] = "scheduler"
              /\ Hooks(r)[Base(r) + 3] = "grpc"
              /\ Hooks(r)[Base(r) + 4] = "http"
          BY HooksAre DEF Parts, Place
        <4>3. QED
          BY <4>1, <4>2 DEF Resources
      <3>2. up[r] - 1 >= Base(r) => {h \in Resources : Made(r, h)} \subseteq open'[r]
        <4>1. up[r] - 1 >= Base(r) => up[r] > Base(r) /\ up[r] >= Base(r)
          BY <1>2
        <4>2. QED
          BY <1>1, <3>1, <4>1 DEF IInv, Local, Opened
      <3>3. up[r] - 1 > Base(r) /\ On(r, "eventBus") => "events" \in open'[r]
        <4>1. up[r] - 1 > Base(r) => up[r] > Base(r) /\ up[r] # Base(r) + 1
          BY <1>2
        <4>2. QED
          BY <1>1, <3>1, <4>1 DEF IInv, Local, Opened
      <3>4. QED
        BY <1>1, <2>1, <3>2, <3>3 DEF Opened
    <2>6. QED
      BY <2>2, <2>3, <2>4, <2>5 DEF Local
  <1>8. SchemaServesRelease' /\ RoutesFollowLastSync'
    BY <1>1, <1>3, <1>5, StoreStays
  <1>9. QED
    BY <1>4, <1>6, <1>7, <1>8 DEF IInv
-------------------------------------------------------------------------------
(* Every step. *)

LEMMA StutterKeeps ==
  ASSUME IInv, UNCHANGED vars
  PROVE  IInv'
  <1>1. /\ UNCHANGED <<release, cfg, pc, up, open, serving, left, poller, txn>>
        /\ UNCHANGED <<schema, migrator, routes, synced, faults>>
    BY DEF vars, process, store
  <1>2. TypeOK'
    BY <1>1 DEF IInv, TypeOK
  <1>3. \A s \in Replica : Same(s)
    BY <1>1 DEF Same
  <1>4. \A s \in Replica : Local(s)'
    BY <1>1, <1>3, Frame DEF IInv, RoutesStay
  <1>5. SchemaServesRelease' /\ RoutesFollowLastSync'
    BY <1>1 DEF IInv, SchemaServesRelease, RoutesFollowLastSync, On
  <1>6. QED
    BY <1>2, <1>4, <1>5 DEF IInv

\* Whatever ends a process ends it wholly.
LEMMA EndKeeps ==
  ASSUME IInv, NEW r \in Replica,
         MigrationFails(r) \/ BuildFails(r) \/ Exit(r) \/ Die(r)
  PROVE  IInv'
  <1>1. Gone(r)
    BY DEF MigrationFails, BuildFails, Exit, Die
  <1>2. UNCHANGED faults \/ Fault
    BY DEF MigrationFails, BuildFails, Exit, Die
  <1>3. faults' \in 0..MaxFaults
    BY <1>2, RolloutAssumption DEF IInv, TypeOK, Fault
  <1>4. QED
    BY <1>1, <1>3, GoneKeeps

LEMMA NextKeeps == IInv /\ [Next]_vars => IInv'
  <1> SUFFICES ASSUME IInv, [Next]_vars PROVE IInv'
    OBVIOUS
  <1>1. CASE UNCHANGED vars
    BY <1>1, StutterKeeps
  <1>2. ASSUME NEW r \in Replica, NEW n \in Release, NEW s \in Setups[r], Launch(r, n, s)
        PROVE  IInv'
    BY <1>2, LaunchKeeps
  <1>3. ASSUME NEW r \in Replica, Step(r)
        PROVE  IInv'
    <2>1. CASE EnsureSchema(r) \/ TakeLock(r) \/ MigrateBegin(r) \/ MigrateEnd(r) \/ Migrated(r)
      BY <2>1, EnsureSchemaKeeps, TakeLockKeeps, MigrateBeginKeeps, MigrateEndKeeps,
         MigratedKeeps
    <2>2. CASE Build(r) \/ SkipHook(r) \/ StartPart(r)
      BY <2>2, BuildKeeps, SkipHookKeeps, StartPartKeeps
    <2>3. CASE StartOpen(r) \/ SyncSnapshot(r) \/ SyncDeactivate(r) \/ SyncStore(r) \/ Listen(r)
      BY <2>3, StartOpenKeeps, SyncSnapshotKeeps, SyncDeactivateKeeps, SyncStoreKeeps,
         ListenKeeps
    <2>4. CASE StartFails(r) \/ StopHook(r)
      BY <2>4, StartFailsKeeps, StopHookKeeps
    <2>5. CASE MigrationFails(r) \/ BuildFails(r) \/ Exit(r)
      BY <2>5, EndKeeps
    <2>6. QED
      BY <1>3, <2>1, <2>2, <2>3, <2>4, <2>5 DEF Step
  <1>4. ASSUME NEW r \in Replica, Done(r) \/ Stop(r) \/ Die(r)
        PROVE  IInv'
    BY <1>4, DoneKeeps, StopKeeps, EndKeeps
  <1>5. QED
    BY <1>1, <1>2, <1>3, <1>4 DEF Next
-------------------------------------------------------------------------------
(* The results. *)

\* Where the hooks of every process stand, what it has open and what it has
\* registered holds in every state, whatever fails or dies.
THEOREM InvariantHolds == Spec => []IInv
  <1>1. Init => IInv
    BY InitOK
  <1>2. IInv /\ [Next]_vars => IInv'
    BY NextKeeps
  <1>3. QED
    BY <1>1, <1>2, PTL DEF Spec

\* Every variable of the replicas and their database keeps its type.
THEOREM TypeCorrect == Spec => []TypeOK
  <1>1. IInv => TypeOK
    BY DEF IInv
  <1>2. QED
    BY <1>1, InvariantHolds, PTL

\* For every configuration that loads: no stop, failed start or rollback closes
\* what a request, an event or a job under way uses.
THEOREM NothingIsClosedUnderWork == Spec => []WorkHasItsResources
  <1>1. IInv => WorkHasItsResources
    <2> SUFFICES ASSUME IInv, NEW r \in Replica, NEW p \in serving[r] \cup left[r],
                        NEW h \in Needs(r, p)
                 PROVE  h \in open[r]
      BY DEF WorkHasItsResources
    <2>1. up[r] > Base(r) /\ up[r] >= Base(r)
      <3>1. Base(r) + Place(p) <= up[r] /\ up[r] \in 0..7
        BY DEF IInv, TypeOK, Local, Placed
      <3>2. QED
        BY <3>1, HooksAre, PlaceIs
    <2>2. h \in Resources \cup {"events"}
      BY DEF IInv, TypeOK, Needs, Parts, Protocol, Resources
    <2>3. IF h = "events" THEN On(r, "eventBus") ELSE Made(r, h)
      BY DEF Needs
    <2>4. QED
      BY <2>1, <2>2, <2>3 DEF IInv, Local, Opened
  <1>2. QED
    BY <1>1, InvariantHolds, PTL

\* For any number of replicas that migrate together, fail and die: what goes
\* past its migration has the schema of its release, whole.
THEOREM SchemaIsReady == Spec => []SchemaServesRelease
  <1>1. IInv => SchemaServesRelease
    BY DEF IInv
  <1>2. QED
    BY <1>1, InvariantHolds, PTL

\* For any routes of two releases, with those of the protocols apart, and any
\* overlap of transactions of SyncRoutes: the last one of each protocol decides
\* which routes are active, and no server takes requests for unknown routes.
THEOREM LastSyncDecides == Spec => []RoutesFollowLastSync
  <1>1. IInv => RoutesFollowLastSync
    BY DEF IInv
  <1>2. QED
    BY <1>1, InvariantHolds, PTL

\* No combination of flag, environment and files gets a process of the
\* production profile to serve unguarded.
THEOREM GuardsAreUp == Spec => []ProductionIsGuarded
  <1>1. IInv => ProductionIsGuarded
    <2> SUFFICES ASSUME IInv, NEW r \in Replica, cfg[r].profile = "production"
                 PROVE  /\ On(r, "authorization") /\ On(r, "jwks")
                        /\ "grpc" \in serving[r] => On(r, "grpcTLS") /\ ~ On(r, "reflection")
      BY DEF ProductionIsGuarded
    <2>1. Validate("production", cfg[r].on)
      BY DEF IInv, Local, Loaded
    <2>2. "grpc" \in serving[r] => On(r, "grpc")
      BY DEF IInv, Local, Placed
    <2>3. QED
      BY <2>1, <2>2 DEF Validate, On
  <1>2. QED
    BY <1>1, InvariantHolds, PTL
===============================================================================
