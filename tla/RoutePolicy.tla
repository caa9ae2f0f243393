----------------------------- MODULE RoutePolicy ------------------------------
(***************************************************************************)
(* Route authorization policies: written to the database by                *)
(* routepolicy.Service.Set under optimistic versions, and served from an   *)
(* in-memory snapshot that every replica reloads on its own.               *)
(*                                                                         *)
(* A reload (Manager.RefreshSource, under a mutex) is three statements     *)
(* that share no transaction: the policies, their permission references,   *)
(* and the revision max(updated_at) that the poll of Manager.Run compares  *)
(* with.  A Set reloads its own replica and then tells the others over     *)
(* Redis.  updated_at is the time of the statement, not of the commit.     *)
(***************************************************************************)
EXTENDS Naturals

CONSTANTS
    Replica,
    Route,       \* ids of routes
    Registered,  \* the routes in route_definitions
    Writer,      \* calls of Service.Set, one each
    Home,        \* Home[w]: the replica that serves call w
    Expr, Refs,  \* CEL expressions, sets of permission references
    NoRefs,      \* no references
    Trimmed,     \* Trimmed[y]: references y without surrounding blanks
    Compiles,    \* the pairs <<expression, references>> that compile (external)
    Inputs,      \* what callers send: [route, expr, refs, active, expected]
    Seed,        \* Seed[x]: the policy a migration installed for x, or None
    None,
    Redis,       \* redis.enabled
    MaxFaults    \* bound: faults in one behaviour

Policy == [ver : Nat, expr : Expr, refs : Refs, active : BOOLEAN, at : Nat]
Input == [route : Route, expr : Expr, refs : Refs, active : BOOLEAN, expected : Nat]

\* A policy as the snapshot holds it, and as the first SELECT of Load returns it.
Entry == [ver : Nat, expr : Expr, refs : Refs]
PolicyHead == [ver : Nat, expr : Expr]

ASSUME PolicyAssumption ==
    /\ Registered \subseteq Route
    /\ Home \in [Writer -> Replica]
    /\ NoRefs \in Refs
    /\ Trimmed \in [Refs -> Refs]
    /\ Compiles \subseteq Expr \X Refs
    /\ Inputs \subseteq Input
    /\ None \notin Policy /\ None \notin Input /\ None \notin Entry /\ None \notin PolicyHead
    /\ Seed \in [Route -> Policy \cup {None}]
    /\ \A x \in Route : Seed[x] # None => x \in Registered /\ Seed[x].at = 0 /\ Seed[x].ver = 1
    /\ Writer \cap Replica = {}
    /\ Redis \in BOOLEAN
    /\ MaxFaults \in Nat

VARIABLES
    db,        \* db[x]: the committed policy of route x, or None
    clock,     \* the database clock: one tick per write
    wpc,       \* where each call of Set is
    input,     \* its input
    stamp,     \* updated_at of its uncommitted write
    outcome,   \* what it returned
    snapshot,  \* snapshot[p][x]: the compiled policy replica p enforces
    revision,  \* Manager.revision
    refresh,   \* the reload each call of Set and each Manager.Run is in
    inbox,     \* a notification waits in the subscription
    life,      \* where a replica is between its start and its end
    faults

dbVars == <<db, clock>>
writerVars == <<wpc, input, stamp, outcome>>
cacheVars == <<snapshot, revision, refresh, inbox, life>>
vars == <<db, clock, wpc, input, stamp, outcome, snapshot, revision, refresh, inbox, life, faults>>

\* Who may reload: a call of Set, or Manager.Run of a replica (named by the
\* replica), and the replica whose snapshot it reloads.
Loader == Writer \cup Replica
At(a) == IF a \in Writer THEN Home[a] ELSE a

TypeOK ==
    /\ db \in [Route -> Policy \cup {None}]
    /\ clock \in Nat
    /\ wpc \in [Writer -> {"start", "begin", "insert", "commit", "refresh", "notify", "log", "done"}]
    /\ input \in [Writer -> Inputs \cup {None}]
    /\ stamp \in [Writer -> Nat]
    /\ outcome \in [Writer -> {"none", "ok", "invalid", "conflict", "missing", "internal", "unavailable"}]
    /\ snapshot \in [Replica -> [Route -> Entry \cup {None}]]
    /\ revision \in [Replica -> Nat]
    /\ refresh \in [Loader -> [stage : {"free", "wait", "refs", "revision"},
                               heads : [Route -> PolicyHead \cup {None}]]]
    /\ inbox \in [Replica -> BOOLEAN]
    /\ life \in [Replica -> {"down", "loading", "loaded", "up"}]
    /\ faults \in 0..MaxFaults

Free == [stage |-> "free", heads |-> [x \in Route |-> None]]

\* What a completed load of the database holds for route x.
Active(x) == db[x] # None /\ db[x].active
EntryOf(x) ==
    IF Active(x) THEN [ver |-> db[x].ver, expr |-> db[x].expr, refs |-> db[x].refs] ELSE None

\* Every replica has started and loaded what the migrations installed.
Init ==
    /\ db = Seed
    /\ clock = 0
    /\ wpc = [w \in Writer |-> "start"]
    /\ input = [w \in Writer |-> None]
    /\ stamp = [w \in Writer |-> 0]
    /\ outcome = [w \in Writer |-> "none"]
    /\ snapshot = [p \in Replica |-> [x \in Route |-> EntryOf(x)]]
    /\ revision = [p \in Replica |-> 0]
    /\ refresh = [a \in Loader |-> Free]
    /\ inbox = [p \in Replica |-> FALSE]
    /\ life = [p \in Replica |-> "up"]
    /\ faults = 0

Fault ==
    /\ faults < MaxFaults
    /\ faults' = faults + 1
-------------------------------------------------------------------------------
(* Service.Set up to its commit. *)

Goto(w, label) ==
    /\ wpc' = [wpc EXCEPT ![w] = label]
    /\ UNCHANGED outcome

\* Set is left with an error for the operation log and the caller.
Return(w, result) ==
    /\ wpc' = [wpc EXCEPT ![w] = "log"]
    /\ outcome' = [outcome EXCEPT ![w] = result]

\* The checks of Set: the trimmed references must make the expression compile.
\* They fail before anything is logged.
SetValidate(w) ==
    /\ wpc[w] = "start"
    /\ life[Home[w]] = "up"
    /\ \E i \in Inputs :
         /\ input' = [input EXCEPT ![w] = i]
         /\ \/ /\ <<i.expr, Trimmed[i.refs]>> \in Compiles
               /\ Goto(w, "begin")
            \/ /\ <<i.expr, Trimmed[i.refs]>> \notin Compiles
               /\ wpc' = [wpc EXCEPT ![w] = "done"]
               /\ outcome' = [outcome EXCEPT ![w] = "invalid"]
    /\ UNCHANGED <<dbVars, stamp, cacheVars, faults>>

\* Some open transaction has written the policy row of x.
Locked(x) == \E v \in Writer : wpc[v] = "commit" /\ input[v].route = x

\* The write statements of the transaction take the time of the database.
Write(w) ==
    /\ clock' = clock + 1
    /\ stamp' = [stamp EXCEPT ![w] = clock + 1]
    /\ Goto(w, "commit")
    /\ UNCHANGED db

\* Mutant: the expected version is not compared.
SetBeginUnchecked(w) ==
    /\ wpc[w] = "begin"
    /\ input[w].route \in Registered
    /\ LET x == input[w].route IN
       \/ db[x] # None /\ ~Locked(x) /\ Write(w)
       \/ db[x] = None /\ Goto(w, "insert") /\ UNCHANGED <<dbVars, stamp>>
    /\ UNCHANGED <<input, cacheVars, faults>>

\* The route must be registered.
SetMissing(w) ==
    /\ wpc[w] = "begin"
    /\ input[w].route \notin Registered
    /\ Return(w, "missing")
    /\ UNCHANGED <<dbVars, input, stamp, cacheVars, faults>>

\* SELECT ... FOR UPDATE, the version check and the update of an existing
\* policy; without one, the insert follows.
SetBegin(w) ==
    /\ wpc[w] = "begin"
    /\ input[w].route \in Registered
    /\ LET x == input[w].route
           e == input[w].expected IN
       \/ db[x] # None /\ ~Locked(x) /\ db[x].ver = e /\ Write(w)
       \/ /\ db[x] # None /\ ~Locked(x) /\ db[x].ver # e
          /\ Return(w, "conflict") /\ UNCHANGED <<dbVars, stamp>>
       \/ /\ db[x] = None /\ e = 0
          /\ Goto(w, "insert") /\ UNCHANGED <<dbVars, stamp>>
       \/ /\ db[x] = None /\ e # 0
          /\ Return(w, "conflict") /\ UNCHANGED <<dbVars, stamp>>
    /\ UNCHANGED <<input, cacheVars, faults>>

\* The unique index on route_id: the insert waits for another open insert and
\* fails once that one is committed.
SetInsert(w) ==
    /\ wpc[w] = "insert"
    /\ LET x == input[w].route IN
       /\ ~Locked(x)
       /\ \/ db[x] = None /\ Write(w)
          \/ db[x] # None /\ Return(w, "internal") /\ UNCHANGED <<dbVars, stamp>>
    /\ UNCHANGED <<input, cacheVars, faults>>

\* The policy as the transaction of w leaves it: the references as they were
\* sent, and the version the trigger computes.
Written(w) ==
    LET i == input[w]
    IN  [ver |-> IF db[i.route] = None THEN 1 ELSE db[i.route].ver + 1,
         expr |-> i.expr, refs |-> i.refs, active |-> i.active, at |-> stamp[w]]

\* Mutant: Set does not reload its own replica.
SetCommitOnly(w) ==
    /\ wpc[w] = "commit"
    /\ db' = [db EXCEPT ![input[w].route] = Written(w)]
    /\ Goto(w, "notify")
    /\ UNCHANGED <<clock, input, stamp, cacheVars, faults>>

SetCommit(w) ==
    /\ wpc[w] = "commit"
    /\ db' = [db EXCEPT ![input[w].route] = Written(w)]
    /\ Goto(w, "refresh")
    /\ UNCHANGED <<clock, input, stamp, cacheVars, faults>>

\* A statement of the transaction fails and it is rolled back.
SetAbort(w) ==
    /\ wpc[w] \in {"begin", "insert", "commit"}
    /\ Fault
    /\ Return(w, "internal")
    /\ UNCHANGED <<dbVars, input, stamp, cacheVars>>

\* The commit is done but its confirmation is lost: Set returns an error and
\* neither reloads nor notifies.
SetCommitUnknown(w) ==
    /\ wpc[w] = "commit"
    /\ Fault
    /\ db' = [db EXCEPT ![input[w].route] = Written(w)]
    /\ Return(w, "internal")
    /\ UNCHANGED <<clock, input, stamp, cacheVars>>
-------------------------------------------------------------------------------
(* Manager.RefreshSource. *)

LoadedHeads ==
    [x \in Route |-> IF Active(x) THEN [ver |-> db[x].ver, expr |-> db[x].expr] ELSE None]

\* Mutant: reloads of one replica may overlap.
RefreshBeginUnlocked(a) ==
    /\ refresh[a].stage \in {"free", "wait"}
    /\ refresh' = [refresh EXCEPT ![a] = [stage |-> "refs", heads |-> LoadedHeads]]

\* The mutex is taken and the first SELECT of Load reads the policies.
RefreshBegin(a) ==
    /\ \A b \in Loader : At(b) = At(a) => refresh[b].stage \in {"free", "wait"}
    /\ refresh' = [refresh EXCEPT ![a] = [stage |-> "refs", heads |-> LoadedHeads]]

\* The mutex is released.  A call of Set goes on to notify, or returns an error;
\* a replica that was starting has started, or gives up.
RefreshEnd(a, ok) ==
    /\ refresh' = [refresh EXCEPT ![a] = Free]
    /\ \/ /\ a \in Writer
          /\ IF ok THEN Goto(a, "notify") ELSE Return(a, "unavailable")
          /\ UNCHANGED life
       \/ /\ a \in Replica
          /\ life' = [life EXCEPT ![a] =
                        IF @ # "loading" THEN @ ELSE IF ok THEN "loaded" ELSE "down"]
          /\ UNCHANGED <<wpc, outcome>>

\* The references the second SELECT finds for a policy the first one returned.
Joined(a) ==
    [x \in Route |->
        IF refresh[a].heads[x] = None THEN None
        ELSE [ver |-> refresh[a].heads[x].ver, expr |-> refresh[a].heads[x].expr,
              refs |-> IF Active(x) THEN db[x].refs ELSE NoRefs]]

AllCompile(entries) ==
    \A x \in Route : entries[x] # None => <<entries[x].expr, entries[x].refs>> \in Compiles

\* Mutant: a reload that fails takes the snapshot away.
RefreshInstallDropping(a) ==
    /\ refresh[a].stage = "refs"
    /\ \/ /\ AllCompile(Joined(a))
          /\ snapshot' = [snapshot EXCEPT ![At(a)] = Joined(a)]
          /\ refresh' = [refresh EXCEPT ![a].stage = "revision"]
          /\ UNCHANGED <<wpc, outcome, life>>
       \/ /\ ~AllCompile(Joined(a))
          /\ RefreshEnd(a, FALSE)
          /\ snapshot' = [snapshot EXCEPT ![At(a)] = None]
    /\ UNCHANGED <<dbVars, input, stamp, revision, inbox, faults>>

\* The second SELECT of Load; the snapshot is replaced if every policy
\* compiles, and stays as it is otherwise.
RefreshInstall(a) ==
    /\ refresh[a].stage = "refs"
    /\ \/ /\ AllCompile(Joined(a))
          /\ snapshot' = [snapshot EXCEPT ![At(a)] = Joined(a)]
          /\ refresh' = [refresh EXCEPT ![a].stage = "revision"]
          /\ UNCHANGED <<wpc, outcome, life>>
       \/ /\ ~AllCompile(Joined(a))
          /\ RefreshEnd(a, FALSE)
          /\ UNCHANGED snapshot
    /\ UNCHANGED <<dbVars, input, stamp, revision, inbox, faults>>

\* max(updated_at) over the committed policies and references.
IsRevision(t) ==
    /\ \A x \in Route : db[x] # None => db[x].at <= t
    /\ t = 0 \/ \E x \in Route : db[x] # None /\ db[x].at = t

RefreshRevision(a) ==
    /\ refresh[a].stage = "revision"
    /\ \E t \in 0..clock :
         /\ IsRevision(t)
         /\ revision' = [revision EXCEPT ![At(a)] = t]
    /\ RefreshEnd(a, TRUE)
    /\ UNCHANGED <<dbVars, input, stamp, snapshot, inbox, faults>>

\* A statement of the reload fails.
RefreshFail(a) ==
    /\ refresh[a].stage \in {"refs", "revision"}
    /\ Fault
    /\ RefreshEnd(a, FALSE)
    /\ UNCHANGED <<dbVars, input, stamp, snapshot, revision, inbox>>
-------------------------------------------------------------------------------
(* The end of Service.Set. *)

SetRefresh(w) ==
    /\ wpc[w] = "refresh"
    /\ RefreshBegin(w)
    /\ UNCHANGED <<dbVars, writerVars, snapshot, revision, inbox, life, faults>>

\* Mutant: nobody is notified.
SetNotifyNobody(w) ==
    /\ wpc[w] = "notify"
    /\ Goto(w, "log")
    /\ UNCHANGED <<dbVars, input, stamp, cacheVars, faults>>

\* Manager.Notify reaches every replica that is subscribed.
SetNotify(w) ==
    /\ wpc[w] = "notify"
    /\ inbox' = [p \in Replica |-> inbox[p] \/ (Redis /\ life[p] = "up")]
    /\ Goto(w, "log")
    /\ UNCHANGED <<dbVars, input, stamp, snapshot, revision, refresh, life, faults>>

\* The publication fails, which is only logged, or messages are lost.
SetNotifyLost(w) ==
    /\ wpc[w] = "notify" /\ Redis
    /\ Fault
    /\ \E reached \in SUBSET Replica :
         inbox' = [p \in Replica |-> inbox[p] \/ (p \in reached /\ life[p] = "up")]
    /\ Goto(w, "log")
    /\ UNCHANGED <<dbVars, input, stamp, snapshot, revision, refresh, life>>

\* The operation log entry is published and Set returns.
SetReturn(w) ==
    /\ wpc[w] = "log"
    /\ wpc' = [wpc EXCEPT ![w] = "done"]
    /\ outcome' = [outcome EXCEPT ![w] = IF @ = "none" THEN "ok" ELSE @]
    /\ UNCHANGED <<dbVars, input, stamp, cacheVars, faults>>

\* The operation log or the final read is unavailable: a call that succeeded so
\* far returns an error although its policy is in force.
SetReturnUnlogged(w) ==
    /\ wpc[w] = "log"
    /\ Fault
    /\ wpc' = [wpc EXCEPT ![w] = "done"]
    /\ \E result \in {"unavailable", "internal"} :
         outcome' = [outcome EXCEPT ![w] = IF @ = "none" THEN result ELSE @]
    /\ UNCHANGED <<dbVars, input, stamp, cacheVars>>
-------------------------------------------------------------------------------
(* Manager.Run, and the life of a replica. *)

\* The loop waits in its select, or in a reload it has decided on.
Idle(p) == life[p] = "up" /\ refresh[p].stage = "free"
Ask(p) == refresh' = [refresh EXCEPT ![p].stage = "wait"]

\* A message from a peer leads to a reload.
RunMessage(p) ==
    /\ Idle(p)
    /\ inbox[p]
    /\ inbox' = [inbox EXCEPT ![p] = FALSE]
    /\ Ask(p)
    /\ UNCHANGED <<dbVars, writerVars, snapshot, revision, life, faults>>

\* The ticker: a revision other than the stored one leads to a reload.
RunPoll(p) ==
    /\ Idle(p)
    /\ ~IsRevision(revision[p])
    /\ Ask(p)
    /\ UNCHANGED <<dbVars, writerVars, snapshot, revision, inbox, life, faults>>

\* The reload gets the mutex.
RunReload(p) ==
    /\ refresh[p].stage = "wait"
    /\ RefreshBegin(p)
    /\ UNCHANGED <<dbVars, writerVars, snapshot, revision, inbox, life, faults>>

\* The process stops: its calls of Set end where they are (an open transaction
\* is rolled back) and its memory is gone.
Crash(p) ==
    /\ life[p] # "down"
    /\ Fault
    /\ life' = [life EXCEPT ![p] = "down"]
    /\ inbox' = [inbox EXCEPT ![p] = FALSE]
    /\ refresh' = [a \in Loader |-> IF At(a) = p THEN Free ELSE refresh[a]]
    /\ snapshot' = [snapshot EXCEPT ![p] = [x \in Route |-> None]]
    /\ revision' = [revision EXCEPT ![p] = 0]
    /\ wpc' = [w \in Writer |->
                 IF Home[w] = p /\ wpc[w] # "start" THEN "done" ELSE wpc[w]]
    /\ UNCHANGED <<dbVars, input, stamp, outcome>>

\* OnStart reloads, then subscribes and starts the poll.
Start(p) ==
    /\ \/ /\ life[p] = "down"
          /\ life' = [life EXCEPT ![p] = "loading"]
          /\ RefreshBegin(p)
       \/ /\ life[p] = "loaded"
          /\ life' = [life EXCEPT ![p] = "up"]
          /\ UNCHANGED refresh
    /\ UNCHANGED <<dbVars, writerVars, snapshot, revision, inbox, faults>>
-------------------------------------------------------------------------------
\* No call is left and every replica waits for a message or a new revision.
Quiescent ==
    /\ \A w \in Writer : wpc[w] = "done"
    /\ \A p \in Replica : life[p] = "up" /\ ~inbox[p] /\ IsRevision(revision[p])
    /\ \A a \in Loader : refresh[a].stage = "free"
    /\ UNCHANGED vars

SetStep(w) ==
    \/ SetMissing(w) \/ SetBegin(w) \/ SetInsert(w) \/ SetCommit(w)
    \/ SetRefresh(w) \/ SetNotify(w) \/ SetReturn(w)

SetFault(w) ==
    SetAbort(w) \/ SetCommitUnknown(w) \/ SetNotifyLost(w) \/ SetReturnUnlogged(w)

RefreshStep(a) == RefreshInstall(a) \/ RefreshRevision(a)

Next ==
    \/ \E w \in Writer : SetValidate(w) \/ SetStep(w) \/ SetFault(w)
    \/ \E a \in Loader : RefreshStep(a) \/ RefreshFail(a)
    \/ \E p \in Replica : RunMessage(p) \/ RunPoll(p) \/ RunReload(p) \/ Crash(p) \/ Start(p)
    \/ Quiescent

Spec == Init /\ [][Next]_vars

\* Calls in progress, reloads, the ticker, the subscription and the restart of
\* a stopped replica go on; a caller need not call, and no fault need happen.
Fairness ==
    /\ \A w \in Writer : SF_vars(SetStep(w))
    /\ \A a \in Loader : WF_vars(RefreshStep(a))
    /\ \A p \in Replica :
         /\ SF_vars(RunMessage(p)) /\ SF_vars(RunPoll(p)) /\ SF_vars(RunReload(p))
         /\ WF_vars(Start(p))

FairSpec == Spec /\ Fairness
-------------------------------------------------------------------------------
(* Correctness. *)

Accepted(w) == outcome[w] = "ok"

\* Of several calls that expect the same version of a route's policy, at most
\* one is accepted, whatever they wait for and in which order they commit.
OneWriterPerVersion ==
    \A v, w \in Writer :
        /\ Accepted(v) /\ Accepted(w)
        /\ input[v].route = input[w].route
        /\ input[v].expected = input[w].expected
        => v = w

\* When a call of Set has returned success, its replica enforces the policy it
\* wrote or a later one (none at all only if some call disabled the policy),
\* although other reloads run on that replica.
WriterSeesItsPolicy ==
    \A w \in Writer : Accepted(w) /\ life[Home[w]] = "up" =>
        LET e == snapshot[Home[w]][input[w].route] IN
        IF e # None THEN e.ver > input[w].expected
        ELSE \E v \in Writer : /\ input[v] # None
                                /\ input[v].route = input[w].route
                                /\ ~input[v].active

\* A replica never goes back to an older version of a policy: the mutex keeps a
\* slow reload from overwriting the result of a faster one.
SnapshotNeverGoesBack ==
    [][\A p \in Replica, x \in Route :
        /\ life[p] = "up" /\ life'[p] = "up"
        /\ snapshot[p][x] # None /\ snapshot'[p][x] # None
        => snapshot'[p][x].ver >= snapshot[p][x].ver]_vars

\* What every replica enforces is what the database holds.
InForce == \A p \in Replica, x \in Route : life[p] = "up" /\ snapshot[p][x] = EntryOf(x)

\* Once the calls have ended, every replica enforces the policies of the
\* database for good.
ReplicasConverge == <>[]((\A w \in Writer : wpc[w] \in {"start", "done"}) => InForce)
===============================================================================
