--------------------------- MODULE RoutePolicyProofs ---------------------------
(***************************************************************************)
(* Proofs about RoutePolicy, for every set of replicas, routes and calls   *)
(* of Set, every input and any number of faults.                           *)
(*                                                                         *)
(* Two arguments meet here.  The row lock and the version check order the  *)
(* writes of a route (Based, Overtaken).  The mutex orders the reloads of a*)
(* replica, so that what a reload read in its first statement is at least  *)
(* as new as the snapshot it will replace (HeadsAhead) and shows every     *)
(* call that waits for it or was served before it (HeadsSee).              *)
(***************************************************************************)
EXTENDS RoutePolicy, TLAPS

USE PolicyAssumption

\* Some call has asked for the policy of x to be disabled.
Disabled(x) ==
    \E v \in Writer : input[v] # None /\ input[v].route = x /\ ~input[v].active

\* A call has its input from its first step on and an outcome only at its end.
Calls ==
    \A w \in Writer :
      /\ IF wpc[w] = "start" THEN input[w] = None ELSE input[w] \in Inputs
      /\ wpc[w] \notin {"log", "done"} => outcome[w] = "none"

\* The committed policies: the first version is 1, and only a call disables one.
Stored ==
    \A x \in Route : db[x] # None =>
      /\ db[x].ver > 0
      /\ db[x].at > 0 /\ ~db[x].active => Disabled(x)

\* An open transaction is based on the version its caller expects, and it is
\* the only one on its route.
Based ==
    \A w \in Writer :
      /\ wpc[w] = "insert" => input[w].expected = 0
      /\ wpc[w] = "commit" =>
           /\ stamp[w] > 0
           /\ IF db[input[w].route] = None THEN input[w].expected = 0
              ELSE input[w].expected = db[input[w].route].ver
           /\ \A v \in Writer :
                wpc[v] = "commit" /\ input[v].route = input[w].route => v = w

\* The calls that have committed and may still succeed.
Wrote(w) ==
    \/ wpc[w] \in {"refresh", "notify"}
    \/ wpc[w] = "log" /\ outcome[w] = "none"
    \/ outcome[w] = "ok"

\* Their version is behind, and each has taken a version of its own.
Overtaken ==
    \A w \in Writer : Wrote(w) =>
      /\ wpc[w] # "start"
      /\ LET x == input[w].route IN db[x] # None /\ db[x].at > 0 /\ db[x].ver > input[w].expected
      /\ \A v \in Writer :
           /\ Wrote(v)
           /\ input[v].route = input[w].route /\ input[v].expected = input[w].expected
           => v = w

\* A replica that serves a call is up, a call reloads only after its commit, and
\* only a replica that is up or starting reloads.
Alive ==
    /\ \A w \in Writer :
         /\ wpc[w] \notin {"start", "done"} => life[Home[w]] = "up"
         /\ refresh[w].stage # "free" => wpc[w] = "refresh" /\ refresh[w].stage # "wait"
    /\ \A p \in Replica :
         life[p] \in {"down", "loaded"} => refresh[p].stage = "free"

\* A loader that holds the mutex of its replica.
Holds(a) == refresh[a].stage \in {"refs", "revision"}

Mutex == \A a, b \in Loader : Holds(a) /\ Holds(b) /\ At(a) = At(b) => a = b

\* No replica is ahead of the database.
Behind ==
    \A p \in Replica, x \in Route : snapshot[p][x] # None =>
      db[x] # None /\ snapshot[p][x].ver <= db[x].ver

\* A reload is about to install what is at least as new as the snapshot.
HeadsAhead ==
    \A a \in Loader, x \in Route :
      refresh[a].stage = "refs" /\ refresh[a].heads[x] # None =>
        /\ db[x] # None /\ refresh[a].heads[x].ver <= db[x].ver
        /\ snapshot[At(a)][x] # None => snapshot[At(a)][x].ver <= refresh[a].heads[x].ver

\* What a call may find for its route: a later version than the one it expected,
\* or nothing because the policy was disabled.
Shows(e, w) ==
    IF e # None THEN e.ver > input[w].expected ELSE Disabled(input[w].route)

\* The calls whose reload has installed its snapshot.
Installed(w) ==
    \/ wpc[w] = "notify"
    \/ wpc[w] = "log" /\ outcome[w] = "none"
    \/ outcome[w] = "ok"
    \/ wpc[w] = "refresh" /\ refresh[w].stage = "revision"

\* A replica whose snapshot is not the empty one of a process that starts.
Serving(p) ==
    life[p] \in {"up", "loaded"} \/ (life[p] = "loading" /\ refresh[p].stage = "revision")

SnapshotSees ==
    \A w \in Writer :
      Installed(w) /\ Serving(Home[w]) => Shows(snapshot[Home[w]][input[w].route], w)

HeadsSee ==
    \A a \in Loader, w \in Writer :
      /\ refresh[a].stage = "refs" /\ At(a) = Home[w]
      /\ Installed(w) \/ w = a
      => Shows(refresh[a].heads[input[w].route], w)

DBInv == Calls /\ Stored /\ Based /\ Overtaken
CacheInv == Alive /\ Mutex /\ Behind /\ HeadsAhead /\ SnapshotSees /\ HeadsSee
IInv == TypeOK /\ DBInv /\ CacheInv
-------------------------------------------------------------------------------
(* What the operators of the model do. *)

LEMMA AtType == \A a \in Loader : At(a) \in Replica
  BY DEF Loader, At

LEMMA FreeType ==
    Free \in [stage : {"free", "wait", "refs", "revision"}, heads : [Route -> PolicyHead \cup {None}]]
  BY DEF Free

LEMMA HeadsType ==
    ASSUME TypeOK
    PROVE  LoadedHeads \in [Route -> PolicyHead \cup {None}]
  <1>1. ASSUME NEW x \in Route, Active(x)
        PROVE  [ver |-> db[x].ver, expr |-> db[x].expr] \in PolicyHead
    BY <1>1 DEF TypeOK, Active, Policy, PolicyHead
  <1>2. QED
    BY <1>1 DEF LoadedHeads

LEMMA JoinedType ==
    ASSUME TypeOK, NEW a \in Loader
    PROVE  Joined(a) \in [Route -> Entry \cup {None}]
  <1>1. ASSUME NEW x \in Route, refresh[a].heads[x] # None
        PROVE  [ver |-> refresh[a].heads[x].ver, expr |-> refresh[a].heads[x].expr,
                refs |-> IF Active(x) THEN db[x].refs ELSE NoRefs] \in Entry
    <2>1. refresh[a].heads[x] \in PolicyHead
      BY <1>1 DEF TypeOK
    <2>2. Active(x) => db[x].refs \in Refs
      BY DEF TypeOK, Active, Policy
    <2>3. QED
      BY <2>1, <2>2 DEF PolicyHead, Entry
  <1>2. QED
    BY <1>1 DEF Joined

LEMMA WrittenType ==
    ASSUME TypeOK, NEW w \in Writer, input[w] \in Inputs
    PROVE  /\ Written(w) \in Policy /\ Written(w) # None
           /\ Written(w).ver = IF db[input[w].route] = None THEN 1 ELSE db[input[w].route].ver + 1
           /\ Written(w).active = input[w].active /\ Written(w).at = stamp[w]
  <1>1. input[w] \in Input /\ input[w].route \in Route
    BY DEF Input
  <1>2. db[input[w].route] # None => db[input[w].route].ver \in Nat
    BY <1>1 DEF TypeOK, Policy
  <1>3. Written(w) \in Policy
    BY <1>1, <1>2 DEF Written, Policy, Input, TypeOK
  <1>4. QED
    BY <1>3 DEF Written

\* A policy that a call has asked to disable stays one.
LEMMA DisabledStays ==
    ASSUME \A w \in Writer : input'[w] = input[w] \/ input[w] = None,
           NEW x, Disabled(x)
    PROVE  Disabled(x)'
  BY DEF Disabled

WpcType == [Writer -> {"start", "begin", "insert", "commit", "refresh", "notify", "log", "done"}]
OutcomeType ==
    [Writer -> {"none", "ok", "invalid", "conflict", "missing", "internal", "unavailable"}]
RefreshType ==
    [Loader -> [stage : {"free", "wait", "refs", "revision"},
                heads : [Route -> PolicyHead \cup {None}]]]

LEMMA StageType ==
    ASSUME TypeOK, NEW a \in Loader, NEW stage \in {"wait", "revision"}
    PROVE  [refresh EXCEPT ![a].stage = stage] \in RefreshType
  <1>1. refresh[a].heads \in [Route -> PolicyHead \cup {None}]
    BY DEF TypeOK
  <1>2. [refresh[a] EXCEPT !.stage = stage]
          \in [stage : {"free", "wait", "refs", "revision"}, heads : [Route -> PolicyHead \cup {None}]]
    BY <1>1 DEF TypeOK
  <1>3. QED
    BY <1>2 DEF TypeOK, RefreshType

LEMMA GotoTypes ==
    ASSUME TypeOK, NEW w \in Writer
    PROVE  /\ Goto(w, "begin") \/ Goto(w, "insert") \/ Goto(w, "commit") =>
                wpc' \in WpcType /\ outcome' \in OutcomeType
           /\ \A result \in {"conflict", "missing", "internal", "unavailable"} :
                Return(w, result) => wpc' \in WpcType /\ outcome' \in OutcomeType
           /\ Write(w) => /\ db' = db /\ clock' \in Nat /\ stamp' \in [Writer -> Nat]
                          /\ wpc' \in WpcType /\ outcome' \in OutcomeType
  <1>1. \A label \in {"begin", "insert", "commit"} :
          Goto(w, label) => wpc' \in WpcType /\ outcome' \in OutcomeType
    BY DEF TypeOK, Goto, WpcType, OutcomeType
  <1>2. \A result \in {"conflict", "missing", "internal", "unavailable"} :
          Return(w, result) => wpc' \in WpcType /\ outcome' \in OutcomeType
    BY DEF TypeOK, Return, WpcType, OutcomeType
  <1>3. Write(w) => db' = db /\ clock' \in Nat /\ stamp' \in [Writer -> Nat] /\ Goto(w, "commit")
    BY DEF TypeOK, Write
  <1>4. QED
    BY <1>1, <1>2, <1>3

\* A reload ends and leaves the types.
LEMMA EndType ==
    ASSUME TypeOK, NEW a \in Loader, NEW ok \in BOOLEAN, RefreshEnd(a, ok)
    PROVE  /\ refresh' \in [Loader -> [stage : {"free", "wait", "refs", "revision"},
                                       heads : [Route -> PolicyHead \cup {None}]]]
           /\ wpc' \in [Writer -> {"start", "begin", "insert", "commit", "refresh", "notify", "log", "done"}]
           /\ outcome' \in [Writer -> {"none", "ok", "invalid", "conflict", "missing", "internal", "unavailable"}]
           /\ life' \in [Replica -> {"down", "loading", "loaded", "up"}]
  <1>1. refresh' = [refresh EXCEPT ![a] = Free]
    BY DEF RefreshEnd
  <1>2. refresh' \in [Loader -> [stage : {"free", "wait", "refs", "revision"},
                                 heads : [Route -> PolicyHead \cup {None}]]]
    BY <1>1, FreeType DEF TypeOK
  <1>3. CASE a \in Writer /\ UNCHANGED life /\ IF ok THEN Goto(a, "notify") ELSE Return(a, "unavailable")
    <2>1. CASE ok
      BY <1>2, <1>3, <2>1 DEF TypeOK, Goto
    <2>2. CASE ~ok
      BY <1>2, <1>3, <2>2 DEF TypeOK, Return
    <2>3. QED
      BY <2>1, <2>2
  <1>4. CASE a \in Replica /\ UNCHANGED <<wpc, outcome>>
             /\ life' = [life EXCEPT ![a] = IF @ # "loading" THEN @ ELSE IF ok THEN "loaded" ELSE "down"]
    BY <1>2, <1>4 DEF TypeOK
  <1>5. QED
    BY <1>3, <1>4 DEF RefreshEnd
-------------------------------------------------------------------------------
(* Types. *)

LEMMA SetTypes ==
    ASSUME TypeOK, Calls, NEW w \in Writer, SetValidate(w) \/ SetStep(w) \/ SetFault(w)
    PROVE  TypeOK'
  <1>1. CASE SetValidate(w)
    <2>1. PICK i \in Inputs :
            /\ input' = [input EXCEPT ![w] = i]
            /\ \/ Goto(w, "begin")
               \/ /\ wpc' = [wpc EXCEPT ![w] = "done"]
                  /\ outcome' = [outcome EXCEPT ![w] = "invalid"]
      BY <1>1 DEF SetValidate
    <2>2. input' \in [Writer -> Inputs \cup {None}]
      BY <2>1 DEF TypeOK
    <2>3. wpc' \in WpcType /\ outcome' \in OutcomeType
      BY <2>1, GotoTypes DEF TypeOK, WpcType, OutcomeType
    <2>4. QED
      BY <1>1, <2>2, <2>3 DEF TypeOK, SetValidate, WpcType, OutcomeType, dbVars, cacheVars
  <1>2. CASE SetMissing(w)
    BY <1>2 DEF TypeOK, SetMissing, Return, dbVars, cacheVars
  <1>3. CASE SetBegin(w)
    <2>1. /\ db' = db /\ clock' \in Nat /\ stamp' \in [Writer -> Nat]
          /\ wpc' \in WpcType /\ outcome' \in OutcomeType
      BY <1>3, GotoTypes DEF TypeOK, SetBegin, dbVars
    <2>2. QED
      BY <1>3, <2>1 DEF TypeOK, SetBegin, WpcType, OutcomeType, cacheVars
  <1>4. CASE SetInsert(w)
    <2>1. /\ db' = db /\ clock' \in Nat /\ stamp' \in [Writer -> Nat]
          /\ wpc' \in WpcType /\ outcome' \in OutcomeType
      BY <1>4, GotoTypes DEF TypeOK, SetInsert, dbVars
    <2>2. QED
      BY <1>4, <2>1 DEF TypeOK, SetInsert, WpcType, OutcomeType, cacheVars
  <1>5. CASE SetCommit(w)
    <2>1. input[w] \in Inputs
      BY <1>5 DEF Calls, SetCommit
    <2>2. Written(w) \in Policy
      BY <2>1, WrittenType
    <2>3. QED
      BY <1>5, <2>2 DEF TypeOK, SetCommit, Goto, cacheVars
  <1>6. CASE SetRefresh(w)
    BY <1>6, HeadsType DEF TypeOK, SetRefresh, RefreshBegin, dbVars, writerVars
  <1>7. CASE SetNotify(w)
    BY <1>7 DEF TypeOK, SetNotify, Goto, dbVars
  <1>8. CASE SetReturn(w)
    BY <1>8 DEF TypeOK, SetReturn, dbVars, cacheVars
  <1>9. CASE SetAbort(w)
    BY <1>9 DEF TypeOK, SetAbort, Fault, Return, dbVars, cacheVars
  <1>10. CASE SetCommitUnknown(w)
    <2>1. input[w] \in Inputs
      BY <1>10 DEF Calls, SetCommitUnknown
    <2>2. Written(w) \in Policy
      BY <2>1, WrittenType
    <2>3. QED
      <3>1. wpc' \in WpcType /\ outcome' \in OutcomeType
        BY <1>10, GotoTypes DEF SetCommitUnknown
      <3>2. db' \in [Route -> Policy \cup {None}]
        BY <1>10, <2>2 DEF SetCommitUnknown, TypeOK
      <3>3. faults' \in 0..MaxFaults
        BY <1>10 DEF SetCommitUnknown, TypeOK, Fault
      <3>4. QED
        BY <1>10, <3>1, <3>2, <3>3 DEF TypeOK, SetCommitUnknown, WpcType, OutcomeType, cacheVars
  <1>11. CASE SetNotifyLost(w)
    BY <1>11 DEF TypeOK, SetNotifyLost, Fault, Goto, dbVars
  <1>12. CASE SetReturnUnlogged(w)
    BY <1>12 DEF TypeOK, SetReturnUnlogged, Fault, dbVars, cacheVars
  <1>13. QED
    BY <1>1, <1>2, <1>3, <1>4, <1>5, <1>6, <1>7, <1>8, <1>9, <1>10, <1>11, <1>12 DEF SetStep, SetFault

LEMMA RefreshTypes ==
    ASSUME TypeOK, NEW a \in Loader, RefreshStep(a) \/ RefreshFail(a)
    PROVE  TypeOK'
  <1>0. At(a) \in Replica
    BY AtType
  <1>1. CASE RefreshInstall(a)
    <2>1. CASE AllCompile(Joined(a))
      <3>1. snapshot' \in [Replica -> [Route -> Entry \cup {None}]]
        <4>1. snapshot' = [snapshot EXCEPT ![At(a)] = Joined(a)]
          BY <1>1, <2>1 DEF RefreshInstall
        <4>2. Joined(a) \in [Route -> Entry \cup {None}]
          BY JoinedType
        <4>3. snapshot \in [Replica -> [Route -> Entry \cup {None}]]
          BY DEF TypeOK
        <4>4. QED
          BY <1>0, <4>1, <4>2, <4>3
      <3>2. refresh' \in RefreshType
        BY <1>1, <2>1, StageType DEF RefreshInstall
      <3>3. QED
        BY <1>1, <2>1, <3>1, <3>2 DEF TypeOK, RefreshInstall, RefreshType, dbVars
    <2>2. CASE ~AllCompile(Joined(a))
      BY <1>1, <2>2, EndType DEF TypeOK, RefreshInstall, dbVars
    <2>3. QED
      BY <2>1, <2>2
  <1>2. CASE RefreshRevision(a)
    <2>1. PICK t \in 0..clock : revision' = [revision EXCEPT ![At(a)] = t]
      BY <1>2 DEF RefreshRevision
    <2>2. revision' \in [Replica -> Nat]
      BY <1>0, <2>1 DEF TypeOK
    <2>3. QED
      BY <1>2, <2>2, EndType DEF TypeOK, RefreshRevision, dbVars
  <1>3. CASE RefreshFail(a)
    <2>1. RefreshEnd(a, FALSE)
      BY <1>3 DEF RefreshFail
    <2>2. faults' \in 0..MaxFaults
      BY <1>3 DEF TypeOK, RefreshFail, Fault
    <2>3. QED
      BY <1>3, <2>1, <2>2, EndType DEF TypeOK, RefreshFail, dbVars
  <1>4. QED
    BY <1>1, <1>2, <1>3 DEF RefreshStep

LEMMA RunTypes ==
    ASSUME TypeOK, NEW p \in Replica,
           RunMessage(p) \/ RunPoll(p) \/ RunReload(p) \/ Crash(p) \/ Start(p)
    PROVE  TypeOK'
  <1>0. p \in Loader
    BY DEF Loader
  <1>1. CASE RunMessage(p)
    BY <1>0, <1>1, StageType DEF TypeOK, RunMessage, Ask, RefreshType, dbVars, writerVars
  <1>2. CASE RunPoll(p)
    BY <1>0, <1>2, StageType DEF TypeOK, RunPoll, Ask, RefreshType, dbVars, writerVars
  <1>3. CASE RunReload(p)
    BY <1>0, <1>3, HeadsType DEF TypeOK, RunReload, RefreshBegin, dbVars, writerVars
  <1>4. CASE Crash(p)
    BY <1>4, FreeType DEF TypeOK, Crash, Fault, dbVars
  <1>5. CASE Start(p)
    <2>1. refresh' \in RefreshType
      <3>1. LoadedHeads \in [Route -> PolicyHead \cup {None}]
        BY HeadsType
      <3>2. \/ UNCHANGED refresh
            \/ refresh' = [refresh EXCEPT ![p] = [stage |-> "refs", heads |-> LoadedHeads]]
        BY <1>5 DEF Start, RefreshBegin
      <3>3. QED
        BY <1>0, <3>1, <3>2 DEF TypeOK, RefreshType
    <2>2. life' \in [Replica -> {"down", "loading", "loaded", "up"}]
      BY <1>5 DEF TypeOK, Start
    <2>3. QED
      BY <1>5, <2>1, <2>2 DEF TypeOK, Start, RefreshType, dbVars, writerVars
  <1>6. QED
    BY <1>1, <1>2, <1>3, <1>4, <1>5
-------------------------------------------------------------------------------
(* The writes of a route. *)

InputFacts(w) == input[w] \in Inputs /\ input[w] # None /\ input[w].route \in Route /\ input[w].expected \in Nat

LEMMA InputIs ==
    ASSUME TypeOK, Calls, NEW w \in Writer, wpc[w] # "start"
    PROVE  InputFacts(w)
  BY DEF Calls, Input, InputFacts

\* Steps that leave the database and the open transactions alone: calls only
\* move on behind their commit, or end.
LEMMA DBQuiet ==
    ASSUME DBInv, UNCHANGED <<db, input, stamp>>,
           \A w \in Writer :
             \/ wpc'[w] = wpc[w] /\ outcome'[w] = outcome[w]
             \/ /\ wpc[w] # "start" /\ wpc'[w] \in {"refresh", "notify", "log", "done"}
                /\ Wrote(w)' => Wrote(w)
                /\ wpc'[w] \notin {"log", "done"} => outcome'[w] = "none"
    PROVE  DBInv'
  <1>1. \A w \in Writer : Wrote(w)' => Wrote(w)
    BY DEF Wrote
  <1>2. Calls'
    BY DEF DBInv, Calls
  <1>3. \A x : Disabled(x)' <=> Disabled(x)
    BY DEF Disabled
  <1>4. Stored'
    BY <1>3 DEF DBInv, Stored
  <1>5. Based'
    BY DEF DBInv, Based
  <1>6. Overtaken'
    BY <1>1 DEF DBInv, Overtaken
  <1>7. QED
    BY <1>2, <1>4, <1>5, <1>6 DEF DBInv

LEMMA ValidateDB ==
    ASSUME TypeOK, DBInv, NEW w \in Writer, SetValidate(w)
    PROVE  DBInv'
  <1>1. PICK i \in Inputs :
          /\ input' = [input EXCEPT ![w] = i]
          /\ \/ Goto(w, "begin")
             \/ /\ wpc' = [wpc EXCEPT ![w] = "done"]
                /\ outcome' = [outcome EXCEPT ![w] = "invalid"]
    BY DEF SetValidate
  <1>2. wpc[w] = "start" /\ input[w] = None /\ outcome[w] = "none" /\ UNCHANGED <<db, stamp>>
    BY DEF SetValidate, DBInv, Calls, dbVars
  <1>3. /\ \A v \in Writer : input'[v] = IF v = w THEN i ELSE input[v]
        /\ \A v \in Writer \ {w} : wpc'[v] = wpc[v] /\ outcome'[v] = outcome[v]
        /\ \/ wpc'[w] = "begin" /\ outcome'[w] = "none"
           \/ wpc'[w] = "done" /\ outcome'[w] = "invalid"
    BY <1>1, <1>2 DEF TypeOK, Goto
  <1>4. Calls'
    BY <1>3 DEF DBInv, Calls
  <1>5. \A x : Disabled(x) => Disabled(x)'
    BY <1>2, <1>3, DisabledStays
  <1>6. Stored'
    BY <1>2, <1>5 DEF DBInv, Stored
  <1>7. Based'
    BY <1>2, <1>3 DEF DBInv, Based
  <1>8. ~ Wrote(w)' /\ \A v \in Writer \ {w} : Wrote(v)' <=> Wrote(v)
    BY <1>3 DEF Wrote
  <1>9. Overtaken'
    BY <1>2, <1>3, <1>8 DEF DBInv, Overtaken
  <1>10. QED
    BY <1>4, <1>6, <1>7, <1>9 DEF DBInv

\* An error before the reload.
LEMMA ReturnDB ==
    ASSUME TypeOK, DBInv, NEW w \in Writer, wpc[w] # "start",
           NEW result \in {"missing", "conflict", "internal", "unavailable"}, Return(w, result),
           UNCHANGED <<db, input, stamp>>
    PROVE  DBInv'
  <1>1. \A v \in Writer : /\ wpc'[v] = IF v = w THEN "log" ELSE wpc[v]
                          /\ outcome'[v] = IF v = w THEN result ELSE outcome[v]
    BY DEF TypeOK, Return
  <1>2. ~ Wrote(w)'
    BY <1>1 DEF Wrote
  <1>3. QED
    BY <1>1, <1>2, DBQuiet

\* The insert follows.
LEMMA InsertNextDB ==
    ASSUME TypeOK, DBInv, NEW w \in Writer, wpc[w] = "begin", input[w].expected = 0,
           Goto(w, "insert"), UNCHANGED <<db, input, stamp>>
    PROVE  DBInv'
  <1>1. \A v \in Writer : /\ wpc'[v] = IF v = w THEN "insert" ELSE wpc[v]
                          /\ outcome'[v] = outcome[v]
    BY DEF TypeOK, Goto
  <1>2. \A v \in Writer : Wrote(v)' <=> Wrote(v)
    BY <1>1 DEF Wrote
  <1>3. Calls' /\ Based'
    BY <1>1 DEF DBInv, Calls, Based
  <1>4. Stored'
    BY DEF DBInv, Stored, Disabled
  <1>5. Overtaken'
    BY <1>1, <1>2 DEF DBInv, Overtaken
  <1>6. QED
    BY <1>3, <1>4, <1>5 DEF DBInv

\* The row is written under its lock, on top of the expected version.
LEMMA WriteDB ==
    ASSUME TypeOK, DBInv, NEW w \in Writer, wpc[w] \in {"begin", "insert"}, Write(w),
           ~ Locked(input[w].route), UNCHANGED input,
           IF db[input[w].route] = None THEN input[w].expected = 0
           ELSE input[w].expected = db[input[w].route].ver
    PROVE  DBInv'
  <1>1. \A v \in Writer : /\ wpc'[v] = IF v = w THEN "commit" ELSE wpc[v]
                          /\ outcome'[v] = outcome[v]
                          /\ stamp'[v] = IF v = w THEN clock + 1 ELSE stamp[v]
    BY DEF TypeOK, Write, Goto
  <1>2. clock + 1 > 0 /\ UNCHANGED db
    BY DEF TypeOK, Write
  <1>3. \A v \in Writer : Wrote(v)' <=> Wrote(v)
    BY <1>1 DEF Wrote
  <1>4. Calls'
    BY <1>1 DEF DBInv, Calls
  <1>5. Based'
    BY <1>1, <1>2 DEF DBInv, Based, Locked
  <1>6. Stored'
    BY <1>2 DEF DBInv, Stored, Disabled
  <1>7. Overtaken'
    BY <1>1, <1>2, <1>3 DEF DBInv, Overtaken
  <1>8. QED
    BY <1>4, <1>5, <1>6, <1>7 DEF DBInv

\* The commit: nobody else has taken the version that was expected.
LEMMA CommitDB ==
    ASSUME TypeOK, DBInv, NEW w \in Writer, wpc[w] = "commit",
           db' = [db EXCEPT ![input[w].route] = Written(w)],
           Goto(w, "refresh") \/ Return(w, "internal"),
           UNCHANGED <<input, stamp>>
    PROVE  DBInv'
  <1> DEFINE x == input[w].route
             e == input[w].expected
  <1>1. InputFacts(w) /\ \A v \in Writer : wpc[v] # "start" => InputFacts(v)
    BY InputIs DEF DBInv
  <1>2. /\ \A v \in Writer \ {w} : wpc'[v] = wpc[v] /\ outcome'[v] = outcome[v]
        /\ \/ wpc'[w] = "refresh" /\ outcome'[w] = "none"
           \/ wpc'[w] = "log" /\ outcome'[w] = "internal"
    BY DEF TypeOK, Goto, Return, DBInv, Calls
  <1>3. /\ stamp[w] > 0
        /\ IF db[x] = None THEN e = 0 ELSE e = db[x].ver
        /\ \A v \in Writer : wpc[v] = "commit" /\ input[v].route = x => v = w
    BY DEF DBInv, Based
  <1>4. \A y \in Route : db'[y] = IF y = x THEN Written(w) ELSE db[y]
    BY <1>1 DEF TypeOK, InputFacts
  <1>5. /\ Written(w) # None /\ Written(w).active = input[w].active
        /\ Written(w).at > 0 /\ Written(w).ver = e + 1 /\ e \in Nat
    BY <1>1, <1>3, WrittenType DEF InputFacts
  <1>6. Calls'
    BY <1>1, <1>2 DEF DBInv, Calls, InputFacts
  <1>7. ~ input[w].active => Disabled(x)
    BY <1>1 DEF Disabled, InputFacts
  <1>8. \A y : Disabled(y)' <=> Disabled(y)
    BY DEF Disabled
  <1>9. Stored'
    <2> SUFFICES ASSUME NEW y \in Route, db'[y] # None
                 PROVE  db'[y].ver > 0 /\ (db'[y].at > 0 /\ ~db'[y].active => Disabled(y))
      BY <1>8 DEF Stored
    <2>1. CASE y = x
      BY <1>4, <1>5, <1>7, <2>1
    <2>2. CASE y # x
      BY <1>4, <2>2 DEF DBInv, Stored
    <2>3. QED
      BY <2>1, <2>2
  <1>10. Based'
    <2> SUFFICES ASSUME NEW v \in Writer
                 PROVE  /\ wpc'[v] = "insert" => input[v].expected = 0
                        /\ wpc'[v] = "commit" =>
                             /\ stamp[v] > 0
                             /\ IF db'[input[v].route] = None THEN input[v].expected = 0
                                ELSE input[v].expected = db'[input[v].route].ver
                             /\ \A u \in Writer :
                                  wpc'[u] = "commit" /\ input[u].route = input[v].route => u = v
      BY DEF Based
    <2>1. wpc'[v] \in {"insert", "commit"} => v # w /\ wpc'[v] = wpc[v]
      BY <1>2
    <2>2. wpc'[v] = "commit" => input[v].route # x /\ input[v].route \in Route
      BY <1>1, <1>3, <2>1 DEF InputFacts
    <2>3. QED
      BY <1>2, <1>4, <2>1, <2>2 DEF DBInv, Based
  <1>11. \A v \in Writer : v # w => (Wrote(v)' <=> Wrote(v))
    BY <1>2 DEF Wrote
  <1>12. \A v \in Writer : Wrote(v) /\ input[v].route = x => input[v].expected < e
    <2> SUFFICES ASSUME NEW v \in Writer, Wrote(v), input[v].route = x PROVE input[v].expected < e
      OBVIOUS
    <2>1. db[x] # None /\ db[x].ver > input[v].expected
      BY DEF DBInv, Overtaken
    <2>2. QED
      BY <1>3, <2>1
  <1>13. Overtaken'
    <2> SUFFICES ASSUME NEW v \in Writer, Wrote(v)'
                 PROVE  /\ wpc'[v] # "start"
                        /\ LET y == input[v].route
                           IN db'[y] # None /\ db'[y].at > 0 /\ db'[y].ver > input[v].expected
                        /\ \A u \in Writer :
                             /\ Wrote(u)'
                             /\ input[u].route = input[v].route /\ input[u].expected = input[v].expected
                             => u = v
      BY DEF Overtaken
    <2>1. wpc'[v] # "start" /\ InputFacts(v)
      BY <1>1, <1>2, <1>11 DEF DBInv, Overtaken
    <2>2. db'[input[v].route] # None /\ db'[input[v].route].at > 0
          /\ db'[input[v].route].ver > input[v].expected
      <3>1. CASE v = w
        BY <1>1, <1>4, <1>5, <3>1 DEF InputFacts
      <3>2. CASE v # w /\ input[v].route = x
        <4>1. input[v].expected < e /\ input[v].expected \in Nat
          BY <1>11, <1>12, <2>1, <3>2 DEF InputFacts
        <4>2. QED
          BY <1>1, <1>4, <1>5, <3>2, <4>1 DEF InputFacts
      <3>3. CASE v # w /\ input[v].route # x
        BY <1>4, <1>11, <2>1, <3>3 DEF DBInv, Overtaken, InputFacts
      <3>4. QED
        BY <3>1, <3>2, <3>3
    <2>3. ASSUME NEW u \in Writer, Wrote(u)', input[u].route = input[v].route,
                 input[u].expected = input[v].expected
          PROVE  u = v
      <3>1. CASE u # w /\ v # w
        BY <1>11, <2>3, <3>1 DEF DBInv, Overtaken
      <3>2. CASE u = w \/ v = w
        BY <1>5, <1>11, <1>12, <2>3, <3>2
      <3>3. QED
        BY <3>1, <3>2
    <2>4. QED
      BY <2>1, <2>2, <2>3
  <1>14. QED
    BY <1>6, <1>9, <1>10, <1>13 DEF DBInv

LEMMA SetDB ==
    ASSUME TypeOK, DBInv, NEW w \in Writer, SetValidate(w) \/ SetStep(w) \/ SetFault(w)
    PROVE  DBInv'
  <1>1. CASE SetValidate(w)
    BY <1>1, ValidateDB
  <1>2. CASE SetMissing(w)
    BY <1>2, ReturnDB DEF SetMissing, dbVars
  <1>3. CASE SetBegin(w)
    <2>1. CASE Write(w) /\ ~Locked(input[w].route) /\ db[input[w].route] # None
               /\ db[input[w].route].ver = input[w].expected
      BY <1>3, <2>1, WriteDB DEF SetBegin
    <2>2. CASE Return(w, "conflict") /\ UNCHANGED <<dbVars, stamp>>
      BY <1>3, <2>2, ReturnDB DEF SetBegin, dbVars
    <2>3. CASE input[w].expected = 0 /\ Goto(w, "insert") /\ UNCHANGED <<dbVars, stamp>>
      BY <1>3, <2>3, InsertNextDB DEF SetBegin, dbVars
    <2>4. QED
      BY <1>3, <2>1, <2>2, <2>3 DEF SetBegin
  <1>4. CASE SetInsert(w)
    <2>1. CASE Write(w) /\ ~Locked(input[w].route) /\ db[input[w].route] = None
      <3>1. input[w].expected = 0
        BY <1>4 DEF SetInsert, DBInv, Based
      <3>2. QED
        BY <1>4, <2>1, <3>1, WriteDB DEF SetInsert
    <2>2. CASE Return(w, "internal") /\ UNCHANGED <<dbVars, stamp>>
      BY <1>4, <2>2, ReturnDB DEF SetInsert, dbVars
    <2>3. QED
      BY <1>4, <2>1, <2>2 DEF SetInsert
  <1>5. CASE SetCommit(w)
    BY <1>5, CommitDB DEF SetCommit
  <1>6. CASE SetRefresh(w)
    BY <1>6, DBQuiet DEF SetRefresh, dbVars, writerVars
  <1>7. CASE SetNotify(w) \/ SetNotifyLost(w)
    <2>1. \A v \in Writer : /\ wpc'[v] = IF v = w THEN "log" ELSE wpc[v]
                            /\ outcome'[v] = outcome[v]
      BY <1>7 DEF TypeOK, SetNotify, SetNotifyLost, Goto
    <2>2. wpc[w] = "notify" /\ Wrote(w) /\ UNCHANGED <<db, input, stamp>>
      BY <1>7 DEF SetNotify, SetNotifyLost, Wrote, dbVars
    <2>3. QED
      BY <2>1, <2>2, DBQuiet
  <1>8. CASE SetReturn(w) \/ SetReturnUnlogged(w)
    <2>1. /\ \A v \in Writer : wpc'[v] = IF v = w THEN "done" ELSE wpc[v]
          /\ \A v \in Writer \ {w} : outcome'[v] = outcome[v]
          /\ outcome[w] # "none" => outcome'[w] = outcome[w]
      BY <1>8 DEF TypeOK, SetReturn, SetReturnUnlogged
    <2>2. wpc[w] = "log" /\ UNCHANGED <<db, input, stamp>>
      BY <1>8 DEF SetReturn, SetReturnUnlogged, dbVars
    <2>3. Wrote(w)' => Wrote(w)
      BY <2>1, <2>2 DEF Wrote
    <2>4. QED
      BY <2>1, <2>2, <2>3, DBQuiet
  <1>9. CASE SetAbort(w)
    BY <1>9, ReturnDB DEF SetAbort, dbVars
  <1>10. CASE SetCommitUnknown(w)
    BY <1>10, CommitDB DEF SetCommitUnknown
  <1>11. QED
    BY <1>1, <1>2, <1>3, <1>4, <1>5, <1>6, <1>7, <1>8, <1>9, <1>10 DEF SetStep, SetFault

LEMMA EndDB ==
    ASSUME TypeOK, DBInv, Alive, NEW a \in Loader, Holds(a), NEW ok \in BOOLEAN, RefreshEnd(a, ok),
           UNCHANGED <<db, input, stamp>>
    PROVE  DBInv'
  <1>1. CASE a \in Writer /\ ok /\ Goto(a, "notify")
    <2>1. wpc[a] = "refresh"
      BY <1>1 DEF Alive, Holds
    <2>2. \A v \in Writer : /\ wpc'[v] = IF v = a THEN "notify" ELSE wpc[v]
                            /\ outcome'[v] = outcome[v]
      BY <1>1 DEF TypeOK, Goto
    <2>3. Wrote(a) /\ outcome[a] = "none"
      BY <1>1, <2>1 DEF Wrote, DBInv, Calls
    <2>4. QED
      BY <2>1, <2>2, <2>3, DBQuiet
  <1>2. CASE a \in Writer /\ ~ok /\ Return(a, "unavailable")
    <2>1. wpc[a] = "refresh"
      BY <1>2 DEF Alive, Holds
    <2>2. QED
      BY <1>2, <2>1, ReturnDB
  <1>3. CASE UNCHANGED <<wpc, outcome>>
    BY <1>3, DBQuiet
  <1>4. QED
    BY <1>1, <1>2, <1>3 DEF RefreshEnd

LEMMA RefreshDB ==
    ASSUME TypeOK, DBInv, Alive, NEW a \in Loader, RefreshStep(a) \/ RefreshFail(a)
    PROVE  DBInv'
  <1>1. Holds(a) /\ UNCHANGED <<db, input, stamp>>
    BY DEF RefreshStep, RefreshInstall, RefreshRevision, RefreshFail, Holds, dbVars
  <1>2. \/ UNCHANGED <<wpc, outcome>>
        \/ RefreshEnd(a, TRUE) \/ RefreshEnd(a, FALSE)
    BY DEF RefreshStep, RefreshInstall, RefreshRevision, RefreshFail
  <1>3. CASE UNCHANGED <<wpc, outcome>>
    BY <1>1, <1>3, DBQuiet
  <1>4. CASE RefreshEnd(a, TRUE)
    BY <1>1, <1>4, EndDB
  <1>5. CASE RefreshEnd(a, FALSE)
    BY <1>1, <1>5, EndDB
  <1>6. QED
    BY <1>2, <1>3, <1>4, <1>5

LEMMA RunDB ==
    ASSUME TypeOK, DBInv, NEW p \in Replica,
           RunMessage(p) \/ RunPoll(p) \/ RunReload(p) \/ Crash(p) \/ Start(p)
    PROVE  DBInv'
  <1>1. CASE Crash(p)
    <2>1. \A w \in Writer : /\ wpc'[w] = IF Home[w] = p /\ wpc[w] # "start" THEN "done" ELSE wpc[w]
                            /\ outcome'[w] = outcome[w]
      BY <1>1 DEF Crash
    <2>2. \A w \in Writer : Wrote(w)' => Wrote(w)
      BY <2>1 DEF Wrote
    <2>3. QED
      BY <1>1, <2>1, <2>2, DBQuiet DEF Crash, dbVars
  <1>2. CASE RunMessage(p) \/ RunPoll(p) \/ RunReload(p) \/ Start(p)
    <2>1. UNCHANGED <<db, wpc, input, stamp, outcome>>
      BY <1>2 DEF RunMessage, RunPoll, RunReload, Start, dbVars, writerVars
    <2>2. QED
      BY <2>1, DBQuiet
  <1>3. QED
    BY <1>1, <1>2
-------------------------------------------------------------------------------
(* The reloads of a replica. *)

\* What shows the effect of a call goes on showing it.
LEMMA ShowsStays ==
    ASSUME \A v \in Writer : input'[v] = input[v] \/ input[v] = None,
           NEW w \in Writer, input'[w] = input[w], NEW e, Shows(e, w)
    PROVE  Shows(e, w)'
  <1>1. PICK x : x = input[w].route
    OBVIOUS
  <1>2. Disabled(x) => Disabled(x)'
    BY DisabledStays
  <1>3. x = input'[w].route
    BY <1>1
  <1>4. Disabled(input[w].route) => Disabled(input[w].route)'
    BY <1>1, <1>2, <1>3 DEF Disabled
  <1>5. QED
    BY <1>4 DEF Shows

\* Steps of Set that neither begin nor end a reload.
LEMMA CacheQuiet ==
    ASSUME IInv, TypeOK', UNCHANGED <<refresh, life, snapshot>>,
           \A x \in Route : db'[x] = db[x] \/ (db'[x] # None /\ (db[x] # None => db[x].ver <= db'[x].ver)),
           \A w \in Writer :
             /\ input'[w] = input[w] \/ input[w] = None
             /\ Installed(w)' => Installed(w)
             /\ Installed(w) \/ refresh[w].stage # "free" => input'[w] = input[w]
             /\ wpc'[w] \notin {"start", "done"} => life[Home[w]] = "up"
             /\ refresh[w].stage # "free" => wpc'[w] = wpc[w]
    PROVE  CacheInv'
  <1>1. Alive'
    BY DEF IInv, CacheInv, Alive
  <1>2. Mutex'
    BY DEF IInv, CacheInv, Mutex, Holds
  <1>3. \A x \in Route : /\ db[x] # None => db[x].ver \in Nat
                         /\ db'[x] # None => db'[x].ver \in Nat
    BY DEF IInv, TypeOK, Policy
  <1>4. \A p \in Replica, x \in Route : snapshot[p][x] # None => snapshot[p][x].ver \in Nat
    BY DEF IInv, TypeOK, Entry
  <1>5. Behind'
    BY <1>3, <1>4 DEF IInv, CacheInv, Behind
  <1>6. \A a \in Loader, x \in Route : refresh[a].heads[x] # None => refresh[a].heads[x].ver \in Nat
    BY DEF IInv, TypeOK, PolicyHead
  <1>7. HeadsAhead'
    <2> SUFFICES ASSUME NEW a \in Loader, NEW x \in Route,
                        refresh[a].stage = "refs", refresh[a].heads[x] # None
                 PROVE  /\ db'[x] # None /\ refresh[a].heads[x].ver <= db'[x].ver
                        /\ snapshot[At(a)][x] # None => snapshot[At(a)][x].ver <= refresh[a].heads[x].ver
      BY DEF HeadsAhead
    <2>1. /\ db[x] # None /\ refresh[a].heads[x].ver <= db[x].ver
          /\ snapshot[At(a)][x] # None => snapshot[At(a)][x].ver <= refresh[a].heads[x].ver
      BY DEF IInv, CacheInv, HeadsAhead
    <2>2. QED
      BY <1>3, <1>6, <2>1
  <1>8. \A p \in Replica : Serving(p)' <=> Serving(p)
    BY DEF Serving
  <1>9. SnapshotSees'
    <2> SUFFICES ASSUME NEW w \in Writer, Installed(w)', Serving(Home[w])'
                 PROVE  Shows(snapshot[Home[w]][input[w].route], w)'
      BY DEF SnapshotSees
    <2>1. Shows(snapshot[Home[w]][input[w].route], w) /\ input'[w] = input[w]
      BY <1>8 DEF IInv, CacheInv, SnapshotSees
    <2>2. PICK e : e = snapshot[Home[w]][input[w].route]
      OBVIOUS
    <2>3. Shows(e, w)'
      BY <2>1, <2>2, ShowsStays
    <2>4. (snapshot[Home[w]][input[w].route])' = e
      BY <2>1, <2>2
    <2>5. QED
      BY <2>3, <2>4 DEF Shows
  <1>10. HeadsSee'
    <2> SUFFICES ASSUME NEW a \in Loader, NEW w \in Writer, refresh[a].stage = "refs",
                        At(a) = Home[w], Installed(w)' \/ w = a
                 PROVE  Shows(refresh[a].heads[input[w].route], w)'
      BY DEF HeadsSee, At
    <2>1. Shows(refresh[a].heads[input[w].route], w) /\ input'[w] = input[w]
      BY DEF IInv, CacheInv, HeadsSee
    <2>2. PICK e : e = refresh[a].heads[input[w].route]
      OBVIOUS
    <2>3. Shows(e, w)'
      BY <2>1, <2>2, ShowsStays
    <2>4. (refresh[a].heads[input[w].route])' = e
      BY <2>1, <2>2
    <2>5. QED
      BY <2>3, <2>4 DEF Shows
  <1>11. QED
    BY <1>1, <1>2, <1>5, <1>7, <1>9, <1>10 DEF CacheInv

\* A reload reads the policies: what it reads is the database, which no snapshot
\* is ahead of and which holds the writes of the calls that have committed.
LEMMA BeginCache ==
    ASSUME IInv, NEW a \in Loader, RefreshBegin(a), UNCHANGED <<db, writerVars, snapshot>>,
           a \in Writer => wpc[a] = "refresh" /\ UNCHANGED life,
           a \in Replica => \/ UNCHANGED life /\ life[a] # "down" /\ life[a] # "loaded"
                            \/ life[a] = "down" /\ life' = [life EXCEPT ![a] = "loading"]
    PROVE  CacheInv'
  <1>0. UNCHANGED <<wpc, input, stamp, outcome>>
    BY DEF writerVars
  <1>1. \A b \in Loader : refresh'[b] = IF b = a THEN [stage |-> "refs", heads |-> LoadedHeads] ELSE refresh[b]
    BY DEF RefreshBegin, IInv, TypeOK
  <1>2. \A b \in Loader : At(b) = At(a) => refresh[b].stage \in {"free", "wait"}
    BY DEF RefreshBegin
  <1>3. /\ \A p \in Replica : life'[p] = life[p] \/ (p = a /\ life[p] = "down" /\ life'[p] = "loading")
        /\ Writer \subseteq Loader /\ Replica \subseteq Loader
        /\ \A w \in Writer : w \notin Replica
    BY DEF IInv, TypeOK, Loader
  <1>4. Alive'
    <2>1. ASSUME NEW w \in Writer
          PROVE  /\ wpc'[w] \notin {"start", "done"} => life'[Home[w]] = "up"
                 /\ refresh'[w].stage # "free" => wpc'[w] = "refresh" /\ refresh'[w].stage # "wait"
      <3>1. life[Home[w]] = "up" => life'[Home[w]] = "up"
        BY <1>3
      <3>2. QED
        BY <1>0, <1>1, <1>3, <3>1 DEF IInv, CacheInv, Alive
    <2>2. ASSUME NEW p \in Replica, life'[p] \in {"down", "loaded"}
          PROVE  refresh'[p].stage = "free"
      <3>1. p # a
        BY <2>2 DEF IInv, TypeOK
      <3>2. life'[p] = life[p] /\ refresh'[p] = refresh[p]
        BY <1>1, <1>3, <3>1
      <3>3. QED
        BY <2>2, <3>2 DEF IInv, CacheInv, Alive
    <2>3. QED
      BY <2>1, <2>2 DEF Alive
  <1>5. \A b \in Loader : b # a => Holds(b)' = Holds(b)
    BY <1>1 DEF Holds
  <1>6. \A b \in Loader : At(b) = At(a) => ~ Holds(b)
    BY <1>2 DEF Holds
  <1>7. Mutex'
    BY <1>5, <1>6 DEF IInv, CacheInv, Mutex, At
  <1>8. Behind'
    BY DEF IInv, CacheInv, Behind
  <1>9. At(a) \in Replica
    BY AtType
  <1>10. \A x \in Route : LoadedHeads[x] # None => db[x] # None /\ LoadedHeads[x].ver = db[x].ver
    BY DEF LoadedHeads, Active
  <1>11. \A x \in Route : db[x] # None => db[x].ver \in Nat
    BY DEF IInv, TypeOK, Policy
  <1>12. HeadsAhead'
    <2> SUFFICES ASSUME NEW b \in Loader, NEW x \in Route,
                        refresh'[b].stage = "refs", refresh'[b].heads[x] # None
                 PROVE  /\ db[x] # None /\ refresh'[b].heads[x].ver <= db[x].ver
                        /\ snapshot[At(b)][x] # None => snapshot[At(b)][x].ver <= refresh'[b].heads[x].ver
      BY DEF HeadsAhead, At
    <2>1. CASE b = a
      BY <1>1, <1>9, <1>10, <1>11, <2>1 DEF IInv, CacheInv, Behind
    <2>2. CASE b # a
      BY <1>1, <2>2 DEF IInv, CacheInv, HeadsAhead
    <2>3. QED
      BY <2>1, <2>2
  <1>13. \A w \in Writer : Installed(w)' => Installed(w)
    BY <1>0, <1>1, <1>3 DEF Installed
  <1>14. \A p \in Replica : Serving(p)' => Serving(p)
    <2> SUFFICES ASSUME NEW p \in Replica, Serving(p)' PROVE Serving(p)
      OBVIOUS
    <2>1. CASE p = a
      BY <1>1, <1>3, <2>1 DEF Serving
    <2>2. CASE p # a
      BY <1>1, <1>3, <2>2 DEF Serving
    <2>3. QED
      BY <2>1, <2>2
  <1>15. \A x : Disabled(x)' <=> Disabled(x)
    BY <1>0 DEF Disabled
  <1>16. SnapshotSees'
    BY <1>0, <1>13, <1>14, <1>15 DEF IInv, CacheInv, SnapshotSees, Shows
  <1>17. ASSUME NEW w \in Writer, Installed(w) \/ w = a
         PROVE  Shows(LoadedHeads[input[w].route], w)
    <2>1. Wrote(w)
      BY <1>17 DEF Installed, Wrote
    <2>2. wpc[w] # "start"
      BY <2>1 DEF IInv, DBInv, Overtaken
    <2>3. input[w].route \in Route
      BY <2>2, InputIs DEF IInv, DBInv, InputFacts
    <2>4. LET x == input[w].route IN db[x] # None /\ db[x].at > 0 /\ db[x].ver > input[w].expected
      BY <2>1 DEF IInv, DBInv, Overtaken
    <2>5. CASE db[input[w].route].active
      <3>1. LoadedHeads[input[w].route].ver = db[input[w].route].ver /\ LoadedHeads[input[w].route] # None
        <4>1. LoadedHeads[input[w].route]
                = [ver |-> db[input[w].route].ver, expr |-> db[input[w].route].expr]
          BY <2>3, <2>4, <2>5 DEF LoadedHeads, Active
        <4>2. LoadedHeads[input[w].route] \in PolicyHead
          BY <2>3, <2>4, <4>1 DEF IInv, TypeOK, Policy, PolicyHead
        <4>3. QED
          BY <4>1, <4>2
      <3>2. QED
        BY <2>4, <3>1 DEF Shows
    <2>6. CASE ~ db[input[w].route].active
      <3>1. LoadedHeads[input[w].route] = None
        BY <2>3, <2>6 DEF LoadedHeads, Active
      <3>2. Disabled(input[w].route)
        BY <2>3, <2>4, <2>6 DEF IInv, DBInv, Stored
      <3>3. QED
        BY <3>1, <3>2 DEF Shows
    <2>7. QED
      BY <2>5, <2>6
  <1>18. HeadsSee'
    <2> SUFFICES ASSUME NEW b \in Loader, NEW w \in Writer, refresh'[b].stage = "refs",
                        At(b) = Home[w], Installed(w) \/ w = b
                 PROVE  Shows(refresh'[b].heads[input[w].route], w)
      BY <1>0, <1>13, <1>15 DEF HeadsSee, At, Shows
    <2>1. CASE b = a
      BY <1>1, <1>17, <2>1
    <2>2. CASE b # a
      BY <1>1, <2>2 DEF IInv, CacheInv, HeadsSee
    <2>3. QED
      BY <2>1, <2>2
  <1>19. QED
    BY <1>4, <1>7, <1>8, <1>12, <1>16, <1>18 DEF CacheInv

\* What a reload installs: the policies its first statement has read.
LEMMA JoinedIs ==
    ASSUME IInv, NEW a \in Loader, NEW x \in Route
    PROVE  /\ refresh[a].heads[x] = None <=> Joined(a)[x] = None
           /\ Joined(a)[x] # None => Joined(a)[x].ver = refresh[a].heads[x].ver
  <1>1. Joined(a)[x] \in Entry \cup {None}
    BY JoinedType DEF IInv
  <1>2. CASE refresh[a].heads[x] = None
    BY <1>2 DEF Joined
  <1>3. CASE refresh[a].heads[x] # None
    <2>1. Joined(a)[x] = [ver |-> refresh[a].heads[x].ver, expr |-> refresh[a].heads[x].expr,
                          refs |-> IF Active(x) THEN db[x].refs ELSE NoRefs]
      BY <1>3 DEF Joined
    <2>2. refresh[a].heads[x] \in PolicyHead
      BY <1>3 DEF IInv, TypeOK
    <2>3. Active(x) => db[x].refs \in Refs
      BY DEF IInv, TypeOK, Active, Policy
    <2>4. Joined(a)[x] \in Entry
      BY <2>1, <2>2, <2>3 DEF Entry, PolicyHead
    <2>5. QED
      BY <1>3, <2>1, <2>4
  <1>4. QED
    BY <1>2, <1>3

LEMMA InstallCache ==
    ASSUME IInv, NEW a \in Loader, refresh[a].stage = "refs",
           snapshot' = [snapshot EXCEPT ![At(a)] = Joined(a)],
           refresh' = [refresh EXCEPT ![a].stage = "revision"],
           UNCHANGED <<db, wpc, input, outcome, life>>
    PROVE  CacheInv'
  <1>1. \A b \in Loader : /\ refresh'[b].stage = IF b = a THEN "revision" ELSE refresh[b].stage
                          /\ refresh'[b].heads = refresh[b].heads
    BY DEF IInv, TypeOK
  <1>2. At(a) \in Replica /\ Writer \subseteq Loader /\ Replica \subseteq Loader
    BY AtType DEF Loader
  <1>3. \A p \in Replica : snapshot'[p] = IF p = At(a) THEN Joined(a) ELSE snapshot[p]
    BY <1>2 DEF IInv, TypeOK
  <1>4. Alive'
    BY <1>1, <1>2 DEF IInv, CacheInv, Alive
  <1>5. \A b \in Loader : Holds(b)' <=> Holds(b)
    BY <1>1 DEF Holds
  <1>6. Mutex'
    BY <1>5 DEF IInv, CacheInv, Mutex, At
  <1>7. \A b \in Loader : refresh'[b].stage = "refs" => b # a /\ At(b) # At(a) /\ refresh[b].stage = "refs"
    BY <1>1 DEF IInv, CacheInv, Mutex, Holds
  <1>8. Behind'
    <2> SUFFICES ASSUME NEW p \in Replica, NEW x \in Route, snapshot'[p][x] # None
                 PROVE  db[x] # None /\ snapshot'[p][x].ver <= db[x].ver
      BY DEF Behind
    <2>1. CASE p = At(a)
      BY <1>3, <2>1, JoinedIs DEF IInv, CacheInv, HeadsAhead
    <2>2. CASE p # At(a)
      BY <1>3, <2>2 DEF IInv, CacheInv, Behind
    <2>3. QED
      BY <2>1, <2>2
  <1>9. HeadsAhead'
    <2> SUFFICES ASSUME NEW b \in Loader, NEW x \in Route,
                        refresh'[b].stage = "refs", refresh[b].heads[x] # None
                 PROVE  /\ db[x] # None /\ refresh[b].heads[x].ver <= db[x].ver
                        /\ snapshot'[At(b)][x] # None => snapshot'[At(b)][x].ver <= refresh[b].heads[x].ver
      BY <1>1 DEF HeadsAhead, At
    <2>1. At(b) \in Replica /\ snapshot'[At(b)] = snapshot[At(b)] /\ refresh[b].stage = "refs"
      BY <1>3, <1>7, AtType
    <2>2. QED
      BY <2>1 DEF IInv, CacheInv, HeadsAhead
  <1>10. \A w \in Writer : Installed(w)' => Installed(w) \/ w = a
    BY <1>1, <1>2 DEF Installed
  <1>11. \A x : Disabled(x)' <=> Disabled(x)
    BY DEF Disabled
  <1>12. \A p \in Replica : p # At(a) => (Serving(p)' => Serving(p))
    BY <1>1, <1>2 DEF Serving, At
  <1>13. SnapshotSees'
    <2> SUFFICES ASSUME NEW w \in Writer, Installed(w)', Serving(Home[w])'
                 PROVE  Shows(snapshot'[Home[w]][input[w].route], w)
      BY <1>11 DEF SnapshotSees, Shows
    <2>1. Home[w] \in Replica
      OBVIOUS
    <2>2. CASE Home[w] = At(a)
      <3>1. Shows(refresh[a].heads[input[w].route], w)
        BY <1>10, <2>2 DEF IInv, CacheInv, HeadsSee
      <3>2. wpc[w] # "start"
        <4>1. CASE w = a
          BY <4>1 DEF IInv, CacheInv, Alive
        <4>2. CASE w # a
          <5>1. Wrote(w)
            BY <1>10, <4>2 DEF Installed, Wrote
          <5>2. QED
            BY <5>1 DEF IInv, DBInv, Overtaken
        <4>3. QED
          BY <4>1, <4>2
      <3>3. input[w].route \in Route
        BY <3>2, InputIs DEF IInv, DBInv, InputFacts
      <3>4. snapshot'[Home[w]][input[w].route] = Joined(a)[input[w].route]
        BY <1>3, <2>1, <2>2
      <3>5. QED
        BY <3>1, <3>3, <3>4, JoinedIs DEF Shows
    <2>3. CASE Home[w] # At(a)
      <3>1. w # a
        BY <2>3 DEF At
      <3>2. Shows(snapshot[Home[w]][input[w].route], w)
        BY <1>10, <1>12, <2>1, <2>3, <3>1 DEF IInv, CacheInv, SnapshotSees
      <3>3. QED
        BY <1>3, <2>1, <2>3, <3>2
    <2>4. QED
      BY <2>2, <2>3
  <1>14. HeadsSee'
    <2> SUFFICES ASSUME NEW b \in Loader, NEW w \in Writer, refresh'[b].stage = "refs",
                        At(b) = Home[w], Installed(w)' \/ w = b
                 PROVE  Shows(refresh[b].heads[input[w].route], w)
      BY <1>1, <1>11 DEF HeadsSee, At, Shows
    <2>1. refresh[b].stage = "refs" /\ At(b) # At(a) /\ w # a
      BY <1>7 DEF At
    <2>2. QED
      BY <1>10, <2>1 DEF IInv, CacheInv, HeadsSee
  <1>15. QED
    BY <1>4, <1>6, <1>8, <1>9, <1>13, <1>14 DEF CacheInv

\* Steps that begin no reload and install nothing: reloads end or are asked for,
\* and a replica that goes down forgets its snapshot.
LEMMA CacheLess ==
    ASSUME IInv, Alive', UNCHANGED <<db, input>>,
           \A b \in Loader : refresh'[b] = refresh[b] \/ refresh'[b].stage \in {"free", "wait"},
           \A p \in Replica :
             /\ Serving(p)' => Serving(p)
             /\ \/ snapshot'[p] = snapshot[p]
                \/ /\ \A x \in Route : snapshot'[p][x] = None
                   /\ ~ Serving(p)' /\ \A b \in Loader : At(b) = p => ~ Holds(b)',
           \A w \in Writer : Installed(w)' => Installed(w)
    PROVE  CacheInv'
  <1>1. \A b \in Loader : Holds(b)' => Holds(b) /\ refresh'[b] = refresh[b]
    BY DEF Holds
  <1>2. Mutex'
    BY <1>1 DEF IInv, CacheInv, Mutex, At
  <1>3. Behind'
    BY DEF IInv, CacheInv, Behind
  <1>4. \A b \in Loader : At(b) \in Replica
    BY AtType
  <1>5. HeadsAhead'
    <2> SUFFICES ASSUME NEW b \in Loader, NEW x \in Route,
                        refresh'[b].stage = "refs", refresh'[b].heads[x] # None
                 PROVE  /\ db[x] # None /\ refresh'[b].heads[x].ver <= db[x].ver
                        /\ snapshot'[At(b)][x] # None => snapshot'[At(b)][x].ver <= refresh'[b].heads[x].ver
      BY DEF HeadsAhead, At
    <2>1. refresh'[b] = refresh[b] /\ snapshot'[At(b)] = snapshot[At(b)]
      BY <1>4 DEF Holds
    <2>2. QED
      BY <2>1 DEF IInv, CacheInv, HeadsAhead
  <1>6. \A x : Disabled(x)' <=> Disabled(x)
    BY DEF Disabled
  <1>7. SnapshotSees'
    <2> SUFFICES ASSUME NEW w \in Writer, Installed(w)', Serving(Home[w])'
                 PROVE  Shows(snapshot'[Home[w]][input[w].route], w)
      BY <1>6 DEF SnapshotSees, Shows
    <2>1. Home[w] \in Replica
      OBVIOUS
    <2>2. snapshot'[Home[w]] = snapshot[Home[w]] /\ Serving(Home[w])
      BY <2>1
    <2>3. QED
      BY <2>2 DEF IInv, CacheInv, SnapshotSees
  <1>8. HeadsSee'
    <2> SUFFICES ASSUME NEW b \in Loader, NEW w \in Writer, refresh'[b].stage = "refs",
                        At(b) = Home[w], Installed(w)' \/ w = b
                 PROVE  Shows(refresh'[b].heads[input[w].route], w)
      BY <1>6 DEF HeadsSee, At, Shows
    <2>1. refresh'[b] = refresh[b]
      OBVIOUS
    <2>2. QED
      BY <2>1 DEF IInv, CacheInv, HeadsSee
  <1>9. QED
    BY <1>2, <1>3, <1>5, <1>7, <1>8 DEF CacheInv

\* A reload ends; a call whose reload succeeded has installed its snapshot.
LEMMA EndCache ==
    ASSUME IInv, NEW a \in Loader, Holds(a), NEW ok \in BOOLEAN, RefreshEnd(a, ok),
           ok => refresh[a].stage = "revision",
           UNCHANGED <<db, input, snapshot>>
    PROVE  CacheInv'
  <1>1. \A b \in Loader : refresh'[b] = IF b = a THEN Free ELSE refresh[b]
    BY DEF RefreshEnd, IInv, TypeOK
  <1>2. Free.stage = "free" /\ Writer \subseteq Loader /\ Replica \subseteq Loader
        /\ \A w \in Writer : w \notin Replica
    BY DEF Free, Loader
  <1>3. CASE a \in Writer
    <2>1. wpc[a] = "refresh" /\ outcome[a] = "none" /\ life' = life
      BY <1>2, <1>3 DEF IInv, CacheInv, Alive, Holds, DBInv, Calls, RefreshEnd
    <2>2. /\ \A w \in Writer \ {a} : wpc'[w] = wpc[w] /\ outcome'[w] = outcome[w]
          /\ ok => wpc'[a] = "notify"
          /\ ~ok => wpc'[a] = "log" /\ outcome'[a] = "unavailable"
      <3>1. CASE ok
        BY <1>2, <1>3, <3>1 DEF RefreshEnd, Goto, IInv, TypeOK
      <3>2. CASE ~ok
        BY <1>2, <1>3, <3>2 DEF RefreshEnd, Return, IInv, TypeOK
      <3>3. QED
        BY <3>1, <3>2
    <2>3. Alive'
      BY <1>1, <1>2, <2>1, <2>2 DEF IInv, CacheInv, Alive
    <2>4. \A w \in Writer : Installed(w)' => Installed(w)
      <3>1. CASE ok
        BY <1>1, <1>2, <2>1, <2>2, <3>1 DEF Installed
      <3>2. CASE ~ok
        BY <1>1, <1>2, <2>1, <2>2, <3>2 DEF Installed
      <3>3. QED
        BY <3>1, <3>2
    <2>5. \A p \in Replica : Serving(p)' => Serving(p)
      BY <1>1, <1>2, <1>3, <2>1 DEF Serving
    <2>6. QED
      BY <1>1, <1>2, <2>3, <2>4, <2>5, CacheLess
  <1>4. CASE a \in Replica
    <2>1. /\ UNCHANGED <<wpc, outcome>>
          /\ \A p \in Replica \ {a} : life'[p] = life[p]
          /\ life'[a] = IF life[a] # "loading" THEN life[a] ELSE IF ok THEN "loaded" ELSE "down"
      BY <1>2, <1>4 DEF RefreshEnd, IInv, TypeOK
    <2>2. Alive'
      BY <1>1, <1>2, <1>4, <2>1 DEF IInv, CacheInv, Alive
    <2>3. \A w \in Writer : Installed(w)' => Installed(w)
      BY <1>1, <1>2, <1>4, <2>1 DEF Installed
    <2>4. \A p \in Replica : Serving(p)' => Serving(p)
      <3>1. Serving(a)' => Serving(a)
        BY <1>1, <1>2, <1>4, <2>1 DEF Serving
      <3>2. \A p \in Replica \ {a} : Serving(p)' => Serving(p)
        BY <1>1, <1>2, <2>1 DEF Serving
      <3>3. QED
        BY <3>1, <3>2
    <2>5. QED
      BY <1>1, <1>2, <2>2, <2>3, <2>4, CacheLess
  <1>5. QED
    BY <1>3, <1>4 DEF Loader

LEMMA CrashCache ==
    ASSUME IInv, NEW p \in Replica, Crash(p)
    PROVE  CacheInv'
  <1>1. /\ UNCHANGED <<db, input, outcome>>
        /\ \A q \in Replica : life'[q] = IF q = p THEN "down" ELSE life[q]
        /\ \A q \in Replica \ {p} : snapshot'[q] = snapshot[q]
        /\ \A x \in Route : snapshot'[p][x] = None
        /\ \A b \in Loader : refresh'[b] = IF At(b) = p THEN Free ELSE refresh[b]
        /\ \A w \in Writer : wpc'[w] = IF Home[w] = p /\ wpc[w] # "start" THEN "done" ELSE wpc[w]
    BY DEF Crash, IInv, TypeOK, dbVars
  <1>2. /\ Free.stage = "free" /\ Writer \subseteq Loader /\ Replica \subseteq Loader
        /\ \A w \in Writer : At(w) = Home[w] /\ Home[w] \in Replica
        /\ \A q \in Replica : At(q) = q
    BY DEF Free, Loader, At
  <1>3. Alive'
    <2>1. ASSUME NEW w \in Writer
          PROVE  /\ wpc'[w] \notin {"start", "done"} => life'[Home[w]] = "up"
                 /\ refresh'[w].stage # "free" => wpc'[w] = "refresh" /\ refresh'[w].stage # "wait"
      <3>1. CASE Home[w] = p
        BY <1>1, <1>2, <3>1
      <3>2. CASE Home[w] # p
        BY <1>1, <1>2, <3>2 DEF IInv, CacheInv, Alive
      <3>3. QED
        BY <3>1, <3>2
    <2>2. ASSUME NEW q \in Replica, life'[q] \in {"down", "loaded"}
          PROVE  refresh'[q].stage = "free"
      BY <1>1, <1>2, <2>2 DEF IInv, CacheInv, Alive
    <2>3. QED
      BY <2>1, <2>2 DEF Alive
  <1>4. \A w \in Writer : Installed(w)' => Installed(w)
    BY <1>1, <1>2 DEF Installed
  <1>5. ~ Serving(p)' /\ \A q \in Replica : Serving(q)' => Serving(q)
    BY <1>1, <1>2 DEF Serving
  <1>6. \A b \in Loader : At(b) = p => ~ Holds(b)'
    BY <1>1, <1>2 DEF Holds
  <1>7. QED
    BY <1>1, <1>2, <1>3, <1>4, <1>5, <1>6, CacheLess

LEMMA AskCache ==
    ASSUME IInv, NEW p \in Replica, Idle(p), Ask(p), UNCHANGED <<db, writerVars, snapshot, life>>
    PROVE  CacheInv'
  <1>1. \A b \in Loader : IF b = p THEN refresh'[b].stage = "wait" ELSE refresh'[b] = refresh[b]
    BY DEF Ask, IInv, TypeOK
  <1>2. /\ UNCHANGED <<wpc, input, outcome>> /\ Writer \subseteq Loader /\ Replica \subseteq Loader
        /\ \A w \in Writer : w \notin Replica
        /\ life[p] = "up"
    BY DEF writerVars, Loader, Idle
  <1>3. Alive'
    BY <1>1, <1>2 DEF IInv, CacheInv, Alive
  <1>4. \A w \in Writer : Installed(w)' => Installed(w)
    BY <1>1, <1>2 DEF Installed
  <1>5. \A q \in Replica : Serving(q)' => Serving(q)
    BY <1>1, <1>2 DEF Serving
  <1>6. QED
    BY <1>1, <1>2, <1>3, <1>4, <1>5, CacheLess

LEMMA StartedCache ==
    ASSUME IInv, NEW p \in Replica, life[p] = "loaded", life' = [life EXCEPT ![p] = "up"],
           UNCHANGED <<db, writerVars, snapshot, refresh>>
    PROVE  CacheInv'
  <1>1. \A q \in Replica : life'[q] = IF q = p THEN "up" ELSE life[q]
    BY DEF IInv, TypeOK
  <1>2. UNCHANGED <<wpc, input, outcome>>
    BY DEF writerVars
  <1>3. Alive'
    BY <1>1, <1>2 DEF IInv, CacheInv, Alive
  <1>4. \A w \in Writer : Installed(w)' => Installed(w)
    BY <1>2 DEF Installed
  <1>5. \A q \in Replica : Serving(q)' => Serving(q)
    BY <1>1 DEF Serving
  <1>6. QED
    BY <1>2, <1>3, <1>4, <1>5, CacheLess

\* Where Goto and Return take a call.
LEMMA MoveIs ==
    ASSUME TypeOK, NEW w \in Writer
    PROVE  /\ \A label : Goto(w, label) =>
                outcome' = outcome /\ \A v \in Writer : wpc'[v] = IF v = w THEN label ELSE wpc[v]
           /\ \A result : Return(w, result) =>
                \A v \in Writer : /\ wpc'[v] = IF v = w THEN "log" ELSE wpc[v]
                                 /\ outcome'[v] = IF v = w THEN result ELSE outcome[v]
  BY DEF TypeOK, Goto, Return

\* One call moves on outside its reload.
LEMMA MoveCache ==
    ASSUME IInv, TypeOK', NEW w \in Writer, wpc[w] \notin {"start", "refresh", "done"},
           UNCHANGED <<input, refresh, life, snapshot>>,
           \A v \in Writer \ {w} : wpc'[v] = wpc[v] /\ outcome'[v] = outcome[v],
           Installed(w)' => Installed(w),
           \A x \in Route : db'[x] = db[x] \/ (db'[x] # None /\ (db[x] # None => db[x].ver <= db'[x].ver))
    PROVE  CacheInv'
  <1>1. refresh[w].stage = "free" /\ life[Home[w]] = "up"
    BY DEF IInv, CacheInv, Alive
  <1>2. \A v \in Writer : wpc'[v] \notin {"start", "done"} => life[Home[v]] = "up"
    BY <1>1 DEF IInv, CacheInv, Alive
  <1>3. \A v \in Writer : Installed(v)' => Installed(v)
    BY DEF Installed
  <1>4. QED
    BY <1>1, <1>2, <1>3, CacheQuiet

LEMMA ValidateCache ==
    ASSUME IInv, TypeOK', NEW w \in Writer, SetValidate(w)
    PROVE  CacheInv'
  <1>1. PICK i \in Inputs :
          /\ input' = [input EXCEPT ![w] = i]
          /\ \/ Goto(w, "begin")
             \/ /\ wpc' = [wpc EXCEPT ![w] = "done"]
                /\ outcome' = [outcome EXCEPT ![w] = "invalid"]
    BY DEF SetValidate
  <1>2. /\ wpc[w] = "start" /\ input[w] = None /\ outcome[w] = "none" /\ refresh[w].stage = "free"
        /\ life[Home[w]] = "up"
        /\ UNCHANGED <<db, refresh, life, snapshot>>
    BY DEF SetValidate, IInv, DBInv, Calls, CacheInv, Alive, dbVars, cacheVars
  <1>3. /\ \A v \in Writer \ {w} : wpc'[v] = wpc[v] /\ outcome'[v] = outcome[v] /\ input'[v] = input[v]
        /\ \/ wpc'[w] = "begin" /\ outcome'[w] = "none"
           \/ wpc'[w] = "done" /\ outcome'[w] = "invalid"
    BY <1>1, <1>2 DEF IInv, TypeOK, Goto
  <1>4. ~ Installed(w) /\ \A v \in Writer : Installed(v)' => Installed(v)
    BY <1>2, <1>3 DEF Installed
  <1>5. \A v \in Writer : wpc'[v] \notin {"start", "done"} => life[Home[v]] = "up"
    BY <1>2, <1>3 DEF IInv, CacheInv, Alive
  <1>6. QED
    BY <1>2, <1>3, <1>4, <1>5, CacheQuiet

\* A commit makes a policy newer.
LEMMA CommitCache ==
    ASSUME IInv, TypeOK', NEW w \in Writer, SetCommit(w) \/ SetCommitUnknown(w)
    PROVE  CacheInv'
  <1>1. wpc[w] = "commit" /\ db' = [db EXCEPT ![input[w].route] = Written(w)]
        /\ UNCHANGED <<input, refresh, life, snapshot>>
    BY DEF SetCommit, SetCommitUnknown, cacheVars
  <1>2. InputFacts(w)
    BY <1>1, InputIs DEF IInv, DBInv
  <1>3. /\ Written(w) # None
        /\ db[input[w].route] # None => Written(w).ver = db[input[w].route].ver + 1
    BY <1>2, WrittenType DEF IInv, InputFacts
  <1>4. \A x \in Route : db[x] # None => db[x].ver \in Nat
    BY DEF IInv, TypeOK, Policy
  <1>5. \A x \in Route : db'[x] = IF x = input[w].route THEN Written(w) ELSE db[x]
    BY <1>1 DEF IInv, TypeOK
  <1>6. \A x \in Route : db'[x] = db[x] \/ (db'[x] # None /\ (db[x] # None => db[x].ver <= db'[x].ver))
    BY <1>3, <1>4, <1>5
  <1>7. /\ \A v \in Writer \ {w} : wpc'[v] = wpc[v] /\ outcome'[v] = outcome[v]
        /\ \/ wpc'[w] = "refresh" /\ outcome'[w] = "none"
           \/ wpc'[w] = "log" /\ outcome'[w] = "internal"
    <2>1. Goto(w, "refresh") \/ Return(w, "internal")
      BY DEF SetCommit, SetCommitUnknown
    <2>2. outcome[w] = "none"
      BY <1>1 DEF IInv, DBInv, Calls
    <2>3. TypeOK
      BY DEF IInv
    <2>4. QED
      BY <2>1, <2>2, <2>3, MoveIs
  <1>8. refresh[w].stage = "free"
    BY <1>1 DEF IInv, CacheInv, Alive
  <1>9. ~ Installed(w)'
    BY <1>1, <1>7, <1>8 DEF Installed
  <1>10. QED
    BY <1>1, <1>6, <1>7, <1>9, MoveCache

LEMMA SetCache ==
    ASSUME IInv, TypeOK', NEW w \in Writer, SetValidate(w) \/ SetStep(w) \/ SetFault(w)
    PROVE  CacheInv'
  <1>1. CASE SetValidate(w)
    BY <1>1, ValidateCache
  <1>2. CASE SetCommit(w) \/ SetCommitUnknown(w)
    BY <1>2, CommitCache
  <1>3. CASE SetRefresh(w)
    <2>1. w \in Loader /\ w \notin Replica
      BY DEF Loader
    <2>2. QED
      BY <1>3, <2>1, BeginCache DEF SetRefresh, dbVars
  <1>4. CASE SetMissing(w) \/ SetBegin(w) \/ SetInsert(w) \/ SetAbort(w)
    <2>1. /\ wpc[w] \in {"begin", "insert", "commit"}
          /\ UNCHANGED <<db, input, refresh, life, snapshot>>
      BY <1>4 DEF SetMissing, SetBegin, SetInsert, SetAbort, Write, dbVars, cacheVars
    <2>2. \/ \E result \in {"missing", "conflict", "internal"} : Return(w, result)
          \/ \E label \in {"insert", "commit"} : Goto(w, label)
      BY <1>4 DEF SetMissing, SetBegin, SetInsert, SetAbort, Write
    <2>3. /\ \A v \in Writer \ {w} : wpc'[v] = wpc[v] /\ outcome'[v] = outcome[v]
          /\ \/ wpc'[w] = "log" /\ outcome'[w] \in {"missing", "conflict", "internal"}
             \/ wpc'[w] \in {"insert", "commit"} /\ outcome'[w] = "none"
      <3>1. outcome[w] = "none" /\ TypeOK
        BY <2>1 DEF IInv, DBInv, Calls
      <3>2. QED
        BY <2>2, <3>1, MoveIs
    <2>4. ~ Installed(w)'
      BY <2>3 DEF Installed
    <2>5. QED
      BY <2>1, <2>3, <2>4, MoveCache
  <1>5. CASE SetNotify(w) \/ SetNotifyLost(w)
    <2>1. wpc[w] = "notify" /\ UNCHANGED <<db, input, refresh, life, snapshot>>
      BY <1>5 DEF SetNotify, SetNotifyLost, dbVars
    <2>2. \A v \in Writer \ {w} : wpc'[v] = wpc[v] /\ outcome'[v] = outcome[v]
      BY <1>5 DEF SetNotify, SetNotifyLost, Goto, IInv, TypeOK
    <2>3. Installed(w)
      BY <2>1 DEF Installed
    <2>4. QED
      BY <2>1, <2>2, <2>3, MoveCache
  <1>6. CASE SetReturn(w) \/ SetReturnUnlogged(w)
    <2>1. wpc[w] = "log" /\ UNCHANGED <<db, input, refresh, life, snapshot>>
      BY <1>6 DEF SetReturn, SetReturnUnlogged, dbVars, cacheVars
    <2>2. /\ \A v \in Writer \ {w} : wpc'[v] = wpc[v] /\ outcome'[v] = outcome[v]
          /\ wpc'[w] = "done" /\ (outcome[w] # "none" => outcome'[w] = outcome[w])
      BY <1>6 DEF SetReturn, SetReturnUnlogged, IInv, TypeOK
    <2>3. Installed(w)' => Installed(w)
      BY <2>1, <2>2 DEF Installed
    <2>4. QED
      BY <2>1, <2>2, <2>3, MoveCache
  <1>7. QED
    BY <1>1, <1>2, <1>3, <1>4, <1>5, <1>6 DEF SetStep, SetFault

LEMMA RefreshCache ==
    ASSUME IInv, NEW a \in Loader, RefreshStep(a) \/ RefreshFail(a)
    PROVE  CacheInv'
  <1>1. CASE RefreshInstall(a)
    <2>1. CASE AllCompile(Joined(a))
      BY <1>1, <2>1, InstallCache DEF RefreshInstall, dbVars
    <2>2. CASE ~AllCompile(Joined(a))
      BY <1>1, <2>2, EndCache DEF RefreshInstall, Holds, dbVars
    <2>3. QED
      BY <2>1, <2>2
  <1>2. CASE RefreshRevision(a)
    BY <1>2, EndCache DEF RefreshRevision, Holds, dbVars
  <1>3. CASE RefreshFail(a)
    BY <1>3, EndCache DEF RefreshFail, Holds, dbVars
  <1>4. QED
    BY <1>1, <1>2, <1>3 DEF RefreshStep

LEMMA RunCache ==
    ASSUME IInv, NEW p \in Replica,
           RunMessage(p) \/ RunPoll(p) \/ RunReload(p) \/ Crash(p) \/ Start(p)
    PROVE  CacheInv'
  <1>0. p \in Loader /\ p \notin Writer
    BY DEF Loader
  <1>1. CASE RunMessage(p) \/ RunPoll(p)
    BY <1>1, AskCache DEF RunMessage, RunPoll, dbVars
  <1>2. CASE RunReload(p)
    <2>1. life[p] # "down" /\ life[p] # "loaded"
      BY <1>2 DEF RunReload, IInv, CacheInv, Alive
    <2>2. QED
      BY <1>0, <1>2, <2>1, BeginCache DEF RunReload, dbVars
  <1>3. CASE Crash(p)
    BY <1>3, CrashCache
  <1>4. CASE Start(p)
    <2>1. CASE life[p] = "down"
      BY <1>0, <1>4, <2>1, BeginCache DEF Start, dbVars
    <2>2. CASE life[p] # "down"
      BY <1>4, <2>2, StartedCache DEF Start, dbVars
    <2>3. QED
      BY <2>1, <2>2
  <1>5. QED
    BY <1>1, <1>2, <1>3, <1>4

LEMMA InitOK == Init => IInv
  <1> SUFFICES ASSUME Init PROVE IInv
    OBVIOUS
  <1>0. /\ Free.stage = "free" /\ Writer \subseteq Loader /\ Replica \subseteq Loader
        /\ \A a \in Loader : refresh[a] = Free
        /\ \A w \in Writer : wpc[w] = "start" /\ outcome[w] = "none" /\ input[w] = None
    BY DEF Init, Free, Loader
  <1>1. \A x \in Route : EntryOf(x) \in Entry \cup {None}
    <2> SUFFICES ASSUME NEW x \in Route, Active(x)
                 PROVE  [ver |-> db[x].ver, expr |-> db[x].expr, refs |-> db[x].refs] \in Entry
      BY DEF EntryOf
    <2>1. db[x] \in Policy
      BY DEF Init, Active
    <2>2. QED
      BY <2>1 DEF Policy, Entry
  <1>2. TypeOK
    <2>1. refresh \in RefreshType
      BY FreeType DEF Init, RefreshType
    <2>2. snapshot \in [Replica -> [Route -> Entry \cup {None}]]
      BY <1>1 DEF Init
    <2>3. /\ db \in [Route -> Policy \cup {None}] /\ clock \in Nat /\ faults \in 0..MaxFaults
          /\ input \in [Writer -> Inputs \cup {None}] /\ stamp \in [Writer -> Nat]
      BY DEF Init
    <2>4. wpc \in WpcType /\ outcome \in OutcomeType
      BY DEF Init, WpcType, OutcomeType
    <2>5. revision \in [Replica -> Nat] /\ inbox \in [Replica -> BOOLEAN]
          /\ life \in [Replica -> {"down", "loading", "loaded", "up"}]
      BY DEF Init
    <2>6. QED
      BY <2>1, <2>2, <2>3, <2>4, <2>5 DEF TypeOK, RefreshType, WpcType, OutcomeType
  <1>3. \A w \in Writer : ~ Wrote(w) /\ ~ Installed(w)
    BY <1>0 DEF Wrote, Installed
  <1>4. DBInv
    <2>1. Stored
      BY DEF Init, Stored, Policy
    <2>2. QED
      BY <1>0, <1>3, <2>1 DEF DBInv, Calls, Based, Overtaken
  <1>5. Behind
    <2> SUFFICES ASSUME NEW p \in Replica, NEW x \in Route, snapshot[p][x] # None
                 PROVE  db[x] # None /\ snapshot[p][x].ver <= db[x].ver
      BY DEF Behind
    <2>1. snapshot[p][x] = EntryOf(x)
      BY DEF Init
    <2>2. db[x] # None /\ EntryOf(x).ver = db[x].ver
      BY <2>1 DEF EntryOf, Active
    <2>3. db[x].ver \in Nat
      BY <1>2, <2>2 DEF TypeOK, Policy
    <2>4. QED
      BY <2>1, <2>2, <2>3
  <1>6. CacheInv
    BY <1>0, <1>3, <1>5 DEF Init, CacheInv, Alive, Mutex, Holds, HeadsAhead, SnapshotSees, HeadsSee
  <1>7. QED
    BY <1>2, <1>4, <1>6 DEF IInv

LEMMA StutterKeeps ==
    ASSUME IInv, UNCHANGED vars
    PROVE  IInv'
  <1>0. UNCHANGED <<db, clock, wpc, input, stamp, outcome, snapshot, revision, refresh, inbox, life, faults>>
    BY DEF vars
  <1>1. TypeOK'
    BY <1>0 DEF IInv, TypeOK
  <1>2. DBInv'
    BY <1>0, DBQuiet DEF IInv
  <1>3. \A w \in Writer : Installed(w)' <=> Installed(w)
    BY <1>0 DEF Installed
  <1>4. CacheInv'
    BY <1>0, <1>1, <1>3, CacheQuiet DEF IInv, CacheInv, Alive
  <1>5. QED
    BY <1>1, <1>2, <1>4 DEF IInv

LEMMA NextKeeps ==
    ASSUME IInv, [Next]_vars
    PROVE  IInv'
  <1>1. CASE \E w \in Writer : SetValidate(w) \/ SetStep(w) \/ SetFault(w)
    <2>1. PICK w \in Writer : SetValidate(w) \/ SetStep(w) \/ SetFault(w)
      BY <1>1
    <2>2. TypeOK'
      BY <2>1, SetTypes DEF IInv, DBInv
    <2>3. QED
      BY <2>1, <2>2, SetDB, SetCache DEF IInv
  <1>2. CASE \E a \in Loader : RefreshStep(a) \/ RefreshFail(a)
    BY <1>2, RefreshTypes, RefreshDB, RefreshCache DEF IInv, CacheInv
  <1>3. CASE \E p \in Replica : RunMessage(p) \/ RunPoll(p) \/ RunReload(p) \/ Crash(p) \/ Start(p)
    BY <1>3, RunTypes, RunDB, RunCache DEF IInv
  <1>4. CASE UNCHANGED vars
    BY <1>4, StutterKeeps
  <1>5. QED
    BY <1>1, <1>2, <1>3, <1>4 DEF Next, Quiescent
-------------------------------------------------------------------------------
(* The results. *)

\* What ties the calls of Set, the database, the reloads and the snapshots
\* together holds in every state, whatever fails or crashes.
THEOREM InvariantHolds == Spec => []IInv
  <1>1. Init => IInv
    BY InitOK
  <1>2. IInv /\ [Next]_vars => IInv'
    BY NextKeeps
  <1>3. QED
    BY <1>1, <1>2, PTL DEF Spec

\* Every variable keeps its type.
THEOREM TypeCorrect == Spec => []TypeOK
  <1>1. IInv => TypeOK
    BY DEF IInv
  <1>2. QED
    BY <1>1, InvariantHolds, PTL

\* The version check under the row lock, and the unique index for the first
\* policy of a route, admit one of any number of competing calls of Set.
THEOREM VersionsAreTakenOnce == Spec => []OneWriterPerVersion
  <1>1. IInv => OneWriterPerVersion
    BY DEF IInv, DBInv, Overtaken, Wrote, OneWriterPerVersion, Accepted
  <1>2. QED
    BY <1>1, InvariantHolds, PTL

\* A call of Set that returned success is enforced by its own replica, also
\* after a crash and restart of it and beside any number of other reloads.
THEOREM SetIsEnforced == Spec => []WriterSeesItsPolicy
  <1>1. ASSUME IInv PROVE WriterSeesItsPolicy
    <2> SUFFICES ASSUME NEW w \in Writer, Accepted(w), life[Home[w]] = "up"
                 PROVE  Shows(snapshot[Home[w]][input[w].route], w)
      BY DEF WriterSeesItsPolicy, Shows, Disabled
    <2>1. Installed(w) /\ Serving(Home[w])
      BY DEF Accepted, Installed, Serving
    <2>2. QED
      BY <1>1, <2>1 DEF IInv, CacheInv, SnapshotSees
  <1>2. QED
    BY <1>1, InvariantHolds, PTL

\* No reload takes a replica back to an older version of a policy.
THEOREM ReloadsOnlyAdvance == Spec => SnapshotNeverGoesBack
  <1>1. ASSUME IInv, [Next]_vars, NEW p \in Replica, NEW x \in Route,
               life[p] = "up", life'[p] = "up", snapshot[p][x] # None, snapshot'[p][x] # None
        PROVE  snapshot'[p][x].ver >= snapshot[p][x].ver
    <2>0. snapshot[p][x].ver \in Nat
      BY <1>1 DEF IInv, TypeOK, Entry
    <2>1. CASE snapshot'[p] = snapshot[p]
      BY <2>0, <2>1
    <2>2. CASE \E a \in Loader : RefreshInstall(a)
      <3>1. PICK a \in Loader : RefreshInstall(a)
        BY <2>2
      <3>2. CASE snapshot' = [snapshot EXCEPT ![At(a)] = Joined(a)] /\ p = At(a)
        <4>1. snapshot'[p] = Joined(a)
          BY <1>1, <3>2 DEF IInv, TypeOK
        <4>2. refresh[a].heads[x] # None /\ snapshot'[p][x].ver = refresh[a].heads[x].ver
          BY <1>1, <4>1, JoinedIs
        <4>3. refresh[a].heads[x].ver \in Nat
          BY <1>1, <4>2 DEF IInv, TypeOK, PolicyHead
        <4>4. snapshot[p][x].ver <= refresh[a].heads[x].ver
          BY <1>1, <3>1, <3>2, <4>2 DEF IInv, CacheInv, HeadsAhead, RefreshInstall
        <4>5. QED
          BY <2>0, <4>2, <4>3, <4>4
      <3>3. CASE snapshot' = [snapshot EXCEPT ![At(a)] = Joined(a)] /\ p # At(a)
        <4>1. snapshot'[p] = snapshot[p]
          BY <1>1, <3>3 DEF IInv, TypeOK
        <4>2. QED
          BY <2>1, <4>1
      <3>4. QED
        BY <2>1, <3>1, <3>2, <3>3 DEF RefreshInstall
    <2>3. CASE \E q \in Replica : Crash(q)
      <3>1. PICK q \in Replica : Crash(q)
        BY <2>3
      <3>2. q # p
        BY <1>1, <3>1 DEF Crash, IInv, TypeOK
      <3>3. snapshot'[p] = snapshot[p]
        BY <1>1, <3>1, <3>2 DEF Crash, IInv, TypeOK
      <3>4. QED
        BY <2>1, <3>3
    <2>4. UNCHANGED snapshot \/ (\E a \in Loader : RefreshInstall(a)) \/ (\E q \in Replica : Crash(q))
      BY <1>1 DEF Next, SetValidate, SetStep, SetFault, SetMissing, SetBegin, SetInsert, SetCommit,
                  SetRefresh, SetNotify, SetReturn, SetAbort, SetCommitUnknown, SetNotifyLost,
                  SetReturnUnlogged, RefreshStep, RefreshRevision, RefreshFail, RunMessage, RunPoll,
                  RunReload, Start, Quiescent, vars, cacheVars
    <2>5. QED
      BY <2>1, <2>2, <2>3, <2>4
  <1>2. IInv /\ [Next]_vars =>
          [\A p \in Replica, x \in Route :
            /\ life[p] = "up" /\ life'[p] = "up"
            /\ snapshot[p][x] # None /\ snapshot'[p][x] # None
            => snapshot'[p][x].ver >= snapshot[p][x].ver]_vars
    BY <1>1
  <1>3. QED
    BY <1>2, InvariantHolds, PTL DEF Spec, SnapshotNeverGoesBack
===============================================================================
