----------------------------- MODULE AuditIngest ------------------------------
(***************************************************************************)
(* How an audit record gets into the database.                             *)
(*                                                                         *)
(* Requests reach audit.Service.Record from two sides: the event consumer  *)
(* (app/audit_eventbus.go) handles every platform event under an explicit  *)
(* acknowledgement, and the HTTP and gRPC handlers pass on what a client   *)
(* sends.  Both sides are at-least-once: the bus redelivers what was not   *)
(* acknowledged in time or was refused, up to a maximum number of          *)
(* deliveries, and a client that saw an error or no answer calls again.    *)
(* A request can therefore run on several workers (goroutines of several   *)
(* replicas) at once, and each run is a sequence of separate statements:   *)
(* a lookup, an insert of the id into audit_record_keys, an insert of the  *)
(* row into audit_records, and a commit.                                   *)
(*                                                                         *)
(* audit_records alone does not keep an id unique: its primary key is      *)
(* (id, occurred_at), and occurred_at may be filled in from the clock of   *)
(* the run.  The key table is what does.                                   *)
(***************************************************************************)
EXTENDS Naturals

CONSTANTS
    Worker,      \* goroutines that run Record, on any replica
    Message,     \* bus events and client calls
    Req,         \* Req[m]: the request message m carries
    Id,          \* ids a caller may choose (valid UUIDs)
    FreshId,     \* ids uuid.NewString may return
    Tenant, Body, Time,
    NoId,        \* the empty id
    BadId,       \* an id uuid.Parse rejects
    NoTenant,    \* the empty tenant_id
    NoTime,      \* a zero occurred_at
    NoJob, NoRow,
    MaxDeliver,  \* event_bus.consumer_max_deliver; attempts of a client
    MaxFaults    \* bound: faults in one behaviour

AnyId == Id \cup FreshId
AnyTenant == Tenant \cup {NoTenant}

\* audit.Record as a caller sends it, with the principal of the call.
\* complete: no required field is blank after trimming; json: both summaries
\* are valid JSON; app: an application_id is given.
Request ==
    [id : Id \cup {NoId, BadId}, tenant : AnyTenant, body : Body,
     at : Time \cup {NoTime}, complete : BOOLEAN, json : BOOLEAN, app : BOOLEAN,
     caller : {"none", "user", "service"}, callerTenant : AnyTenant]

\* audit.Record as it is stored.
Row == [id : AnyId, tenant : AnyTenant, body : Body, at : Time]

ASSUME ConstantsAssumption ==
    /\ Req \in [Message -> Request]
    /\ Id \cap FreshId = {}
    /\ NoId \notin AnyId /\ BadId \notin AnyId /\ NoId # BadId
    /\ NoTenant \notin Tenant
    /\ NoTime \notin Time
    /\ NoJob \notin Message
    /\ NoRow \notin Row
    /\ MaxDeliver \in Nat \ {0}
    /\ MaxFaults \in Nat

VARIABLES
    keys,      \* committed ids of audit_record_keys
    records,   \* committed rows of audit_records
    orphans,   \* rows of transactions whose COMMIT was sent and never answered
    pc,        \* where each worker is inside Record
    job,       \* the message each worker runs
    value,     \* Record's local variable value: the row to write or to return
    due,       \* due[m]: m waits to be delivered (or to be sent again)
    count,     \* deliveries of m so far
    done,      \* m was acknowledged (the client saw the answer)
    answered,  \* observation: every answer Record returned, as <<m, row>>
    faults     \* faults so far (bounded by MaxFaults)

dbVars == <<keys, records, orphans>>
busVars == <<due, count, done>>
workerVars == <<pc, job, value>>
vars == <<keys, records, orphans, pc, job, value, due, count, done, answered, faults>>

PC == {"idle", "admit", "lookup", "insertKey", "insertRow", "commit", "reread", "answer"}

TypeOK ==
    /\ keys \subseteq AnyId
    /\ records \subseteq Row
    /\ orphans \subseteq Row
    /\ pc \in [Worker -> PC]
    /\ job \in [Worker -> Message \cup {NoJob}]
    /\ value \in [Worker -> Row \cup {NoRow}]
    /\ due \in [Message -> BOOLEAN]
    /\ count \in [Message -> 0..MaxDeliver]
    /\ done \in [Message -> BOOLEAN]
    /\ answered \subseteq Message \X Row
    /\ faults \in 0..MaxFaults

Init ==
    /\ keys = {} /\ records = {} /\ orphans = {}
    /\ pc = [w \in Worker |-> "idle"]
    /\ job = [w \in Worker |-> NoJob]
    /\ value = [w \in Worker |-> NoRow]
    /\ due = [m \in Message |-> TRUE]
    /\ count = [m \in Message |-> 0]
    /\ done = [m \in Message |-> FALSE]
    /\ answered = {}
    /\ faults = 0
-------------------------------------------------------------------------------
(* The ways a run of Record ends, and the faults that may hit it. *)

Fault ==
    /\ faults < MaxFaults
    /\ faults' = faults + 1

\* The worker is free again; an open transaction of its own is gone with it.
Release(w) ==
    /\ pc' = [pc EXCEPT ![w] = "idle"]
    /\ job' = [job EXCEPT ![w] = NoJob]
    /\ value' = [value EXCEPT ![w] = NoRow]

\* Record returns an error: the consumer refuses the event, which makes it due
\* again; a client is told about the error and may repeat the call.
Fail(w) ==
    /\ Release(w)
    /\ due' = [due EXCEPT ![job[w]] = ~done[job[w]]]
    /\ UNCHANGED <<count, done>>

\* The run goes on at another line of Record with v as its local value.
Goto(w, label, v) ==
    /\ pc' = [pc EXCEPT ![w] = label]
    /\ value' = [value EXCEPT ![w] = v]
    /\ UNCHANGED <<job, busVars>>
-------------------------------------------------------------------------------
(* Delivery: the bus and the clients. *)

\* Mutant: the delivery limit is not enforced.
DeliverUnbounded(w, m) ==
    /\ pc[w] = "idle"
    /\ due[m]
    /\ due' = [due EXCEPT ![m] = FALSE]
    /\ count' = [count EXCEPT ![m] = @ + 1]
    /\ job' = [job EXCEPT ![w] = m]
    /\ pc' = [pc EXCEPT ![w] = "admit"]
    /\ UNCHANGED <<dbVars, value, done, answered, faults>>

\* The bus hands m to a free worker, or a client's call arrives.
Deliver(w, m) ==
    /\ pc[w] = "idle"
    /\ due[m]
    /\ count[m] < MaxDeliver
    /\ due' = [due EXCEPT ![m] = FALSE]
    /\ count' = [count EXCEPT ![m] = @ + 1]
    /\ job' = [job EXCEPT ![w] = m]
    /\ pc' = [pc EXCEPT ![w] = "admit"]
    /\ UNCHANGED <<dbVars, value, done, answered, faults>>

Running(m) == \E w \in Worker : job[w] = m

Redeliver(m) ==
    /\ ~due[m]
    /\ ~done[m]
    /\ count[m] < MaxDeliver
    /\ due' = [due EXCEPT ![m] = TRUE]
    /\ UNCHANGED <<dbVars, workerVars, count, done, answered>>

\* The acknowledgement wait of m is over and no worker runs m any more.
RedeliverSilent(m) == ~Running(m) /\ Redeliver(m) /\ UNCHANGED faults

\* The acknowledgement wait of m is over while a slow worker still runs m.
RedeliverSlow(m) == Running(m) /\ Redeliver(m) /\ Fault
-------------------------------------------------------------------------------
(* Service.Record, statement by statement. *)

\* The checks of Record in front of the first statement.  verdict is what the
\* application verifier says; it is asked for users who name an application.
Admissible(q, verdict) ==
    /\ q.complete
    /\ q.caller # "none"
    /\ q.caller = "user" => q.callerTenant # NoTenant /\ q.callerTenant = q.tenant
    /\ q.caller = "user" /\ q.app => verdict = "granted"
    /\ q.json
    /\ q.id # BadId

\* Mutant: the row is filed under the caller's tenant.
RowOfCallerTenant(q, id, now) ==
    [id |-> id, tenant |-> q.callerTenant, body |-> q.body,
     at |-> IF q.at = NoTime THEN now ELSE q.at]

\* The row Record builds from q: an empty id is replaced by a fresh UUID and a
\* zero occurred_at by the clock.
RowOf(q, id, now) ==
    [id |-> id, tenant |-> q.tenant, body |-> q.body,
     at |-> IF q.at = NoTime THEN now ELSE q.at]

UnusedIds ==
    FreshId \ (keys \cup {r.id : r \in orphans}
                    \cup {value[w].id : w \in {u \in Worker : value[u] # NoRow}})

Admit(w) ==
    /\ pc[w] = "admit"
    /\ LET q == Req[job[w]] IN
       \E verdict \in {"granted", "refused"} :
         \/ /\ ~Admissible(q, verdict)
            /\ Fail(w)
         \/ /\ Admissible(q, verdict)
            /\ \E now \in Time :
                 \/ q.id # NoId /\ Goto(w, "lookup", RowOf(q, q.id, now))
                 \/ /\ q.id = NoId
                    /\ \E i \in UnusedIds : Goto(w, "insertKey", RowOf(q, i, now))
    /\ UNCHANGED <<dbVars, answered, faults>>

\* Mutant: the lookup does not filter by tenant.
FoundAnyTenant(r) == {x \in records : x.id = r.id}

\* repository.Get: the committed row with this id in this tenant.
Found(r) == {x \in records : x.id = r.id /\ x.tenant = r.tenant}

\* A row that is already there is the answer.
Lookup(w) ==
    /\ pc[w] = "lookup"
    /\ \/ \E x \in Found(value[w]) : Goto(w, "answer", x)
       \/ Found(value[w]) = {} /\ Goto(w, "insertKey", value[w])
    /\ UNCHANGED <<dbVars, answered, faults>>

\* The unique index on audit_record_keys makes an insert wait for any other
\* open transaction that inserted the same id.
TxOpen == {"insertRow", "commit"}

\* Mutant: the insert does not wait for transactions of unknown outcome.
LockedByRunsOnly(i) ==
    \E v \in Worker : pc[v] \in TxOpen /\ value[v].id = i

Locked(i) ==
    \/ \E v \in Worker : pc[v] \in TxOpen /\ value[v].id = i
    \/ \E r \in orphans : r.id = i

\* Mutant: a conflicting key is ignored (ON CONFLICT DO NOTHING).
InsertKeyIgnoringConflict(w) ==
    /\ pc[w] = "insertKey"
    /\ ~Locked(value[w].id)
    /\ Goto(w, "insertRow", value[w])
    /\ UNCHANGED <<dbVars, answered, faults>>

\* First statement of Create, in a new transaction.  ErrDuplicate leads to a
\* rollback and a second lookup.
InsertKey(w) ==
    /\ pc[w] = "insertKey"
    /\ ~Locked(value[w].id)
    /\ \/ value[w].id \in keys /\ Goto(w, "reread", value[w])
       \/ value[w].id \notin keys /\ Goto(w, "insertRow", value[w])
    /\ UNCHANGED <<dbVars, answered, faults>>

\* Mutant: the row is returned without a commit.
InsertRowUncommitted(w) ==
    /\ pc[w] = "insertRow"
    /\ Goto(w, "answer", value[w])
    /\ UNCHANGED <<dbVars, answered, faults>>

\* Second statement of Create.
InsertRow(w) ==
    /\ pc[w] = "insertRow"
    /\ Goto(w, "commit", value[w])
    /\ UNCHANGED <<dbVars, answered, faults>>

\* Both inserts of a transaction become visible at once.
Store(r) ==
    /\ keys' = keys \cup {r.id}
    /\ records' = records \cup {r}

Commit(w) ==
    /\ pc[w] = "commit"
    /\ Store(value[w])
    /\ Goto(w, "answer", value[w])
    /\ UNCHANGED <<orphans, answered, faults>>

\* Mutant: after ErrDuplicate the run answers with the row it built.
RereadOwnValue(w) ==
    /\ pc[w] = "reread"
    /\ Goto(w, "answer", value[w])
    /\ UNCHANGED <<dbVars, answered, faults>>

\* Mutant: ErrDuplicate is an error like any other.
RereadFails(w) ==
    /\ pc[w] = "reread"
    /\ Fail(w)
    /\ UNCHANGED <<dbVars, answered, faults>>

\* After ErrDuplicate: the row of the run that won, or an internal error when
\* the id belongs to a row this tenant cannot see.
Reread(w) ==
    /\ pc[w] = "reread"
    /\ \/ \E x \in Found(value[w]) : Goto(w, "answer", x)
       \/ Found(value[w]) = {} /\ Fail(w)
    /\ UNCHANGED <<dbVars, answered, faults>>

\* Record returns a row: the event is acknowledged, the client is answered.
Answer(w) ==
    /\ pc[w] = "answer"
    /\ answered' = answered \cup {<<job[w], value[w]>>}
    /\ done' = [done EXCEPT ![job[w]] = TRUE]
    /\ due' = [due EXCEPT ![job[w]] = FALSE]
    /\ Release(w)
    /\ UNCHANGED <<dbVars, count, faults>>
-------------------------------------------------------------------------------
(* Faults. *)

\* A statement, BEGIN, or the rollback after ErrDuplicate fails: Within rolls
\* back and Record returns an internal error.
DbError(w) ==
    /\ pc[w] \in {"lookup", "insertKey", "insertRow", "commit", "reread"}
    /\ Fault
    /\ Fail(w)
    /\ UNCHANGED <<dbVars, answered>>

\* Mutant: an error of COMMIT is not returned.
CommitUnknownIgnored(w) ==
    /\ pc[w] = "commit"
    /\ Fault
    /\ orphans' = orphans \cup {value[w]}
    /\ Goto(w, "answer", value[w])
    /\ UNCHANGED <<keys, records, answered>>

\* COMMIT is sent and its outcome never arrives: Record returns an error while
\* the server still has the transaction.
CommitUnknown(w) ==
    /\ pc[w] = "commit"
    /\ Fault
    /\ orphans' = orphans \cup {value[w]}
    /\ Fail(w)
    /\ UNCHANGED <<keys, records, answered>>

\* The server ends such a transaction one way or the other.
ResolveOrphan(r) ==
    /\ r \in orphans
    /\ orphans' = orphans \ {r}
    /\ Store(r) \/ UNCHANGED <<keys, records>>
    /\ UNCHANGED <<workerVars, busVars, answered, faults>>

\* The answer or the acknowledgement is lost on its way.
AnswerLost(w) ==
    /\ pc[w] = "answer"
    /\ Fault
    /\ answered' = answered \cup {<<job[w], value[w]>>}
    /\ Release(w)
    /\ UNCHANGED <<dbVars, busVars>>

\* The process of a worker stops; its connection and its transaction go with
\* it, except that a COMMIT on the wire may still reach the server.
Crash(w) ==
    /\ pc[w] # "idle"
    /\ Fault
    /\ Release(w)
    /\ \/ UNCHANGED orphans
       \/ pc[w] = "commit" /\ orphans' = orphans \cup {value[w]}
    /\ UNCHANGED <<keys, records, busVars, answered>>
-------------------------------------------------------------------------------
\* Nothing is left to do: every message is settled and every run has ended.
Quiescent ==
    /\ \A m \in Message : done[m] \/ count[m] = MaxDeliver
    /\ \A w \in Worker : pc[w] = "idle"
    /\ orphans = {}
    /\ UNCHANGED vars

Step(w) ==
    \/ Admit(w) \/ Lookup(w) \/ InsertKey(w) \/ InsertRow(w)
    \/ Commit(w) \/ Reread(w) \/ Answer(w)

Failure(w) ==
    \/ DbError(w) \/ CommitUnknown(w) \/ AnswerLost(w) \/ Crash(w)

Next ==
    \/ \E w \in Worker, m \in Message : Deliver(w, m)
    \/ \E m \in Message : RedeliverSilent(m) \/ RedeliverSlow(m)
    \/ \E w \in Worker : Step(w)
    \/ \E w \in Worker : Failure(w)
    \/ \E r \in orphans : ResolveOrphan(r)
    \/ Quiescent

Spec == Init /\ [][Next]_vars

\* Goroutines are scheduled, the bus delivers what is due and runs its
\* acknowledgement timers, and the database ends every transaction it holds.
\* Nothing is assumed of the faults.
Fairness ==
    /\ \A m \in Message : WF_vars(\E w \in Worker : Deliver(w, m))
    /\ \A m \in Message : WF_vars(RedeliverSilent(m))
    /\ \A w \in Worker : WF_vars(Step(w))
    /\ WF_vars(\E r \in orphans : ResolveOrphan(r))

FairSpec == Spec /\ Fairness
-------------------------------------------------------------------------------
\* Row r is an answer to message m: the tenant that asked, the id it chose, or
\* the content it sent when it left the id to the service.
Matches(m, r) ==
    /\ r.tenant = Req[m].tenant
    /\ Req[m].id # NoId => r.id = Req[m].id
    /\ Req[m].id = NoId => r.id \in FreshId /\ r.body = Req[m].body

\* Row r is what Record builds from the request of m.
BuiltFrom(m, r) ==
    /\ Matches(m, r)
    /\ r.body = Req[m].body
    /\ Req[m].at # NoTime => r.at = Req[m].at
-------------------------------------------------------------------------------
(* Correctness. *)

\* An id is in the key table exactly when one row has it, and no two rows share
\* it, although (id, occurred_at) would let them: whatever runs, retries and
\* commits of unknown outcome there were, an event is stored once.
OneRowPerKey ==
    /\ keys = {r.id : r \in records}
    /\ \A r, s \in records : r.id = s.id => r = s

\* What Record answered is in the database, under the tenant and the id of the
\* request: neither a lost commit nor another tenant's row is ever an answer.
AnswersAreRecorded ==
    \A a \in answered : a[2] \in records /\ Matches(a[1], a[2])

\* An event is acknowledged only once a committed row holds it, so a crash
\* between the two leaves it with the bus.
AckedIsRecorded ==
    \A m \in Message : done[m] => \E r \in records : Matches(m, r)

\* Two requests of one tenant with the same chosen id are answered with the
\* same row, also when they ran concurrently with different clocks.
ReplaysAgree ==
    \A a, b \in answered :
        /\ Req[a[1]].id \in Id
        /\ Req[a[1]].id = Req[b[1]].id
        /\ Req[a[1]].tenant = Req[b[1]].tenant
        => a[2] = b[2]

\* Every row, and every row of a transaction the server may still commit, was
\* built from a request that passed the checks of Record.
RowsAreRequested ==
    \A r \in records \cup orphans :
        \E m \in Message : Admissible(Req[m], "granted") /\ BuiltFrom(m, r)

\* At most one transaction, open or left with the server, has inserted a given
\* id, and none has inserted an id that is committed: the second insert of
\* Create can never meet a row of its id.
TransactionsExclusive ==
    /\ \A w \in Worker : pc[w] \in TxOpen =>
        /\ value[w].id \notin keys
        /\ \A r \in orphans : r.id # value[w].id
        /\ \A v \in Worker : pc[v] \in TxOpen /\ value[v].id = value[w].id => v = w
    /\ \A r \in orphans : r.id \notin keys
    /\ \A r, s \in orphans : r.id = s.id => r = s

\* What a run of Record holds at each of its statements.
RunInv ==
    \A w \in Worker :
        /\ pc[w] = "idle" <=> job[w] = NoJob
        /\ pc[w] \in {"idle", "admit"} <=> value[w] = NoRow
        /\ pc[w] \in {"lookup", "insertKey", "insertRow", "commit", "reread"} =>
             Admissible(Req[job[w]], "granted") /\ BuiltFrom(job[w], value[w])
        /\ pc[w] \in {"lookup", "reread"} => Req[job[w]].id # NoId
        /\ pc[w] = "answer" => value[w] \in records /\ Matches(job[w], value[w])

\* Run w is on its way to store a row under an id the service minted.
Minting(w) ==
    pc[w] \in {"insertKey", "insertRow", "commit"} /\ Req[job[w]].id = NoId

\* A minted id belongs to the run that minted it until it is committed.
MintedPrivate ==
    \A w \in Worker : Minting(w) =>
        /\ value[w].id \notin keys
        /\ \A r \in orphans : r.id # value[w].id
        /\ \A v \in Worker \ {w} : value[v] # NoRow => value[v].id # value[w].id

\* The inductive invariant: the safety properties together with what each run
\* holds and with the exclusion its transactions enforce.
IInv ==
    /\ TypeOK
    /\ RunInv
    /\ MintedPrivate
    /\ TransactionsExclusive
    /\ OneRowPerKey
    /\ AnswersAreRecorded
    /\ AckedIsRecorded
    /\ RowsAreRequested

\* The machinery above implements the abstract log.
Log == INSTANCE AuditLog
           WITH Answers <- {a \in Message \X Row : Matches(a[1], a[2])}

ImplementsLog == Log!Spec

\* No other request holds the id of m for a different tenant.
Unrivalled(m) ==
    \A n \in Message : Req[n].id = Req[m].id => Req[n].tenant = Req[m].tenant

\* An event that passes the checks, whoever else is recording it, is answered
\* in the end, provided fewer faults happen than the bus allows deliveries.
AdmissibleEventsRecorded ==
    \A m \in Message :
        /\ Admissible(Req[m], "refused")
        /\ Req[m].id \in Id
        /\ Unrivalled(m)
        /\ MaxFaults < MaxDeliver
        => <>done[m]

===============================================================================
