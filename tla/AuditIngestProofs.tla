--------------------------- MODULE AuditIngestProofs ---------------------------
(***************************************************************************)
(* Proofs about AuditIngest, for every set of workers and messages, every  *)
(* delivery limit and every number of faults: the inductive invariant      *)
(* IInv, the safety properties it contains, and the refinement of          *)
(* AuditLog.                                                               *)
(***************************************************************************)
EXTENDS AuditIngest, TLAPS

USE ConstantsAssumption

-------------------------------------------------------------------------------
(* The operators of Record. *)

\* The row Record builds from an admissible request is well-typed and is built
\* from that request, whatever the clock says.
LEMMA RowOfBuilt ==
    ASSUME NEW m \in Message, NEW i \in AnyId, NEW now \in Time,
           IF Req[m].id = NoId THEN i \in FreshId ELSE i = Req[m].id
    PROVE  /\ RowOf(Req[m], i, now) \in Row
           /\ RowOf(Req[m], i, now).id = i
           /\ BuiltFrom(m, RowOf(Req[m], i, now))
  <1>1. Req[m] \in Request
    OBVIOUS
  <1>2. Req[m].tenant \in AnyTenant /\ Req[m].body \in Body /\ Req[m].at \in Time \cup {NoTime}
    BY <1>1 DEF Request
  <1>3. RowOf(Req[m], i, now) \in Row
    BY <1>2 DEF RowOf, Row
  <1>4. QED
    BY <1>2, <1>3 DEF RowOf, BuiltFrom, Matches

\* A favourable verdict never turns an admissible request away.
LEMMA GrantedAdmits ==
    ASSUME NEW q \in Request, NEW verdict, Admissible(q, verdict)
    PROVE  Admissible(q, "granted") /\ q.id \in Id \cup {NoId}
  BY DEF Admissible, Request

-------------------------------------------------------------------------------
(* Facts used by several actions. *)

\* A step that touches neither the database nor what callers were told keeps
\* the properties about them.
LEMMA QuietStep ==
    ASSUME IInv, UNCHANGED <<keys, records, orphans, done, answered>>
    PROVE  /\ OneRowPerKey'
           /\ AnswersAreRecorded'
           /\ AckedIsRecorded'
           /\ RowsAreRequested'
  BY DEF IInv, OneRowPerKey, AnswersAreRecorded, AckedIsRecorded, RowsAreRequested

\* A worker that is released, with or without leaving its transaction to the
\* server, keeps the invariants about runs and transactions.
LEMMA ReleaseStep ==
    ASSUME IInv, NEW w \in Worker, Release(w), UNCHANGED <<keys, records>>,
           \/ UNCHANGED orphans
           \/ pc[w] = "commit" /\ orphans' = orphans \cup {value[w]}
    PROVE  RunInv' /\ MintedPrivate' /\ TransactionsExclusive'
  <1>1. /\ \A u \in Worker \ {w} : pc'[u] = pc[u] /\ value'[u] = value[u] /\ job'[u] = job[u]
        /\ pc'[w] = "idle" /\ value'[w] = NoRow /\ job'[w] = NoJob
    BY DEF IInv, TypeOK, Release
  <1>2. RunInv'
    BY <1>1 DEF IInv, RunInv
  <1>3. pc[w] = "commit" => value[w] # NoRow
    BY DEF IInv, RunInv
  <1>4. MintedPrivate'
    BY <1>1, <1>3 DEF IInv, MintedPrivate, Minting
  <1>5. TransactionsExclusive'
    BY <1>1 DEF IInv, TransactionsExclusive, TxOpen
  <1>6. QED
    BY <1>2, <1>4, <1>5

\* A run that moves on with a row fit for its next statement keeps the
\* invariants about runs, minted ids and transactions.
LEMMA GotoStep ==
    ASSUME IInv, NEW w \in Worker, NEW label \in PC \ {"idle", "admit"}, NEW v \in Row,
           pc[w] # "idle", Goto(w, label, v), UNCHANGED dbVars,
           label # "answer" =>
             Admissible(Req[job[w]], "granted") /\ BuiltFrom(job[w], v),
           label \in {"lookup", "reread"} => Req[job[w]].id # NoId,
           label = "answer" => v \in records /\ Matches(job[w], v),
           label \in {"insertKey", "insertRow", "commit"} /\ Req[job[w]].id = NoId =>
             /\ v.id \notin keys
             /\ \A r \in orphans : r.id # v.id
             /\ \A u \in Worker \ {w} : value[u] # NoRow => value[u].id # v.id,
           \A u \in Worker \ {w} : Minting(u) => value[u].id # v.id,
           label \in TxOpen =>
             /\ v.id \notin keys
             /\ \A r \in orphans : r.id # v.id
             /\ \A u \in Worker \ {w} : pc[u] \in TxOpen => value[u].id # v.id
    PROVE  /\ pc' \in [Worker -> PC] /\ value' \in [Worker -> Row \cup {NoRow}]
           /\ RunInv' /\ MintedPrivate' /\ TransactionsExclusive'
  <1>1. pc' \in [Worker -> PC] /\ value' \in [Worker -> Row \cup {NoRow}]
    BY DEF IInv, TypeOK, Goto
  <1>2. /\ \A u \in Worker \ {w} : pc'[u] = pc[u] /\ value'[u] = value[u]
        /\ pc'[w] = label /\ value'[w] = v
        /\ job' = job /\ keys' = keys /\ records' = records /\ orphans' = orphans
    BY DEF IInv, TypeOK, Goto, dbVars
  <1>3. label \in {"lookup", "insertKey", "insertRow", "commit", "reread", "answer"}
    BY DEF PC
  <1>4. RunInv'
    BY <1>2, <1>3 DEF IInv, RunInv
  <1>5. MintedPrivate'
    BY <1>2, <1>3 DEF IInv, MintedPrivate, Minting
  <1>6. TransactionsExclusive'
    BY <1>2 DEF IInv, TransactionsExclusive
  <1>7. QED
    BY <1>1, <1>4, <1>5, <1>6

\* What a committed row does to the database: the key table and the rows stay
\* in step as long as the id is new.
LEMMA StoreStep ==
    ASSUME IInv, NEW r \in Row, r.id \notin keys, Store(r),
           \E m \in Message : Admissible(Req[m], "granted") /\ BuiltFrom(m, r),
           orphans' \subseteq orphans, UNCHANGED <<done, answered>>
    PROVE  /\ keys' \subseteq AnyId /\ records' \subseteq Row
           /\ OneRowPerKey'
           /\ AnswersAreRecorded'
           /\ AckedIsRecorded'
           /\ RowsAreRequested'
  <1>1. keys' \subseteq AnyId /\ records' \subseteq Row
    BY DEF IInv, TypeOK, Store, Row
  <1>2. OneRowPerKey'
    BY DEF IInv, OneRowPerKey, Store
  <1>3. AnswersAreRecorded' /\ AckedIsRecorded'
    BY DEF IInv, AnswersAreRecorded, AckedIsRecorded, Store
  <1>4. RowsAreRequested'
    BY DEF IInv, RowsAreRequested, Store
  <1>5. QED
    BY <1>1, <1>2, <1>3, <1>4

-------------------------------------------------------------------------------
(* The inductive invariant. *)

\* The empty database satisfies the invariant.
LEMMA InitIInv == Init => IInv
  <1> SUFFICES ASSUME Init PROVE IInv
    OBVIOUS
  <1>1. TypeOK
    BY DEF Init, TypeOK, PC
  <1>2. RunInv /\ MintedPrivate /\ TransactionsExclusive
    BY DEF Init, RunInv, MintedPrivate, Minting, TransactionsExclusive, TxOpen
  <1>3. OneRowPerKey /\ AnswersAreRecorded /\ AckedIsRecorded /\ RowsAreRequested
    BY DEF Init, OneRowPerKey, AnswersAreRecorded, AckedIsRecorded, RowsAreRequested
  <1>4. QED
    BY <1>1, <1>2, <1>3 DEF IInv

\* Starting a run of Record changes no row.
LEMMA DeliverKeeps ==
    ASSUME IInv, NEW w \in Worker, NEW m \in Message, Deliver(w, m)
    PROVE  IInv'
  <1>1. TypeOK'
    BY DEF IInv, TypeOK, Deliver, dbVars, PC
  <1>2. RunInv'
    BY DEF IInv, TypeOK, RunInv, Deliver, dbVars
  <1>3. MintedPrivate' /\ TransactionsExclusive'
    BY DEF IInv, TypeOK, MintedPrivate, Minting, TransactionsExclusive, Deliver, dbVars, TxOpen
  <1>4. QED
    BY <1>1, <1>2, <1>3, QuietStep DEF IInv, Deliver, dbVars

\* Making a message due again, also while it still runs, changes no row.
LEMMA RedeliverKeeps ==
    ASSUME IInv, NEW m \in Message, RedeliverSilent(m) \/ RedeliverSlow(m)
    PROVE  IInv'
  <1>1. Redeliver(m) /\ UNCHANGED <<dbVars, workerVars, count, done, answered>>
    BY DEF RedeliverSilent, RedeliverSlow, Redeliver
  <1>2. due' \in [Message -> BOOLEAN]
    BY <1>1 DEF IInv, TypeOK, Redeliver
  <1>3. faults' \in 0..MaxFaults
    BY DEF IInv, TypeOK, RedeliverSilent, RedeliverSlow, Fault
  <1>4. TypeOK'
    BY <1>1, <1>2, <1>3 DEF IInv, TypeOK, dbVars, workerVars
  <1>5. RunInv' /\ MintedPrivate' /\ TransactionsExclusive'
    BY <1>1 DEF IInv, RunInv, MintedPrivate, Minting, TransactionsExclusive, dbVars, workerVars
  <1>6. QED
    BY <1>1, <1>4, <1>5, QuietStep DEF IInv, dbVars

\* Every error return of Record, whatever the fault counter does.
LEMMA FailKeeps ==
    ASSUME IInv, NEW w \in Worker, pc[w] # "idle", Fail(w),
           UNCHANGED <<dbVars, answered>>, faults' \in 0..MaxFaults
    PROVE  IInv'
  <1>1. TypeOK'
    BY DEF IInv, TypeOK, RunInv, Fail, Release, dbVars, PC
  <1>2. RunInv' /\ MintedPrivate' /\ TransactionsExclusive'
    BY ReleaseStep DEF Fail, dbVars
  <1>3. QED
    BY <1>1, <1>2, QuietStep DEF IInv, Fail, dbVars

\* A move to another statement that leaves the database alone: the invariant
\* holds again if the invariants about runs and transactions do.
LEMMA MoveKeeps ==
    ASSUME IInv, NEW w \in Worker, NEW label, NEW v, Goto(w, label, v),
           UNCHANGED <<dbVars, answered, faults>>,
           pc' \in [Worker -> PC], value' \in [Worker -> Row \cup {NoRow}],
           RunInv', MintedPrivate', TransactionsExclusive'
    PROVE  IInv'
  <1>1. TypeOK'
    BY DEF IInv, TypeOK, Goto, busVars, dbVars
  <1>2. QED
    BY <1>1, QuietStep DEF IInv, Goto, busVars, dbVars

\* The checks in front of the first statement, and the row they build.
LEMMA AdmitKeeps ==
    ASSUME IInv, NEW w \in Worker, Admit(w)
    PROVE  IInv'
  <1> DEFINE q == Req[job[w]]
  <1>1. pc[w] = "admit" /\ UNCHANGED <<dbVars, answered, faults>>
    BY DEF Admit
  <1>2. job[w] \in Message /\ q \in Request
    BY <1>1 DEF IInv, TypeOK, RunInv
  <1>3. PICK verdict \in {"granted", "refused"} :
          \/ ~Admissible(q, verdict) /\ Fail(w)
          \/ /\ Admissible(q, verdict)
             /\ \E now \in Time :
                  \/ q.id # NoId /\ Goto(w, "lookup", RowOf(q, q.id, now))
                  \/ /\ q.id = NoId
                     /\ \E i \in UnusedIds : Goto(w, "insertKey", RowOf(q, i, now))
    BY DEF Admit
  <1>4. CASE Fail(w)
    BY <1>1, <1>4, FailKeeps DEF IInv, TypeOK
  <1>5. ASSUME NEW now \in Time, Admissible(q, verdict), q.id # NoId,
               Goto(w, "lookup", RowOf(q, q.id, now))
        PROVE  IInv'
    <2>1. q.id \in Id /\ Admissible(q, "granted")
      BY <1>2, <1>5, GrantedAdmits
    <2>2. /\ RowOf(q, q.id, now) \in Row /\ BuiltFrom(job[w], RowOf(q, q.id, now))
          /\ RowOf(q, q.id, now).id = q.id
      BY <1>2, <1>5, <2>1, RowOfBuilt DEF AnyId
    <2>3. \A u \in Worker \ {w} : Minting(u) => value[u].id # q.id
      BY <2>1 DEF IInv, RunInv, Minting, BuiltFrom, Matches
    <2>4. /\ pc' \in [Worker -> PC] /\ value' \in [Worker -> Row \cup {NoRow}]
          /\ RunInv' /\ MintedPrivate' /\ TransactionsExclusive'
      BY <1>1, <1>5, <2>1, <2>2, <2>3, GotoStep DEF PC, TxOpen
    <2>5. QED
      BY <1>1, <1>5, <2>4, MoveKeeps
  <1>6. ASSUME NEW now \in Time, NEW i \in UnusedIds, Admissible(q, verdict), q.id = NoId,
               Goto(w, "insertKey", RowOf(q, i, now))
        PROVE  IInv'
    <2>1. Admissible(q, "granted")
      BY <1>2, <1>6, GrantedAdmits
    <2>2. /\ i \in FreshId /\ i \notin keys
          /\ \A r \in orphans : r.id # i
          /\ \A u \in Worker : value[u] # NoRow => value[u].id # i
      BY DEF UnusedIds
    <2>3. /\ RowOf(q, i, now) \in Row /\ BuiltFrom(job[w], RowOf(q, i, now))
          /\ RowOf(q, i, now).id = i
      BY <1>2, <1>6, <2>2, RowOfBuilt DEF AnyId
    <2>4. \A u \in Worker \ {w} : Minting(u) => value[u].id # i
      BY <2>2 DEF IInv, RunInv, Minting
    <2>5. /\ pc' \in [Worker -> PC] /\ value' \in [Worker -> Row \cup {NoRow}]
          /\ RunInv' /\ MintedPrivate' /\ TransactionsExclusive'
      BY <1>1, <1>6, <2>1, <2>2, <2>3, <2>4, GotoStep DEF PC, TxOpen
    <2>6. QED
      BY <1>1, <1>6, <2>5, MoveKeeps
  <1>7. QED
    BY <1>3, <1>4, <1>5, <1>6

\* What Lookup and Reread share: the run ends with the row it found.
LEMMA FoundKeeps ==
    ASSUME IInv, NEW w \in Worker, pc[w] \in {"lookup", "reread"},
           NEW x \in Found(value[w]), Goto(w, "answer", x),
           UNCHANGED <<dbVars, answered, faults>>
    PROVE  IInv'
  <1>1. /\ x \in records /\ x \in Row
        /\ x.id = value[w].id /\ x.tenant = value[w].tenant
    BY DEF Found, IInv, TypeOK
  <1>2. BuiltFrom(job[w], value[w]) /\ Req[job[w]].id # NoId /\ value[w] # NoRow
    BY DEF IInv, RunInv
  <1>3. Matches(job[w], x)
    BY <1>1, <1>2 DEF BuiltFrom, Matches
  <1>4. \A u \in Worker \ {w} : Minting(u) => value[u].id # x.id
    BY <1>1, <1>2 DEF IInv, MintedPrivate
  <1>5. /\ pc' \in [Worker -> PC] /\ value' \in [Worker -> Row \cup {NoRow}]
        /\ RunInv' /\ MintedPrivate' /\ TransactionsExclusive'
    BY <1>1, <1>3, <1>4, GotoStep DEF PC, TxOpen
  <1>6. QED
    BY <1>5, MoveKeeps

\* A run that goes on from one statement to the next with the row it built.
LEMMA SameRowKeeps ==
    ASSUME IInv, NEW w \in Worker, UNCHANGED <<dbVars, answered, faults>>,
           NEW label \in {"insertKey", "insertRow", "commit", "reread"},
           pc[w] \in {"lookup", "insertKey", "insertRow"}, Goto(w, label, value[w]),
           label = "insertKey" \/ label = "reread" => Req[job[w]].id # NoId,
           label \in TxOpen =>
             /\ value[w].id \notin keys
             /\ \A r \in orphans : r.id # value[w].id
             /\ \A u \in Worker \ {w} : pc[u] \in TxOpen => value[u].id # value[w].id
    PROVE  IInv'
  <1>1. /\ value[w] # NoRow /\ value[w] \in Row
        /\ Admissible(Req[job[w]], "granted") /\ BuiltFrom(job[w], value[w])
    BY DEF IInv, TypeOK, RunInv
  <1>2. \A u \in Worker \ {w} : Minting(u) => value[u].id # value[w].id
    BY <1>1 DEF IInv, MintedPrivate
  <1>3. Req[job[w]].id = NoId => Minting(w)
    BY DEF IInv, RunInv, Minting
  <1>4. /\ pc' \in [Worker -> PC] /\ value' \in [Worker -> Row \cup {NoRow}]
        /\ RunInv' /\ MintedPrivate' /\ TransactionsExclusive'
    BY <1>1, <1>2, <1>3, GotoStep DEF PC, IInv, MintedPrivate, TxOpen
  <1>5. QED
    BY <1>4, MoveKeeps

\* The lookup in front of the transaction.
LEMMA LookupKeeps ==
    ASSUME IInv, NEW w \in Worker, Lookup(w)
    PROVE  IInv'
  <1>1. pc[w] = "lookup" /\ Req[job[w]].id # NoId /\ UNCHANGED <<dbVars, answered, faults>>
    BY DEF Lookup, IInv, RunInv
  <1>2. CASE Goto(w, "insertKey", value[w])
    BY <1>1, <1>2, SameRowKeeps DEF TxOpen
  <1>3. QED
    BY <1>1, <1>2, FoundKeeps DEF Lookup

\* The insert into the key table: it waits for, or loses against, any other
\* transaction with the id.
LEMMA InsertKeyKeeps ==
    ASSUME IInv, NEW w \in Worker, InsertKey(w)
    PROVE  IInv'
  <1>1. pc[w] = "insertKey" /\ ~Locked(value[w].id) /\ UNCHANGED <<dbVars, answered, faults>>
    BY DEF InsertKey
  <1>2. CASE value[w].id \in keys /\ Goto(w, "reread", value[w])
    <2>1. Req[job[w]].id # NoId
      BY <1>1, <1>2 DEF IInv, MintedPrivate, Minting
    <2>2. QED
      BY <1>1, <1>2, <2>1, SameRowKeeps DEF TxOpen
  <1>3. CASE value[w].id \notin keys /\ Goto(w, "insertRow", value[w])
    BY <1>1, <1>3, SameRowKeeps DEF Locked
  <1>4. QED
    BY <1>2, <1>3 DEF InsertKey

\* The insert of the row, still uncommitted.
LEMMA InsertRowKeeps ==
    ASSUME IInv, NEW w \in Worker, InsertRow(w)
    PROVE  IInv'
  <1>1. /\ pc[w] = "insertRow" /\ Goto(w, "commit", value[w])
        /\ UNCHANGED <<dbVars, answered, faults>>
    BY DEF InsertRow
  <1>2. /\ value[w].id \notin keys
        /\ \A r \in orphans : r.id # value[w].id
        /\ \A u \in Worker \ {w} : pc[u] \in TxOpen => value[u].id # value[w].id
    BY <1>1 DEF IInv, TransactionsExclusive, TxOpen
  <1>3. QED
    BY <1>1, <1>2, SameRowKeeps

\* A commit publishes an id nobody else has.
LEMMA CommitKeeps ==
    ASSUME IInv, NEW w \in Worker, Commit(w)
    PROVE  IInv'
  <1> DEFINE r == value[w]
  <1>1. /\ pc[w] = "commit" /\ Store(r) /\ Goto(w, "answer", r)
        /\ UNCHANGED <<orphans, answered, faults>>
    BY DEF Commit
  <1>2. /\ job[w] \in Message /\ r \in Row /\ r # NoRow
        /\ Admissible(Req[job[w]], "granted") /\ BuiltFrom(job[w], r)
    BY <1>1 DEF IInv, TypeOK, RunInv
  <1>3. /\ r.id \notin keys
        /\ \A x \in orphans : x.id # r.id
        /\ \A u \in Worker \ {w} : pc[u] \in TxOpen => value[u].id # r.id
    BY <1>1 DEF IInv, TransactionsExclusive, TxOpen
  <1>4. /\ keys' \subseteq AnyId /\ records' \subseteq Row /\ OneRowPerKey'
        /\ AnswersAreRecorded' /\ AckedIsRecorded' /\ RowsAreRequested'
    BY <1>1, <1>2, <1>3, StoreStep DEF Goto, busVars
  <1>5. /\ \A u \in Worker \ {w} : pc'[u] = pc[u] /\ value'[u] = value[u]
        /\ pc'[w] = "answer" /\ value'[w] = r
        /\ job' = job /\ keys' = keys \cup {r.id} /\ records' = records \cup {r}
    BY <1>1 DEF IInv, TypeOK, Goto, Store
  <1>6. TypeOK'
    BY <1>1, <1>2, <1>4 DEF IInv, TypeOK, Goto, busVars, PC
  <1>7. RunInv'
    BY <1>2, <1>5 DEF IInv, RunInv, BuiltFrom
  <1>8. MintedPrivate'
    BY <1>1, <1>2, <1>5 DEF IInv, MintedPrivate, Minting
  <1>9. TransactionsExclusive'
    BY <1>1, <1>3, <1>5 DEF IInv, TransactionsExclusive, TxOpen
  <1>10. QED
    BY <1>4, <1>6, <1>7, <1>8, <1>9 DEF IInv

\* The lookup after ErrDuplicate.
LEMMA RereadKeeps ==
    ASSUME IInv, NEW w \in Worker, Reread(w)
    PROVE  IInv'
  <1>1. pc[w] = "reread" /\ UNCHANGED <<dbVars, answered, faults>>
    BY DEF Reread
  <1>2. CASE Fail(w)
    BY <1>1, <1>2, FailKeeps DEF IInv, TypeOK
  <1>3. QED
    BY <1>1, <1>2, FoundKeeps DEF Reread

\* A run returns its row, whether or not the answer arrives.
LEMMA ReturnKeeps ==
    ASSUME IInv, NEW w \in Worker, pc[w] = "answer", Release(w),
           answered' = answered \cup {<<job[w], value[w]>>},
           UNCHANGED <<dbVars, count>>, due' \in [Message -> BOOLEAN],
           done' \in [Message -> BOOLEAN], faults' \in 0..MaxFaults,
           \A m \in Message \ {job[w]} : done'[m] = done[m]
    PROVE  IInv'
  <1>1. job[w] \in Message /\ value[w] \in records /\ Matches(job[w], value[w])
    BY DEF IInv, TypeOK, RunInv
  <1>2. answered' \subseteq Message \X Row
    BY <1>1 DEF IInv, TypeOK
  <1>3. TypeOK'
    BY <1>2 DEF IInv, TypeOK, Release, dbVars, PC
  <1>4. RunInv' /\ MintedPrivate' /\ TransactionsExclusive'
    BY ReleaseStep DEF dbVars
  <1>5. OneRowPerKey' /\ RowsAreRequested'
    BY DEF IInv, OneRowPerKey, RowsAreRequested, dbVars
  <1>6. AnswersAreRecorded'
    BY <1>1 DEF IInv, AnswersAreRecorded, dbVars
  <1>7. AckedIsRecorded'
    BY <1>1 DEF IInv, AckedIsRecorded, dbVars
  <1>8. QED
    BY <1>3, <1>4, <1>5, <1>6, <1>7 DEF IInv

\* An answer that arrives.
LEMMA AnswerKeeps ==
    ASSUME IInv, NEW w \in Worker, Answer(w)
    PROVE  IInv'
  <1>1. due' \in [Message -> BOOLEAN] /\ done' \in [Message -> BOOLEAN]
    BY DEF IInv, TypeOK, Answer
  <1>2. \A m \in Message \ {job[w]} : done'[m] = done[m]
    BY DEF IInv, TypeOK, Answer
  <1>3. QED
    BY <1>1, <1>2, ReturnKeeps DEF IInv, TypeOK, Answer

\* An answer that is lost.
LEMMA AnswerLostKeeps ==
    ASSUME IInv, NEW w \in Worker, AnswerLost(w)
    PROVE  IInv'
  <1>1. faults' \in 0..MaxFaults
    BY DEF IInv, TypeOK, AnswerLost, Fault
  <1>2. QED
    BY <1>1, ReturnKeeps DEF IInv, TypeOK, AnswerLost, busVars

\* A failed statement.
LEMMA DbErrorKeeps ==
    ASSUME IInv, NEW w \in Worker, DbError(w)
    PROVE  IInv'
  <1>1. faults' \in 0..MaxFaults
    BY DEF IInv, TypeOK, DbError, Fault
  <1>2. QED
    BY <1>1, FailKeeps DEF DbError

\* A run that stops and may leave its transaction to the server, without an
\* answer: CommitUnknown and Crash.
LEMMA AbandonKeeps ==
    ASSUME IInv, NEW w \in Worker, pc[w] # "idle", Release(w), Fault,
           UNCHANGED <<keys, records, count, done, answered>>,
           due' \in [Message -> BOOLEAN],
           \/ UNCHANGED orphans
           \/ pc[w] = "commit" /\ orphans' = orphans \cup {value[w]}
    PROVE  IInv'
  <1>1. pc[w] = "commit" =>
          /\ job[w] \in Message /\ value[w] \in Row
          /\ Admissible(Req[job[w]], "granted") /\ BuiltFrom(job[w], value[w])
    BY DEF IInv, TypeOK, RunInv
  <1>2. orphans' \subseteq Row
    BY <1>1 DEF IInv, TypeOK
  <1>3. faults' \in 0..MaxFaults
    BY DEF IInv, TypeOK, Fault
  <1>4. TypeOK'
    BY <1>2, <1>3 DEF IInv, TypeOK, Release, PC
  <1>5. RunInv' /\ MintedPrivate' /\ TransactionsExclusive'
    BY ReleaseStep
  <1>6. OneRowPerKey' /\ AnswersAreRecorded' /\ AckedIsRecorded'
    BY DEF IInv, OneRowPerKey, AnswersAreRecorded, AckedIsRecorded
  <1>7. RowsAreRequested'
    BY <1>1 DEF IInv, RowsAreRequested
  <1>8. QED
    BY <1>4, <1>5, <1>6, <1>7 DEF IInv

\* A commit without an outcome.
LEMMA CommitUnknownKeeps ==
    ASSUME IInv, NEW w \in Worker, CommitUnknown(w)
    PROVE  IInv'
  <1>1. due' \in [Message -> BOOLEAN]
    BY DEF IInv, TypeOK, CommitUnknown, Fail
  <1>2. QED
    BY <1>1, AbandonKeeps DEF CommitUnknown, Fail

\* A process that stops.
LEMMA CrashKeeps ==
    ASSUME IInv, NEW w \in Worker, Crash(w)
    PROVE  IInv'
  BY AbandonKeeps DEF IInv, TypeOK, Crash, busVars

\* The server ends a transaction of unknown outcome.
LEMMA ResolveOrphanKeeps ==
    ASSUME IInv, NEW r \in orphans, ResolveOrphan(r)
    PROVE  IInv'
  <1>1. /\ orphans' = orphans \ {r} /\ r \in Row /\ r.id \notin keys
        /\ UNCHANGED <<workerVars, busVars, answered, faults>>
        /\ \E m \in Message : Admissible(Req[m], "granted") /\ BuiltFrom(m, r)
    BY DEF ResolveOrphan, IInv, TypeOK, TransactionsExclusive, RowsAreRequested
  <1>2. CASE UNCHANGED <<keys, records>>
    <2>1. TypeOK' /\ RunInv' /\ MintedPrivate' /\ TransactionsExclusive'
      BY <1>1, <1>2 DEF IInv, TypeOK, RunInv, MintedPrivate, Minting, TransactionsExclusive,
                        workerVars, busVars
    <2>2. OneRowPerKey' /\ AnswersAreRecorded' /\ AckedIsRecorded' /\ RowsAreRequested'
      BY <1>1, <1>2 DEF IInv, OneRowPerKey, AnswersAreRecorded, AckedIsRecorded,
                        RowsAreRequested, busVars
    <2>3. QED
      BY <2>1, <2>2 DEF IInv
  <1>3. CASE Store(r)
    <2>1. /\ keys' \subseteq AnyId /\ records' \subseteq Row /\ OneRowPerKey'
          /\ AnswersAreRecorded' /\ AckedIsRecorded' /\ RowsAreRequested'
      BY <1>1, <1>3, StoreStep DEF busVars
    <2>2. keys' = keys \cup {r.id} /\ records' = records \cup {r}
      BY <1>3 DEF Store
    <2>3. TypeOK' /\ RunInv'
      BY <1>1, <2>1, <2>2 DEF IInv, TypeOK, RunInv, workerVars, busVars
    <2>4. MintedPrivate' /\ TransactionsExclusive'
      BY <1>1, <2>2 DEF IInv, MintedPrivate, Minting, TransactionsExclusive, workerVars
    <2>5. QED
      BY <2>1, <2>3, <2>4 DEF IInv
  <1>4. QED
    BY <1>2, <1>3 DEF ResolveOrphan

\* Every step of the service keeps the invariant.
LEMMA NextKeepsIInv == IInv /\ [Next]_vars => IInv'
  <1> SUFFICES ASSUME IInv, [Next]_vars PROVE IInv'
    OBVIOUS
  <1>1. ASSUME NEW w \in Worker, Step(w) PROVE IInv'
    BY <1>1, AdmitKeeps, LookupKeeps, InsertKeyKeeps, InsertRowKeeps, CommitKeeps,
       RereadKeeps, AnswerKeeps DEF Step
  <1>2. ASSUME NEW w \in Worker, Failure(w) PROVE IInv'
    BY <1>2, DbErrorKeeps, CommitUnknownKeeps, AnswerLostKeeps, CrashKeeps DEF Failure
  <1>3. CASE UNCHANGED vars
    BY <1>3 DEF vars, IInv, TypeOK, RunInv, MintedPrivate, Minting, TransactionsExclusive,
                OneRowPerKey, AnswersAreRecorded, AckedIsRecorded, RowsAreRequested
  <1>4. QED
    BY <1>1, <1>2, <1>3, DeliverKeeps, RedeliverKeeps, ResolveOrphanKeeps DEF Next, Quiescent

\* The inductive invariant holds in every reachable state of the service.
THEOREM InvariantHolds == Spec => []IInv
  BY InitIInv, NextKeepsIInv, PTL DEF Spec

-------------------------------------------------------------------------------
(* What follows from it. *)

\* Every variable of the service keeps its type.
THEOREM TypeCorrect == Spec => []TypeOK
  BY InvariantHolds, PTL DEF IInv

\* However often a request is delivered, whichever runs race and whichever
\* commits stay without an outcome, an id is stored at most once, and the key
\* table and the rows agree.
THEOREM StoredOnce == Spec => []OneRowPerKey
  BY InvariantHolds, PTL DEF IInv

\* No two transactions on the same id are ever open at once, so the second
\* insert of Create cannot meet another row of its id.
THEOREM InsertsExclusive == Spec => []TransactionsExclusive
  BY InvariantHolds, PTL DEF IInv

\* Record only ever answers with a committed row of the right tenant and id.
THEOREM AnswersDurable == Spec => []AnswersAreRecorded
  BY InvariantHolds, PTL DEF IInv

\* The consumer never acknowledges an event that is not in the database.
THEOREM AcknowledgedDurable == Spec => []AckedIsRecorded
  BY InvariantHolds, PTL DEF IInv

\* Every stored row comes from a request that passed the checks of Record.
THEOREM OnlyRequestedRows == Spec => []RowsAreRequested
  BY InvariantHolds, PTL DEF IInv

\* Requests of one tenant with one id are all answered with the same row.
THEOREM ReplaysReturnOneRow == Spec => []ReplaysAgree
  <1>1. IInv => ReplaysAgree
    <2> SUFFICES ASSUME IInv, NEW a \in answered, NEW b \in answered,
                        Req[a[1]].id \in Id, Req[a[1]].id = Req[b[1]].id
                 PROVE  a[2] = b[2]
      BY DEF ReplaysAgree
    <2>1. /\ a[2] \in records /\ Matches(a[1], a[2])
          /\ b[2] \in records /\ Matches(b[1], b[2])
      BY DEF IInv, AnswersAreRecorded
    <2>2. a[2].id = b[2].id
      BY <2>1 DEF Matches, AnyId
    <2>3. QED
      BY <2>1, <2>2 DEF IInv, OneRowPerKey
  <1>2. QED
    BY <1>1, InvariantHolds, PTL

-------------------------------------------------------------------------------
(* Refinement of AuditLog. *)

\* A commit is the append of a row with a new id.
LEMMA StoreAppends ==
    ASSUME IInv, NEW r \in Row, r.id \notin keys, Store(r), UNCHANGED answered
    PROVE  Log!Next
  <1>1. Log!Append(r)
    BY DEF IInv, OneRowPerKey, Store, Log!Append
  <1>2. QED
    BY <1>1 DEF Log!Next

\* A return of Record is a reply with a row of the log.
LEMMA ReturnReplies ==
    ASSUME IInv, NEW w \in Worker, pc[w] = "answer", UNCHANGED records,
           answered' = answered \cup {<<job[w], value[w]>>}
    PROVE  Log!Next
  <1>1. /\ job[w] \in Message /\ value[w] \in records /\ value[w] \in Row
        /\ Matches(job[w], value[w])
    BY DEF IInv, TypeOK, RunInv
  <1>2. Log!Reply(job[w], value[w])
    BY <1>1 DEF Log!Reply
  <1>3. QED
    BY <1>1, <1>2 DEF Log!Next

\* Each step of the service is a step of the abstract log or leaves it alone.
LEMMA NextRefines == IInv /\ [Next]_vars => [Log!Next]_(Log!vars)
  <1> SUFFICES ASSUME IInv, [Next]_vars
               PROVE  Log!Next \/ UNCHANGED <<records, answered>>
    BY DEF Log!vars
  <1>1. ASSUME NEW w \in Worker, Commit(w) PROVE Log!Next
    <2>1. value[w] \in Row /\ value[w].id \notin keys
      BY <1>1 DEF Commit, IInv, TypeOK, RunInv, TransactionsExclusive, TxOpen
    <2>2. QED
      BY <1>1, <2>1, StoreAppends DEF Commit
  <1>2. ASSUME NEW w \in Worker, Answer(w) \/ AnswerLost(w) PROVE Log!Next
    BY <1>2, ReturnReplies DEF Answer, AnswerLost, dbVars
  <1>3. ASSUME NEW r \in orphans, ResolveOrphan(r)
        PROVE  Log!Next \/ UNCHANGED <<records, answered>>
    <2>1. r \in Row /\ r.id \notin keys
      BY DEF IInv, TypeOK, TransactionsExclusive
    <2>2. QED
      BY <1>3, <2>1, StoreAppends DEF ResolveOrphan
  <1>4. ASSUME NEW w \in Worker, Step(w)
        PROVE  Log!Next \/ UNCHANGED <<records, answered>>
    BY <1>1, <1>2, <1>4 DEF Step, Admit, Lookup, InsertKey, InsertRow, Reread, dbVars
  <1>5. ASSUME NEW w \in Worker, Failure(w)
        PROVE  Log!Next \/ UNCHANGED <<records, answered>>
    BY <1>2, <1>5 DEF Failure, DbError, CommitUnknown, Crash, dbVars
  <1>6. CASE \E w \in Worker, m \in Message : Deliver(w, m)
    BY <1>6 DEF Deliver, dbVars
  <1>7. CASE \E m \in Message : RedeliverSilent(m) \/ RedeliverSlow(m)
    BY <1>7 DEF RedeliverSilent, RedeliverSlow, Redeliver, dbVars
  <1>8. CASE Quiescent \/ UNCHANGED vars
    BY <1>8 DEF Quiescent, vars
  <1>9. QED
    BY <1>3, <1>4, <1>5, <1>6, <1>7, <1>8 DEF Next

\* Delivery, retries, races, crashes and unknown commits together implement a
\* log that only grows, holds an id once, and answers from what it holds.
THEOREM Refinement == Spec => ImplementsLog
  <1>1. Init => Log!Init
    BY DEF Init, Log!Init
  <1>2. QED
    BY <1>1, NextRefines, InvariantHolds, PTL DEF Spec, ImplementsLog, Log!Spec

===============================================================================
