----------------------------- MODULE Idempotency ------------------------------
(***************************************************************************)
(* Idempotent execution of POST requests (IdempotencyExecution of the HTTP *)
(* transport) over the marks that the platform's idempotency manager keeps *)
(* in Redis.                                                               *)
(*                                                                         *)
(* A request first takes the mark of its key (Begin), runs the rest of the *)
(* chain, and then publishes the captured response under the mark          *)
(* (Complete or Fail).  The three steps share nothing but the mark, which  *)
(* Redis deletes when its time is over, and no step renews it.  Time is    *)
(* counted down: budget is what is left of a request's deadline and ttl    *)
(* what is left of a mark's life.                                          *)
(*                                                                         *)
(* Requests that bypass the middleware (no key, a path outside             *)
(* idempotency.http_paths, idempotency disabled) are not modelled here.    *)
(* Every handler under /api/v1 answers through OK or Fail, so the captured *)
(* response always is the unified JSON.                                    *)
(***************************************************************************)
EXTENDS Naturals

CONSTANTS
    Request,         \* the requests that can be served at one time, over all replicas
    Key,             \* idempotency keys
    Call,            \* what callers send: [key, subject, path, body]
    RequestTimeout,  \* http.request_timeout
    PersistTimeout,  \* the two seconds of persistCtx
    ProcessingTTL, ResultTTL, FailureTTL,
    Nobody           \* the owner of no mark

ASSUME IdempotencyAssumption ==
    /\ Call # {}
    /\ \A c \in Call : c.key \in Key
    /\ RequestTimeout \in Nat \ {0}
    /\ PersistTimeout \in Nat \ {0}
    /\ ProcessingTTL \in Nat \ {0}
    /\ ResultTTL \in Nat \ {0}
    /\ FailureTTL \in Nat \ {0}
    /\ Nobody \notin Request

VARIABLES
    stage,   \* where each request is
    call,    \* what it asks
    budget,  \* what is left of its deadline
    reply,   \* the answer it was given last, which is what the middleware captures
    mark     \* the mark of each key in Redis

vars == <<stage, call, budget, reply, mark>>

Status == {"ok", "fail"}

\* An answer, and the call whose execution it reports.  A refusal reports the
\* request's own call.
Reply == [kind : Status \cup {"none", "inProgress", "conflict", "unavailable", "internal"},
          origin : Call, replayed : BOOLEAN]

\* Mutant of Fingerprint: the subject is left out of the hash.
FingerprintOfInput(c) == <<c.path, c.body>>

\* Two requests are the same request when the hash of subject, method, path
\* and body agrees.  Every route is POST.
Fingerprint(c) == <<c.subject, c.path, c.body>>

\* A mark keeps the fingerprint it was taken for, and once it is published
\* the response, of which the model keeps the call it answers.
Mark == [state : {"absent", "processing", "completed", "failed"},
         owner : Request \cup {Nobody}, ttl : Nat,
         print : {Fingerprint(c) : c \in Call}, result : Call]

TypeOK ==
    /\ stage \in [Request -> {"idle", "begin", "run", "persist"}]
    /\ call \in [Request -> Call]
    /\ budget \in [Request -> Nat]
    /\ reply \in [Request -> Reply]
    /\ mark \in [Key -> Mark]

NoCall == CHOOSE c \in Call : TRUE
NoMark == [state |-> "absent", owner |-> Nobody, ttl |-> 0,
           print |-> Fingerprint(NoCall), result |-> NoCall]
NoReply(c) == [kind |-> "none", origin |-> c, replayed |-> FALSE]

Init ==
    /\ stage = [r \in Request |-> "idle"]
    /\ call = [r \in Request |-> NoCall]
    /\ budget = [r \in Request |-> 0]
    /\ reply = [r \in Request |-> NoReply(NoCall)]
    /\ mark = [k \in Key |-> NoMark]
-------------------------------------------------------------------------------
\* A request reaches the middleware.  Its deadline runs from the Timeout
\* middleware, which is before.
Arrive(r) ==
    /\ stage[r] = "idle"
    /\ \E c \in Call :
         /\ call' = [call EXCEPT ![r] = c]
         /\ reply' = [reply EXCEPT ![r] = NoReply(c)]
    /\ stage' = [stage EXCEPT ![r] = "begin"]
    /\ budget' = [budget EXCEPT ![r] = RequestTimeout]
    /\ UNCHANGED mark

Answer(r, kind, origin, replayed) ==
    /\ stage' = [stage EXCEPT ![r] = "idle"]
    /\ reply' = [reply EXCEPT ![r] = [kind |-> kind, origin |-> origin, replayed |-> replayed]]
    /\ budget' = [budget EXCEPT ![r] = 0]

\* The body cannot be read or manager.Begin fails, and with it the request.
BeginUnavailable(r) ==
    /\ stage[r] = "begin"
    /\ Answer(r, "unavailable", call[r], FALSE)
    /\ UNCHANGED <<call, mark>>

\* Mutant of Free: only a completed mark keeps others out.
FreeUnlessCompleted(k) == mark[k].state # "completed"

\* Begin finds no mark and leaves one with the request as its owner.
Free(k) == mark[k].state = "absent"

Reserve(r) ==
    /\ stage[r] = "begin"
    /\ Free(call[r].key)
    /\ mark' = [mark EXCEPT ![call[r].key] =
                  [state |-> "processing", owner |-> r, ttl |-> ProcessingTTL,
                   print |-> Fingerprint(call[r]), result |-> NoCall]]

Acquire(r) ==
    /\ Reserve(r)
    /\ stage' = [stage EXCEPT ![r] = "run"]
    /\ UNCHANGED <<call, budget, reply>>

\* Redis has taken the mark, but its answer does not arrive in time: the
\* request is refused and nobody works for the mark.
BeginLost(r) ==
    /\ Reserve(r)
    /\ Answer(r, "unavailable", call[r], FALSE)
    /\ UNCHANGED call

\* What Begin decides about a call that finds a mark.
Decision(c) ==
    LET m == mark[c.key] IN
    IF m.print # Fingerprint(c) THEN "conflict"
    ELSE IF m.state = "processing" THEN "inProgress"
    ELSE IF m.state = "completed" THEN "ok" ELSE "fail"

\* Begin finds a mark and the request is answered without the handler.
Decline(r) ==
    LET c == call[r]
        d == Decision(c) IN
    /\ stage[r] = "begin"
    /\ ~ Free(c.key)
    /\ Answer(r, d, IF d \in Status THEN mark[c.key].result ELSE c, d \in Status)
    /\ UNCHANGED <<call, mark>>

\* The handler has answered; the response goes out and is captured.
Finish(r) ==
    /\ stage[r] = "run"
    /\ \E s \in Status :
         reply' = [reply EXCEPT ![r] = [kind |-> s, origin |-> call[r], replayed |-> FALSE]]
    /\ stage' = [stage EXCEPT ![r] = "persist"]
    /\ budget' = [budget EXCEPT ![r] = PersistTimeout]
    /\ UNCHANGED <<call, mark>>

\* The handler panics: Recovery answers, and nothing after c.Next is run.
Panic(r) ==
    /\ stage[r] = "run"
    /\ Answer(r, "internal", call[r], FALSE)
    /\ UNCHANGED <<call, mark>>

\* Mutant of Owns: a result is stored without comparing owners.
OwnsAnyway(r, k) == mark[k].state # "absent"

\* Redis changes a mark only for its owner.
Owns(r, k) == mark[k].state = "processing" /\ mark[k].owner = r

Stored(r) ==
    [state |-> IF reply[r].kind = "ok" THEN "completed" ELSE "failed",
     owner |-> r,
     ttl |-> IF reply[r].kind = "ok" THEN ResultTTL ELSE FailureTTL,
     print |-> mark[call[r].key].print,
     result |-> call[r]]

\* manager.Complete or manager.Fail.  A request that is no longer the owner
\* is told so, and only logs it.
Persist(r) ==
    LET k == call[r].key IN
    /\ stage[r] = "persist"
    /\ stage' = [stage EXCEPT ![r] = "idle"]
    /\ budget' = [budget EXCEPT ![r] = 0]
    /\ \/ Owns(r, k) /\ mark' = [mark EXCEPT ![k] = Stored(r)]
       \/ ~ Owns(r, k) /\ UNCHANGED mark
    /\ UNCHANGED <<call, reply>>

\* Redis is not reached within persistCtx; the error is only logged.
PersistLost(r) ==
    /\ stage[r] = "persist"
    /\ stage' = [stage EXCEPT ![r] = "idle"]
    /\ budget' = [budget EXCEPT ![r] = 0]
    /\ UNCHANGED <<call, reply, mark>>

\* The replica that serves the request ends.
Crash(r) ==
    /\ stage[r] # "idle"
    /\ Answer(r, "none", call[r], FALSE)
    /\ UNCHANGED <<call, mark>>

\* Mutant of Aged: a mark is left in processing without an expiry.
AgedResults(m) ==
    IF m.state \in {"absent", "processing"} THEN m
    ELSE IF m.ttl > 1 THEN [m EXCEPT !.ttl = @ - 1]
    ELSE NoMark

\* A mark after one unit of time: Redis deletes it at the end of its life.
Aged(m) ==
    IF m.state = "absent" THEN m
    ELSE IF m.ttl > 1 THEN [m EXCEPT !.ttl = @ - 1]
    ELSE NoMark

\* Mutant of Tick: nothing stops at its deadline.
TickOverrun ==
    /\ budget' = [r \in Request |-> IF stage[r] = "idle" THEN 0 ELSE budget[r] - 1]
    /\ mark' = [k \in Key |-> Aged(mark[k])]
    /\ UNCHANGED <<stage, call, reply>>

\* Time passes.  Begin and the handlers stop at the deadline of the request
\* context and the publication at that of persistCtx, so none is overrun.
Tick ==
    /\ \A r \in Request : stage[r] # "idle" => budget[r] > 0
    /\ budget' = [r \in Request |-> IF stage[r] = "idle" THEN 0 ELSE budget[r] - 1]
    /\ mark' = [k \in Key |-> Aged(mark[k])]
    /\ UNCHANGED <<stage, call, reply>>

Step(r) ==
    \/ BeginUnavailable(r)
    \/ Acquire(r)
    \/ BeginLost(r)
    \/ Decline(r)
    \/ Finish(r)
    \/ Panic(r)
    \/ Persist(r)
    \/ PersistLost(r)

Next ==
    \/ \E r \in Request : Arrive(r) \/ Step(r) \/ Crash(r)
    \/ Tick

\* A request that was begun goes on, and time passes when it may.
Fairness ==
    /\ \A r \in Request : WF_vars(Step(r))
    /\ WF_vars(Tick)

Spec == Init /\ [][Next]_vars
LiveSpec == Spec /\ Fairness
-------------------------------------------------------------------------------
\* A request runs the handler under its mark.  It loses the mark only when
\* the whole life of the mark is over, never to another request before that.
WorksUnderMark ==
    \A r \in Request : stage[r] = "run" /\ ~ Owns(r, call[r].key) =>
      budget[r] + ProcessingTTL <= RequestTimeout

\* README: "concurrent execution returns 30010".  No two requests run the
\* handler for the same key at the same time.
NoOverlap ==
    \A r, s \in Request :
      stage[r] = "run" /\ stage[s] = "run" /\ call[r].key = call[s].key => r = s

\* A request that took its key still holds the mark, with enough of its life
\* left for the rest of the handler and for the publication of its result, so
\* that a published result is never refused.
LeaseOutlivesWork ==
    \A r \in Request :
      /\ stage[r] = "run" => /\ Owns(r, call[r].key)
                             /\ mark[call[r].key].ttl > budget[r] + PersistTimeout
      /\ stage[r] = "persist" => /\ Owns(r, call[r].key)
                                 /\ mark[call[r].key].ttl > budget[r]

\* A replayed answer reports an execution for the same subject, path and
\* body: no caller is given the response of another.
ReplayIsOwn ==
    \A r \in Request : reply[r].replayed =>
      /\ reply[r].origin.subject = call[r].subject
      /\ reply[r].origin.path = call[r].path
      /\ reply[r].origin.body = call[r].body

\* README: "an expired worker cannot overwrite a newer owner".  A published
\* result stays as it is until its life is over, whatever workers come late.
StoredResultIsFinal ==
    [][\A k \in Key : mark[k].state \in {"completed", "failed"} =>
         \/ mark'[k] = NoMark /\ mark[k].ttl = 1
         \/ mark'[k] = [mark[k] EXCEPT !.ttl = mark'[k].ttl] /\ mark'[k].ttl <= mark[k].ttl]_vars

\* No key stays reserved: neither a panic, nor a crash, nor a lost answer of
\* Begin, nor a lost publication keeps a key in processing for good.
KeyIsReleased ==
    \A k \in Key : \A r \in Request :
      mark[k].owner = r /\ mark[k].state = "processing" ~> mark[k].state # "processing"
===============================================================================
