---------------------------- MODULE RequestChain ------------------------------
(***************************************************************************)
(* What a request passes on its way to a handler and back: the gin         *)
(* middlewares of the HTTP server and the interceptors of the gRPC server. *)
(*                                                                         *)
(* A chain is a sequence of stages.  A stage calls the next one, or ends   *)
(* the request with an answer; then the stages already entered do what     *)
(* they do after the call, innermost first.  A panic goes back through     *)
(* them too, but skips what they do after the call until the recovery.     *)
(*                                                                         *)
(* One request is followed at a time: requests meet only in the rate       *)
(* limiter and in the policies, which are here free to answer what they    *)
(* like and to change at any moment.  Stages that only add to the context  *)
(* or to logs, metrics and headers are left out, and so is idempotency,    *)
(* which has a module of its own.                                          *)
(***************************************************************************)
EXTENDS Naturals, Sequences

CONSTANTS
    Configs,   \* configurations: [cors, limiter, failOpen, authorization, recorder, psk, deps]
    Shapes     \* requests: [kind, tracked, cred, key, origin, media]

\* What readiness depends on; deps are those that are enabled.
Dependency == {"database", "redis"}

Config == [cors : BOOLEAN, limiter : BOOLEAN, failOpen : BOOLEAN,
           authorization : BOOLEAN, recorder : BOOLEAN, psk : BOOLEAN,
           deps : SUBSET Dependency]

\* business: a route of /api/v1; live and ready: the probes; options: an OPTIONS
\* request, for which there is no route; call, health and stream: unary methods,
\* the health check and streams of gRPC.
\* tracked: a read of audit records or route policies, in the operation log.
Shape == [kind : {"business", "live", "ready", "options", "call", "health", "stream"},
          tracked : BOOLEAN,
          cred : {"none", "bearer", "psk", "invalid"},
          key : {"none", "valid", "invalid"},
          origin : {"none", "allowed", "foreign"},
          media : {"json", "other"}]

\* Only routes of /api/v1 and unary methods other than the health check have an
\* operation in the log.
ASSUME ChainAssumption ==
    /\ Configs \subseteq Config /\ Shapes \subseteq Shape
    /\ \A s \in Shapes : s.tracked => s.kind \in {"business", "call"}

VARIABLES
    cfg, shape,
    pos,      \* the stage the request is at, an index of its chain
    dir,      \* "in", on its way "out" after an answer, in "panic", or "done"
    rule,     \* what the policy snapshot now holds for the route
    subject,  \* who authentication says the caller is
    read,     \* the rule that authorization read
    reply,    \* the answer
    writes,   \* how many answers were written
    served,   \* how often the handler was entered
    late,     \* the deadline of the request has passed
    panicked, \* whether a stage panicked, and whether an answer was already written
    checks,   \* what the probes of dependencies have returned
    ready,    \* what Ready has made of the results it has received
    records   \* the entries handed to the operation log, by whether they say it succeeded

vars == <<cfg, shape, pos, dir, rule, subject, read, reply, writes, served, late, panicked,
          checks, ready, records>>

probes == <<checks, ready>>

\* A policy that permits everybody, that permits callers with an identity or
\* that refuses; no policy (ErrMissing); one whose permissions cannot be
\* decided (ErrDecisionUnavailable); one that fails with any other error.
Rules == {"public", "authenticated", "refused", "missing", "undecided", "broken"}
Refusals == {"invalid", "unsupported", "unauthorized", "forbidden", "tooMany", "unavailable",
             "notFound", "failed", "internal", "timeout"}

TypeOK ==
    /\ cfg \in Configs
    /\ shape \in Shapes
    /\ pos \in 0..12
    /\ dir \in {"in", "out", "panic", "done"}
    /\ rule \in Rules
    /\ subject \in {"anonymous", "user", "psk"}
    /\ read \in Rules \cup {"none"}
    /\ reply \in Refusals \cup {"none", "ok", "noContent", "notServing"}
    /\ writes \in 0..2
    /\ served \in 0..1
    /\ late \in BOOLEAN
    /\ panicked \in {"no", "unanswered", "answered"}
    /\ checks \in [Dependency -> {"pending", "up", "down", "disabled"}]
    /\ ready \in BOOLEAN
    /\ records \in Seq(BOOLEAN)

Grpc == shape.kind \in {"call", "health", "stream"}

\* Mutant of Business: reads are recorded inside the limit per user.
BusinessLimitFirst ==
    <<"key", "recovery", "cors", "deadline", "json", "ipLimit", "apiLimit", "authn", "authz",
      "userLimit", "access", "handler">>

\* router.Use, for every route; then the group of /api/v1.
Common == <<"key", "recovery", "cors", "deadline", "json", "handler">>
Business ==
    <<"key", "recovery", "cors", "deadline", "json", "ipLimit", "apiLimit", "authn", "authz",
      "access", "userLimit", "handler">>

\* The interceptors of the gRPC server; streams have no access log.
Unary == <<"key", "recovery", "authn", "authz", "access", "handler">>
Stream == <<"key", "recovery", "authn", "authz", "handler">>

Chain ==
    CASE shape.kind = "business" -> Business
      [] shape.kind \in {"live", "ready", "options"} -> Common
      [] shape.kind \in {"call", "health"} -> Unary
      [] OTHER -> Stream

Start(x) ==
    /\ cfg' = x
    /\ shape' \in Shapes
    /\ pos' = 1
    /\ dir' = "in"
    /\ subject' = "anonymous"
    /\ read' = "none"
    /\ reply' = "none"
    /\ writes' = 0
    /\ served' = 0
    /\ late' = FALSE
    /\ panicked' = "no"
    /\ checks' = [d \in Dependency |-> "pending"]
    /\ ready' = TRUE
    /\ records' = <<>>

Init ==
    /\ cfg \in Configs
    /\ shape \in Shapes
    /\ pos = 1
    /\ dir = "in"
    /\ rule \in Rules
    /\ subject = "anonymous"
    /\ read = "none"
    /\ reply = "none"
    /\ writes = 0
    /\ served = 0
    /\ late = FALSE
    /\ panicked = "no"
    /\ checks = [d \in Dependency |-> "pending"]
    /\ ready = TRUE
    /\ records = <<>>
-------------------------------------------------------------------------------
(* On the way in. *)

At(stage) == dir = "in" /\ Chain[pos] = stage

\* c.Next, or handler(ctx, request).
Pass ==
    /\ pos' = pos + 1
    /\ UNCHANGED <<dir, reply, writes>>

\* The stage answers and returns.
Abort(answer) ==
    /\ pos' = pos - 1
    /\ dir' = "out"
    /\ reply' = answer
    /\ writes' = writes + 1

\* A malformed idempotency key ends a request of either transport.
IdempotencyKey ==
    /\ At("key")
    /\ \/ shape.key = "invalid" /\ Abort("invalid")
       \/ shape.key # "invalid" /\ Pass
    /\ UNCHANGED <<cfg, shape, rule, subject, read, served, late, panicked, probes, records>>

\* Stages that only act when the request comes back.
Wrap ==
    /\ At("recovery") \/ At("deadline") \/ At("access")
    /\ Pass
    /\ UNCHANGED <<cfg, shape, rule, subject, read, served, late, panicked, probes, records>>

\* The preflight from an allowed origin is answered here.
Preflight == shape.origin = "allowed" /\ shape.kind = "options"

CORS ==
    /\ At("cors")
    /\ \/ cfg.cors /\ shape.origin = "foreign" /\ Abort("forbidden")
       \/ cfg.cors /\ Preflight /\ Abort("noContent")
       \/ (cfg.cors => shape.origin # "foreign" /\ ~ Preflight) /\ Pass
    /\ UNCHANGED <<cfg, shape, rule, subject, read, served, late, panicked, probes, records>>

\* Only the body of a POST is looked at.
BadMedia == shape.media = "other" /\ shape.kind # "options"

RequireJSON ==
    /\ At("json")
    /\ \/ ~ BadMedia /\ Pass
       \/ BadMedia /\ Abort("unsupported")
    /\ UNCHANGED <<cfg, shape, rule, subject, read, served, late, panicked, probes, records>>

\* The limit per user has no key for a caller without a subject.
Limited(stage) == cfg.limiter /\ (stage = "userLimit" => subject # "anonymous")

\* A limit lets the request pass or not; Redis may fail, and then fail_open decides.
RateLimit(stage) ==
    /\ At(stage)
    /\ \/ Pass
       \/ Limited(stage) /\ Abort("tooMany")
       \/ Limited(stage) /\ ~ cfg.failOpen /\ Abort("unavailable")
    /\ UNCHANGED <<cfg, shape, rule, subject, read, served, late, panicked, probes, records>>

\* A credential is optional, but one that is sent must be good.
Identity ==
    CASE shape.cred = "none" -> "anonymous"
      [] shape.cred = "bearer" -> "user"
      [] shape.cred = "psk" /\ cfg.psk -> "psk"
      [] OTHER -> "refused"

\* DatabaseAuthentication and optionalAuthInterceptor.
Authenticate ==
    /\ At("authn")
    /\ \/ Identity = "refused" /\ Abort("unauthorized") /\ UNCHANGED subject
       \/ Identity # "refused" /\ Pass /\ subject' = Identity
    /\ UNCHANGED <<cfg, shape, rule, read, served, late, panicked, probes, records>>

\* What the snapshot holds for the route of this request.  No route of the
\* health service is ever registered, and a policy needs a registered route.
RuleHere == IF shape.kind = "health" THEN "missing" ELSE rule

\* Mutant of Permits: a route without a policy is open.
PermitsMissing(r) ==
    r \in {"public", "missing"} \/ (r = "authenticated" /\ subject # "anonymous")

Permits(r) == r = "public" \/ (r = "authenticated" /\ subject # "anonymous")

\* The answer to an evaluation that is not a permission.  HTTP singles out the
\* errors it calls unavailable, gRPC the one that it calls a denial.
Verdict(r) ==
    IF Grpc THEN IF r \in {"authenticated", "refused"} THEN "forbidden" ELSE "unavailable"
    ELSE IF r \in {"missing", "undecided"} THEN "unavailable" ELSE "forbidden"

\* DatabaseAuthorization and databaseAuthorizationInterceptor: the snapshot is
\* read once, and not again before the handler.
Authorize ==
    /\ At("authz")
    /\ \/ ~ cfg.authorization /\ Pass /\ UNCHANGED read
       \/ /\ cfg.authorization
          /\ read' = RuleHere
          /\ \/ Permits(RuleHere) /\ Pass
             \/ ~ Permits(RuleHere) /\ Abort(Verdict(RuleHere))
    /\ UNCHANGED <<cfg, shape, rule, subject, served, late, panicked, probes, records>>

\* Success, or an error that is mapped to an answer.  Live has no way to fail.
HandlerAnswers == IF shape.kind = "live" THEN {"ok"} ELSE {"ok", "failed"}

\* /ready and the health check of gRPC.
Readiness == shape.kind \in {"ready", "health"}

\* The handler may come back after the deadline.
Handle ==
    /\ At("handler")
    /\ shape.kind # "options" /\ ~ Readiness
    /\ served' = served + 1
    /\ late' \in BOOLEAN
    /\ \E answer \in HandlerAnswers : Abort(answer)
    /\ UNCHANGED <<cfg, shape, rule, subject, read, panicked, probes, records>>

\* Mutant of Joined: the result that comes last decides.
JoinedLast(result) == result # "down"

\* What Ready makes of the results received so far and the next one.
Joined(result) == ready /\ result # "down"

\* The probes of both dependencies run at the same time; their results are
\* received in any order.  What is disabled counts as ready.
Probe(d) ==
    /\ At("handler")
    /\ Readiness
    /\ checks[d] = "pending"
    /\ \E result \in IF d \in cfg.deps THEN {"up", "down"} ELSE {"disabled"} :
         /\ checks' = [checks EXCEPT ![d] = result]
         /\ ready' = Joined(result)
    /\ UNCHANGED <<cfg, shape, pos, dir, rule, subject, read, reply, writes, served, late, panicked, records>>

\* The gRPC check answers that the service does not serve, which is no error.
Unready == IF Grpc THEN "notServing" ELSE "unavailable"

Ready ==
    /\ At("handler")
    /\ Readiness
    /\ \A d \in Dependency : checks[d] # "pending"
    /\ served' = served + 1
    /\ late' \in BOOLEAN
    /\ Abort(IF ready THEN "ok" ELSE Unready)
    /\ UNCHANGED <<cfg, shape, rule, subject, read, panicked, probes, records>>

\* Without a route the stages are run and nothing is written yet.
NoRoute ==
    /\ At("handler")
    /\ shape.kind = "options"
    /\ dir' = "out"
    /\ pos' = pos - 1
    /\ late' \in BOOLEAN
    /\ UNCHANGED <<cfg, shape, rule, subject, read, reply, writes, served, panicked, probes, records>>

\* The handler panics, over HTTP perhaps after it has written its answer.
HandlerPanics ==
    /\ At("handler")
    /\ shape.kind # "options"
    /\ served' = served + 1
    /\ dir' = "panic"
    /\ pos' = pos - 1
    /\ \/ panicked' = "unanswered" /\ UNCHANGED <<reply, writes>>
       \/ /\ ~ Grpc /\ ~ Readiness
          /\ panicked' = "answered"
          /\ reply' \in HandlerAnswers
          /\ writes' = writes + 1
    /\ UNCHANGED <<cfg, shape, rule, subject, read, late, probes, records>>

\* A stage inside the recovery panics before it calls the next one.
StagePanics ==
    /\ dir = "in"
    /\ Chain[pos] \notin {"key", "recovery", "handler"}
    /\ panicked' = "unanswered"
    /\ dir' = "panic"
    /\ pos' = pos - 1
    /\ UNCHANGED <<cfg, shape, rule, subject, read, reply, writes, served, late, probes, records>>
-------------------------------------------------------------------------------
(* On the way back. *)

Back(stage) == dir = "out" /\ pos > 0 /\ Chain[pos] = stage

\* AuditAccessLog and auditAccessInterceptor: an entry for a tracked operation
\* is handed to the recorder.  That it cannot be stored is only logged.
RecordAccess ==
    /\ Back("access")
    /\ records' = IF shape.tracked /\ cfg.recorder
                  THEN Append(records, reply \notin Refusals) ELSE records
    /\ pos' = pos - 1
    /\ UNCHANGED <<cfg, shape, dir, rule, subject, read, reply, writes, served, late, panicked, probes>>

\* The recorder panics.  What a gRPC handler returned is gone, what an HTTP
\* handler wrote is not.
RecorderPanics ==
    /\ Back("access")
    /\ shape.tracked /\ cfg.recorder
    /\ dir' = "panic"
    /\ pos' = pos - 1
    /\ panicked' = IF Grpc THEN "unanswered" ELSE "answered"
    /\ reply' = IF Grpc THEN "none" ELSE reply
    /\ writes' = IF Grpc THEN 0 ELSE writes
    /\ UNCHANGED <<cfg, shape, rule, subject, read, served, late, probes, records>>

\* Mutant of MissedDeadline: whether an answer was written is not looked at.
MissedDeadlineAnyway == late

\* Timeout answers only when the request is late and nothing was written.
MissedDeadline == late /\ reply = "none"

Deadline ==
    /\ Back("deadline")
    /\ reply' = IF MissedDeadline THEN "timeout" ELSE reply
    /\ writes' = IF MissedDeadline THEN writes + 1 ELSE writes
    /\ pos' = pos - 1
    /\ UNCHANGED <<cfg, shape, dir, rule, subject, read, served, late, panicked, probes, records>>

\* Stages with nothing to do after the call.
Return ==
    /\ dir = "out"
    /\ pos > 0
    /\ Chain[pos] \notin {"access", "deadline"}
    /\ pos' = pos - 1
    /\ UNCHANGED <<cfg, shape, dir, rule, subject, read, reply, writes, served, late, panicked, probes, records>>

\* Mutant of Catches: the recovery does not answer.
CatchesNothing(stage) == stage = "none"

Catches(stage) == stage = "recovery"

\* A panic unwinds to the recovery, which answers.  The status of an answer that
\* was written stays; the body of the second one is appended to it.
Unwind ==
    /\ dir = "panic"
    /\ pos > 0
    /\ ~ Catches(Chain[pos])
    /\ pos' = pos - 1
    /\ UNCHANGED <<cfg, shape, dir, rule, subject, read, reply, writes, served, late, panicked, probes, records>>

Recover ==
    /\ dir = "panic"
    /\ pos > 0
    /\ Catches(Chain[pos])
    /\ dir' = "out"
    /\ pos' = pos - 1
    /\ reply' = IF panicked = "answered" THEN reply ELSE "internal"
    /\ writes' = writes + 1
    /\ UNCHANGED <<cfg, shape, rule, subject, read, served, late, panicked, probes, records>>

\* The request is over when it has left every stage.  Gin answers the one
\* without a route that no stage has answered.
Finish ==
    /\ dir = "out"
    /\ pos = 0
    /\ dir' = "done"
    /\ reply' = IF reply = "none" THEN "notFound" ELSE reply
    /\ writes' = IF reply = "none" THEN writes + 1 ELSE writes
    /\ UNCHANGED <<cfg, shape, pos, rule, subject, read, served, late, panicked, probes, records>>

\* The next request comes.
Arrive ==
    /\ dir = "done"
    /\ Start(cfg)
    /\ UNCHANGED rule

\* Manager.Run or a writer installs another snapshot.
Reload ==
    /\ rule' \in Rules
    /\ UNCHANGED <<cfg, shape, pos, dir, subject, read, reply, writes, served, late, panicked, probes, records>>

Step ==
    \/ IdempotencyKey
    \/ Wrap
    \/ CORS
    \/ RequireJSON
    \/ RateLimit("ipLimit")
    \/ RateLimit("apiLimit")
    \/ RateLimit("userLimit")
    \/ Authenticate
    \/ Authorize
    \/ Handle
    \/ \E d \in Dependency : Probe(d)
    \/ Ready
    \/ NoRoute
    \/ HandlerPanics
    \/ StagePanics
    \/ RecordAccess
    \/ RecorderPanics
    \/ Deadline
    \/ Return
    \/ Unwind
    \/ Recover
    \/ Finish

Next == Step \/ Arrive \/ Reload

\* The goroutine of a request goes on.
Spec == Init /\ [][Next]_vars /\ WF_vars(Step)
-------------------------------------------------------------------------------
\* What a policy is for.  The health check is not: README calls it an
\* "unauthenticated standard readiness check".
Protected == shape.kind \in {"business", "call", "stream"}

\* The rule that was read permits the caller.
Granted == read = "public" \/ (read = "authenticated" /\ subject # "anonymous")

\* "uncovered routes fail closed" (server.go): with authorization enabled a
\* handler behind it runs only under a rule that permits the caller.  And
\* DatabaseAuthentication "verifies a supplied credential": a bad one is never
\* treated as none, not even where callers may be anonymous.
ServedUnderPolicy ==
    served = 1 /\ Protected =>
      /\ cfg.authorization => Granted
      /\ shape.cred # "invalid"
      /\ shape.cred = "psk" => cfg.psk

\* Every tracked operation that was permitted hands exactly one entry to the
\* operation log, which agrees with the answer, also when the limit per user
\* ends it (AuditAccessLog).  Only a panic, of the handler, of a stage or of the
\* recorder, leaves none, whether or not the operation was answered.
AccessIsRecorded ==
    dir = "done" /\ shape.tracked /\ cfg.recorder /\ (served = 1 \/ Granted) =>
      IF panicked # "no" THEN records = <<>> ELSE records = <<reply = "ok">>

\* Each request is answered, and answered once, by the handler, by the stage
\* that ended it, by the recovery, by the deadline (Timeout) or by gin.  Only
\* after a panic that follows an answer the recovery adds a second one: it does
\* not ask, as Timeout does, whether something was written (Recovery).
AnsweredOnce ==
    dir = "done" => reply # "none" /\ writes = IF panicked = "answered" THEN 2 ELSE 1

\* A readiness check says yes exactly when every enabled dependency has answered
\* the ping of this very request, in whatever order the answers came (Ready).
ReadyMeansAllUp ==
    dir = "done" /\ Readiness /\ served = 1 /\ panicked = "no" =>
      (reply = "ok" <=> \A d \in cfg.deps : checks[d] = "up")

\* Each request is over at some time, panics included.
EveryRequestEnds == dir # "done" ~> dir = "done"
===============================================================================
