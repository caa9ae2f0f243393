-------------------------- MODULE RequestChainProofs ---------------------------
(***************************************************************************)
(* Proofs about RequestChain, for every set of configurations and requests.*)
(*                                                                         *)
(* The properties speak of a request that is served or over; what carries  *)
(* them is what a request has behind it at each place of its chain         *)
(* (Screened, Logging), that nothing is answered on the way in (Entering,  *)
(* Answering), and how far a panic is from the recovery (Panicking).       *)
(***************************************************************************)
EXTENDS RequestChain, TLAPS

USE ChainAssumption

\* The requests whose chain authenticates and authorizes.
Guarded == shape.kind \in {"business", "call", "health", "stream"}

\* Where the stages are.
Last == IF shape.kind = "business" THEN 12 ELSE IF shape.kind = "stream" THEN 5 ELSE 6
AuthnAt == IF Grpc THEN 3 ELSE 8
AuthzAt == AuthnAt + 1
AccessAt == AuthnAt + 2
Logged == shape.kind \in {"business", "call", "health"}

\* The place of each stage in the chain of a request.
LEMMA Places ==
    ASSUME shape \in Shapes
    PROVE  /\ Len(Chain) = Last
           /\ \A i \in 1..Last :
                /\ Chain[i] = "key" <=> i = 1
                /\ Chain[i] = "recovery" <=> i = 2
                /\ Chain[i] = "deadline" <=> ~ Grpc /\ i = 4
                /\ Chain[i] = "authn" <=> Guarded /\ i = AuthnAt
                /\ Chain[i] = "authz" <=> Guarded /\ i = AuthzAt
                /\ Chain[i] = "access" <=> Logged /\ i = AccessAt
                /\ Chain[i] = "handler" <=> i = Last
  <1>1. CASE shape.kind = "business"
    BY <1>1 DEF Chain, Business, Last, Grpc, Guarded, Logged, AuthnAt, AuthzAt, AccessAt
  <1>2. CASE shape.kind \in {"live", "ready", "options"}
    BY <1>2 DEF Chain, Common, Last, Grpc, Guarded, Logged, AuthnAt, AuthzAt, AccessAt
  <1>3. CASE shape.kind \in {"call", "health"}
    BY <1>3 DEF Chain, Unary, Last, Grpc, Guarded, Logged, AuthnAt, AuthzAt, AccessAt
  <1>4. CASE shape.kind = "stream"
    BY <1>4 DEF Chain, Stream, Last, Grpc, Guarded, Logged, AuthnAt, AuthzAt, AccessAt
  <1>5. QED
    BY <1>1, <1>2, <1>3, <1>4 DEF Shape
-------------------------------------------------------------------------------
(* The inductive invariant. *)

\* A request on its way in has no answer, no handler and no log entry yet.
Entering ==
    dir = "in" =>
      /\ pos \in 1..Last
      /\ served = 0 /\ writes = 0 /\ reply = "none" /\ records = <<>>
      /\ panicked = "no" /\ ~ late

\* What a request has shown once it is behind a stage: its credential is good
\* behind authentication, and a rule that permits it was read behind
\* authorization, but none before.
Good == shape.cred # "invalid" /\ (shape.cred = "psk" => cfg.psk)

Screened ==
    /\ Guarded /\ (served = 1 \/ (dir = "in" /\ pos > AuthnAt)) => Good
    /\ Guarded /\ (served = 1 \/ (dir = "in" /\ pos > AuthzAt)) => (cfg.authorization => Granted)
    /\ dir = "in" /\ (~ Guarded \/ pos <= AuthzAt) => read = "none"

\* The answers of a request that has left the recovery behind.
Answers == IF panicked = "answered" THEN 2 ELSE 1

\* On its way out it has its answers, unless it is an OPTIONS request, which may
\* have none until gin answers it.
Answering ==
    /\ dir = "out" => /\ pos \in 0..Last - 1
                      /\ \/ writes = Answers /\ reply # "none"
                         \/ /\ writes = 0 /\ reply = "none"
                            /\ shape.kind = "options" /\ panicked = "no"
    /\ dir = "done" => writes = Answers /\ reply # "none"
    /\ reply = "noContent" => shape.kind = "options"
    /\ reply = "notServing" => shape.kind = "health"

\* A panic is on its way to the recovery; afterwards nothing but the first stage
\* is left to return through.
Panicking ==
    /\ dir = "panic" => /\ pos \in 2..Last - 1
                        /\ panicked # "no"
                        /\ panicked = "unanswered" => writes = 0 /\ reply = "none"
                        /\ panicked = "answered" => writes = 1 /\ reply # "none"
    /\ panicked # "no" => records = <<>>
    /\ panicked # "no" /\ dir = "out" => pos <= 1

\* The entry of a permitted operation is made on the way out, in the access log,
\* and none before.
Logging ==
    /\ dir = "out" /\ Logged /\ pos >= AccessAt => records = <<>>
    /\ shape.tracked /\ cfg.recorder /\ (served = 1 \/ Granted) /\ panicked = "no" =>
         /\ dir = "out" /\ pos < AccessAt => records = <<reply = "ok">>
         /\ dir = "done" => records = <<reply = "ok">>

\* The results of the probes, and what was made of them.
Probing ==
    /\ ready <=> \A d \in Dependency : checks[d] # "down"
    /\ \A d \in Dependency : /\ checks[d] \in {"up", "down"} => d \in cfg.deps
                             /\ checks[d] = "disabled" => d \notin cfg.deps
    /\ Readiness /\ served = 1 /\ panicked = "no" /\ dir \in {"out", "done"} =>
         /\ \A d \in Dependency : checks[d] # "pending"
         /\ reply = IF ready THEN "ok" ELSE Unready

IInv ==
    TypeOK /\ Entering /\ Screened /\ Answering /\ Panicking /\ Logging /\ Probing

LEMMA ShapeFacts ==
    ASSUME TypeOK
    PROVE  /\ shape \in Shape /\ cfg \in Config
           /\ shape.tracked => shape.kind \in {"business", "call"}
           /\ Last \in {5, 6, 12} /\ AuthnAt \in {3, 8}
           /\ AuthzAt = AuthnAt + 1 /\ AccessAt = AuthnAt + 2
           /\ Guarded => AuthzAt < Last
           /\ Logged => AccessAt < Last /\ Guarded
           /\ shape.tracked => Logged /\ Guarded
  BY DEF TypeOK, Last, AuthnAt, AuthzAt, AccessAt, Grpc, Guarded, Logged, Shape

\* What depends on the request alone does not change while it is served.
LEMMA SameRequest ==
    ASSUME UNCHANGED <<cfg, shape>>
    PROVE  /\ UNCHANGED <<Chain, Last, AuthnAt, AuthzAt, AccessAt>>
           /\ UNCHANGED <<Logged, Guarded, Good, Readiness, Grpc, Unready>>
  BY DEF Chain, Last, AuthnAt, AuthzAt, AccessAt, Logged, Guarded, Good, Readiness, Grpc, Unready

\* A stage that passes the request on, and is not one of those that decide.
LEMMA PassKeeps ==
    ASSUME IInv, dir = "in", pos < Last, Pass,
           Guarded => pos # AuthnAt /\ pos # AuthzAt,
           UNCHANGED <<cfg, shape, rule, subject, read, served, late, panicked, probes, records>>
    PROVE  IInv'
  <1>0. /\ UNCHANGED <<Chain, Last, AuthnAt, AuthzAt, AccessAt>>
        /\ UNCHANGED <<Logged, Guarded, Good, Readiness, Grpc, Unready>>
    BY SameRequest
  <1>1. pos \in 1..Last /\ Last \in {5, 6, 12} /\ pos' = pos + 1 /\ dir' = "in"
    BY ShapeFacts DEF IInv, Entering, Pass
  <1>2. AuthnAt \in {3, 8} /\ AuthzAt = AuthnAt + 1
    BY ShapeFacts DEF IInv
  <1>3. TypeOK'
    BY <1>1 DEF IInv, TypeOK, Pass, probes
  <1>4. Entering'
    BY <1>0, <1>1 DEF IInv, Entering, Pass
  <1>5. Granted' = Granted
    BY DEF Granted
  <1>6. Screened'
    BY <1>0, <1>1, <1>2, <1>5 DEF IInv, Screened, Entering, Pass
  <1>7. Answering' /\ Panicking' /\ Logging'
    BY <1>0, <1>1, <1>4 DEF IInv, Answering, Answers, Panicking, Logging, Entering, Pass
  <1>8. Probing'
    BY <1>0, <1>1 DEF IInv, Probing, Entering, Pass, probes
  <1>9. QED
    BY <1>3, <1>4, <1>6, <1>7, <1>8 DEF IInv

\* A stage before the handler that ends the request, and has not permitted it
\* unless the access log is behind.
LEMMA AbortKeeps ==
    ASSUME IInv, dir = "in", pos < Last, NEW answer \in Refusals \cup {"noContent"}, Abort(answer),
           answer = "noContent" => shape.kind = "options",
           UNCHANGED <<cfg, shape, rule, subject, served, late, panicked, probes, records>>,
           read' \in Rules \cup {"none"},
           Granted' => Granted /\ (Logged => pos # AccessAt)
    PROVE  IInv'
  <1>0. /\ UNCHANGED <<Chain, Last, AuthnAt, AuthzAt, AccessAt>>
        /\ UNCHANGED <<Logged, Guarded, Good, Readiness, Grpc, Unready>>
    BY SameRequest
  <1>1. /\ pos \in 1..Last /\ Last \in {5, 6, 12} /\ pos' = pos - 1 /\ dir' = "out"
        /\ reply' = answer /\ writes' = 1 /\ served' = 0 /\ records' = <<>> /\ panicked' = "no"
    BY ShapeFacts DEF IInv, Entering, Abort
  <1>2. AuthnAt \in {3, 8} /\ AuthzAt = AuthnAt + 1 /\ AccessAt = AuthnAt + 2
        /\ (shape.tracked => Logged)
    BY ShapeFacts DEF IInv
  <1>3. TypeOK'
    BY <1>1 DEF IInv, TypeOK, Abort, probes
  <1>4. Entering' /\ Screened' /\ Panicking'
    BY <1>1 DEF IInv, Entering, Screened, Panicking
  <1>5. answer # "none" /\ answer # "notServing"
    BY DEF Refusals
  <1>6. Answering'
    BY <1>0, <1>1, <1>5 DEF Answering, Answers
  <1>7. Granted' /\ Guarded /\ Logged => pos > AccessAt
    BY <1>1, <1>2 DEF IInv, Screened, Granted
  <1>8. Logging'
    BY <1>0, <1>1, <1>2, <1>7, ShapeFacts DEF IInv, Logging
  <1>9. Probing'
    BY <1>0, <1>1 DEF IInv, Probing, probes
  <1>10. QED
    BY <1>3, <1>4, <1>6, <1>8, <1>9 DEF IInv

\* The stage a request is at, by its position.
LEMMA HereIs ==
    ASSUME IInv, dir = "in"
    PROVE  /\ At("handler") <=> pos = Last
           /\ At("authn") <=> Guarded /\ pos = AuthnAt
           /\ At("authz") <=> Guarded /\ pos = AuthzAt
           /\ At("access") <=> Logged /\ pos = AccessAt
  BY Places DEF IInv, Entering, TypeOK, At

\* The same for a stage that neither decides nor handles.
LEMMA StageIsPlain ==
    ASSUME IInv, NEW stage, At(stage), stage \notin {"handler", "authn", "authz"}
    PROVE  /\ dir = "in" /\ pos < Last
           /\ Guarded => pos # AuthnAt /\ pos # AuthzAt
           /\ stage # "access" /\ Logged => pos # AccessAt
  <1>1. dir = "in" /\ pos \in 1..Last /\ Last \in {5, 6, 12} /\ Chain[pos] = stage
    BY ShapeFacts DEF IInv, Entering, At
  <1>2. /\ Chain[pos] = "handler" <=> pos = Last
        /\ Chain[pos] = "authn" <=> Guarded /\ pos = AuthnAt
        /\ Chain[pos] = "authz" <=> Guarded /\ pos = AuthzAt
        /\ Chain[pos] = "access" <=> Logged /\ pos = AccessAt
    BY <1>1, Places DEF IInv, TypeOK
  <1>3. QED
    BY <1>1, <1>2

\* Such a stage keeps the invariant whether it passes or answers.
LEMMA PlainKeeps ==
    ASSUME IInv, NEW stage, At(stage), stage \notin {"handler", "authn", "authz"},
           NEW answer \in Refusals \cup {"noContent"},
           Pass \/ (stage # "access" /\ Abort(answer)),
           answer = "noContent" => shape.kind = "options",
           UNCHANGED <<cfg, shape, rule, subject, read, served, late, panicked, probes, records>>
    PROVE  IInv'
  <1>1. /\ dir = "in" /\ pos < Last
        /\ Guarded => pos # AuthnAt /\ pos # AuthzAt
        /\ stage # "access" /\ Logged => pos # AccessAt
    BY StageIsPlain
  <1>2. CASE Pass
    BY <1>1, <1>2, PassKeeps
  <1>3. CASE stage # "access" /\ Abort(answer)
    <2>1. read' \in Rules \cup {"none"} /\ Granted' = Granted
      BY DEF IInv, TypeOK, Granted
    <2>2. QED
      BY <1>1, <1>3, <2>1, AbortKeeps
  <1>4. QED
    BY <1>2, <1>3

LEMMA ScreensKeep ==
    ASSUME IInv, IdempotencyKey \/ Wrap \/ CORS \/ RequireJSON
    PROVE  IInv'
  <1>0. {"invalid", "forbidden", "unsupported"} \subseteq Refusals
    BY DEF Refusals
  <1>1. CASE IdempotencyKey
    BY <1>0, <1>1, PlainKeeps DEF IdempotencyKey
  <1>2. CASE Wrap
    BY <1>0, <1>2, PlainKeeps DEF Wrap
  <1>3. CASE CORS
    <2>1. CASE Abort("noContent") /\ Preflight
      BY <1>3, <2>1, PlainKeeps DEF CORS, Preflight
    <2>2. CASE Pass \/ Abort("forbidden")
      BY <1>0, <1>3, <2>2, PlainKeeps DEF CORS
    <2>3. QED
      BY <1>3, <2>1, <2>2 DEF CORS
  <1>4. CASE RequireJSON
    BY <1>0, <1>4, PlainKeeps DEF RequireJSON
  <1>5. QED
    BY <1>1, <1>2, <1>3, <1>4

LEMMA RateLimitKeeps ==
    ASSUME IInv, NEW stage \in {"ipLimit", "apiLimit", "userLimit"}, RateLimit(stage)
    PROVE  IInv'
  <1>0. {"tooMany", "unavailable"} \subseteq Refusals
    BY DEF Refusals
  <1>1. CASE Pass \/ Abort("tooMany")
    BY <1>0, <1>1, PlainKeeps DEF RateLimit
  <1>2. CASE Abort("unavailable")
    BY <1>0, <1>2, PlainKeeps DEF RateLimit
  <1>3. QED
    BY <1>1, <1>2 DEF RateLimit

\* Behind authentication the credential is good.
LEMMA AuthenticateKeeps ==
    ASSUME IInv, Authenticate
    PROVE  IInv'
  <1>0. /\ UNCHANGED <<Chain, Last, AuthnAt, AuthzAt, AccessAt>>
        /\ UNCHANGED <<Logged, Guarded, Good, Readiness, Grpc, Unready>>
    BY SameRequest DEF Authenticate
  <1>1. dir = "in" /\ Guarded /\ pos = AuthnAt
    BY HereIs DEF Authenticate, At
  <1>2. /\ AuthnAt \in {3, 8} /\ AuthzAt = AuthnAt + 1 /\ AccessAt = AuthnAt + 2
        /\ AuthzAt < Last /\ Last \in {5, 6, 12} /\ shape \in Shape /\ cfg \in Config
    BY <1>1, ShapeFacts DEF IInv
  <1>3. read = "none" /\ read' = "none" /\ ~ Granted /\ ~ Granted'
    BY <1>1, <1>2 DEF IInv, Screened, Granted, Authenticate
  <1>4. CASE Abort("unauthorized") /\ UNCHANGED subject
    <2>1. "unauthorized" \in Refusals
      BY DEF Refusals
    <2>2. QED
      BY <1>1, <1>2, <1>3, <1>4, <2>1, AbortKeeps DEF Authenticate
  <1>5. CASE Identity # "refused" /\ Pass /\ subject' = Identity
    <2>1. Good /\ Identity \in {"anonymous", "user", "psk"}
      BY <1>2, <1>5 DEF Identity, Good, Shape, Config
    <2>2. pos' = pos + 1 /\ dir' = "in" /\ UNCHANGED <<reply, writes>>
      BY <1>1, <1>5 DEF Pass
    <2>3. TypeOK'
      BY <1>1, <1>2, <1>5, <2>1, <2>2 DEF IInv, TypeOK, Authenticate, probes
    <2>4. Entering'
      BY <1>0, <1>1, <1>2, <2>2 DEF IInv, Entering, Authenticate
    <2>5. Screened'
      BY <1>0, <1>1, <1>2, <1>3, <2>1, <2>2, <2>4 DEF Screened, Entering
    <2>6. Answering' /\ Panicking' /\ Logging'
      BY <1>0, <1>1, <2>2, <2>4 DEF IInv, Answering, Answers, Panicking, Logging, Entering, Authenticate
    <2>7. Probing'
      BY <1>0, <1>1, <2>2 DEF IInv, Probing, Entering, Authenticate, probes
    <2>8. QED
      BY <2>3, <2>4, <2>5, <2>6, <2>7 DEF IInv
  <1>6. QED
    BY <1>4, <1>5 DEF Authenticate

\* Behind authorization a rule that permits the caller was read, and whoever is
\* turned away was not permitted by the rule that was read.
LEMMA AuthorizeKeeps ==
    ASSUME IInv, Authorize
    PROVE  IInv'
  <1>0. /\ UNCHANGED <<Chain, Last, AuthnAt, AuthzAt, AccessAt>>
        /\ UNCHANGED <<Logged, Guarded, Good, Readiness, Grpc, Unready>>
    BY SameRequest DEF Authorize
  <1>1. dir = "in" /\ Guarded /\ pos = AuthzAt
    BY HereIs DEF Authorize, At
  <1>2. /\ AuthnAt \in {3, 8} /\ AuthzAt = AuthnAt + 1 /\ AccessAt = AuthnAt + 2
        /\ AuthzAt < Last /\ Last \in {5, 6, 12}
    BY <1>1, ShapeFacts DEF IInv
  <1>3. RuleHere \in Rules
    BY DEF RuleHere, Rules, IInv, TypeOK
  <1>4. CASE cfg.authorization /\ read' = RuleHere /\ ~ Permits(RuleHere) /\ Abort(Verdict(RuleHere))
    <2>1. Verdict(RuleHere) \in Refusals /\ Verdict(RuleHere) # "noContent"
      BY DEF Verdict, Refusals
    <2>2. ~ Granted'
      BY <1>4 DEF Granted, Permits, Authorize
    <2>3. QED
      BY <1>1, <1>2, <1>3, <1>4, <2>1, <2>2, AbortKeeps DEF Authorize
  <1>5. CASE Pass /\ (cfg.authorization => read' = RuleHere /\ Permits(RuleHere))
                  /\ (~ cfg.authorization => read' = read)
    <2>1. cfg.authorization => Granted'
      BY <1>5 DEF Granted, Permits, Authorize
    <2>2. pos' = pos + 1 /\ dir' = "in" /\ UNCHANGED <<reply, writes>>
      BY <1>1, <1>5 DEF Pass
    <2>3. TypeOK'
      BY <1>1, <1>2, <1>3, <1>5, <2>2 DEF IInv, TypeOK, Authorize, probes
    <2>4. Entering'
      BY <1>0, <1>1, <1>2, <2>2 DEF IInv, Entering, Authorize
    <2>5. Good /\ cfg' = cfg
      BY <1>1, <1>2 DEF IInv, Screened, Authorize
    <2>6. Screened'
      BY <1>0, <1>1, <1>2, <2>1, <2>2, <2>4, <2>5 DEF Screened, Entering
    <2>7. Answering' /\ Panicking' /\ Logging'
      BY <1>0, <1>1, <2>2, <2>4 DEF IInv, Answering, Answers, Panicking, Logging, Entering, Authorize
    <2>8. Probing'
      BY <1>0, <1>1, <2>2 DEF IInv, Probing, Entering, Authorize, probes
    <2>9. QED
      BY <2>3, <2>4, <2>6, <2>7, <2>8 DEF IInv
  <1>6. QED
    BY <1>4, <1>5 DEF Authorize

\* The handler answers: everything before it was passed.
LEMMA AnswerKeeps ==
    ASSUME IInv, At("handler"), shape.kind # "options",
           NEW answer \in {"ok", "failed", "unavailable", "notServing"}, Abort(answer),
           answer = "notServing" => shape.kind = "health",
           Readiness => /\ \A d \in Dependency : checks[d] # "pending"
                        /\ answer = IF ready THEN "ok" ELSE Unready,
           served' = served + 1, late' \in BOOLEAN,
           UNCHANGED <<cfg, shape, rule, subject, read, panicked, probes, records>>
    PROVE  IInv'
  <1>0. /\ UNCHANGED <<Chain, Last, AuthnAt, AuthzAt, AccessAt>>
        /\ UNCHANGED <<Logged, Guarded, Good, Readiness, Grpc, Unready>>
    BY SameRequest
  <1>1. dir = "in" /\ pos = Last
    BY HereIs DEF At
  <1>2. /\ Last \in {5, 6, 12} /\ AuthnAt \in {3, 8}
        /\ AuthzAt = AuthnAt + 1 /\ AccessAt = AuthnAt + 2
        /\ Guarded => AuthzAt < Last
        /\ shape.tracked => AccessAt < Last
    BY ShapeFacts DEF IInv
  <1>3. /\ pos' = pos - 1 /\ dir' = "out" /\ reply' = answer /\ writes' = 1 /\ served' = 1
        /\ records' = <<>> /\ panicked' = "no"
    BY <1>1 DEF IInv, Entering, Abort
  <1>4. answer \in Refusals \cup {"ok", "notServing"}
    BY DEF Refusals
  <1>5. TypeOK'
    BY <1>1, <1>2, <1>3, <1>4 DEF IInv, TypeOK, probes
  <1>6. Granted' = Granted
    BY DEF Granted
  <1>7. Entering' /\ Screened'
    BY <1>0, <1>1, <1>2, <1>3, <1>6 DEF IInv, Entering, Screened
  <1>8. Answering' /\ Panicking'
    BY <1>0, <1>1, <1>2, <1>3 DEF Answering, Answers, Panicking
  <1>9. Logging'
    BY <1>0, <1>1, <1>2, <1>3 DEF Logging
  <1>10. Probing'
    BY <1>0, <1>1, <1>3 DEF IInv, Probing, probes
  <1>11. QED
    BY <1>5, <1>7, <1>8, <1>9, <1>10 DEF IInv

LEMMA HandleKeeps ==
    ASSUME IInv, Handle
    PROVE  IInv'
  <1>1. PICK answer \in HandlerAnswers : Abort(answer)
    BY DEF Handle
  <1>2. answer \in {"ok", "failed"}
    BY DEF HandlerAnswers
  <1>3. QED
    BY <1>1, <1>2, AnswerKeeps DEF Handle

LEMMA ReadyKeeps ==
    ASSUME IInv, Ready
    PROVE  IInv'
  <1> DEFINE answer == IF ready THEN "ok" ELSE Unready
  <1>1. answer \in {"ok", "unavailable", "notServing"} /\ (answer = "notServing" => shape.kind = "health")
        /\ shape.kind # "options"
    BY DEF Unready, Grpc, Ready, Readiness
  <1>2. Abort(answer)
    BY DEF Ready
  <1>3. QED
    BY <1>1, <1>2, AnswerKeeps DEF Ready

\* A result of a probe is joined to those received before.
LEMMA ProbeKeeps ==
    ASSUME IInv, NEW d \in Dependency, Probe(d)
    PROVE  IInv'
  <1>0. /\ UNCHANGED <<Chain, Last, AuthnAt, AuthzAt, AccessAt>>
        /\ UNCHANGED <<Logged, Guarded, Good, Readiness, Grpc, Unready>>
    BY SameRequest DEF Probe
  <1>1. PICK result \in IF d \in cfg.deps THEN {"up", "down"} ELSE {"disabled"} :
          /\ checks' = [checks EXCEPT ![d] = result]
          /\ ready' = Joined(result)
    BY DEF Probe
  <1>2. dir = "in" /\ dir' = "in" /\ checks[d] = "pending" /\ served' = 0
    BY DEF IInv, Entering, Probe, At
  <1>3. \A e \in Dependency : checks'[e] = IF e = d THEN result ELSE checks[e]
    BY <1>1 DEF IInv, TypeOK
  <1>4. TypeOK'
    BY <1>1 DEF IInv, TypeOK, Probe, Joined
  <1>5. ready' <=> \A e \in Dependency : checks'[e] # "down"
    BY <1>1, <1>2, <1>3 DEF IInv, Probing, Joined
  <1>6. Probing'
    BY <1>0, <1>1, <1>2, <1>3, <1>5 DEF IInv, Probing, Probe
  <1>7. Granted' = Granted
    BY DEF Granted, Probe
  <1>8. Entering' /\ Screened' /\ Answering' /\ Panicking' /\ Logging'
    BY <1>0, <1>2, <1>7 DEF IInv, Entering, Screened, Answering, Panicking, Logging, Probe
  <1>9. QED
    BY <1>4, <1>6, <1>8 DEF IInv

LEMMA NoRouteKeeps ==
    ASSUME IInv, NoRoute
    PROVE  IInv'
  <1>0. /\ UNCHANGED <<Chain, Last, AuthnAt, AuthzAt, AccessAt>>
        /\ UNCHANGED <<Logged, Guarded, Good, Readiness, Grpc, Unready>>
    BY SameRequest DEF NoRoute
  <1>1. dir = "in" /\ pos = Last /\ shape.kind = "options"
    BY HereIs DEF NoRoute, At
  <1>2. Last \in {5, 6, 12} /\ ~ shape.tracked
    BY <1>1, ShapeFacts DEF IInv
  <1>3. dir' = "out" /\ pos' = pos - 1 /\ served' = 0 /\ panicked' = "no" /\ records' = <<>>
        /\ reply' = "none" /\ writes' = 0
    BY <1>1 DEF IInv, Entering, NoRoute
  <1>4. TypeOK'
    BY <1>1, <1>2, <1>3 DEF IInv, TypeOK, NoRoute, probes
  <1>5. Entering' /\ Screened' /\ Panicking' /\ Logging'
    BY <1>2, <1>3 DEF Entering, Screened, Panicking, Logging, NoRoute
  <1>6. Answering'
    BY <1>0, <1>1, <1>2, <1>3 DEF Answering, NoRoute
  <1>7. Probing'
    BY <1>0, <1>3 DEF IInv, Probing, NoRoute, probes
  <1>8. QED
    BY <1>4, <1>5, <1>6, <1>7 DEF IInv

\* A panic begins, in the handler, in a stage before it or in the recorder; the
\* answer of HTTP, if there is one, stays.
LEMMA PanicKeeps ==
    ASSUME IInv, dir \in {"in", "out"}, pos \in 3..Last, records = <<>>,
           dir' = "panic", pos' = pos - 1,
           \/ panicked' = "unanswered" /\ writes' = 0 /\ reply' = "none"
           \/ /\ panicked' = "answered" /\ writes' = 1
              /\ reply' \in Refusals \cup {"ok", "noContent", "notServing"}
              /\ reply' = "noContent" => shape.kind = "options"
              /\ reply' = "notServing" => shape.kind = "health",
           \/ UNCHANGED served
           \/ served' = 1 /\ dir = "in" /\ pos = Last,
           UNCHANGED <<cfg, shape, rule, subject, read, late, probes, records>>
    PROVE  IInv'
  <1>0. /\ UNCHANGED <<Chain, Last, AuthnAt, AuthzAt, AccessAt>>
        /\ UNCHANGED <<Logged, Guarded, Good, Readiness, Grpc, Unready>>
    BY SameRequest
  <1>1. /\ Last \in {5, 6, 12} /\ AuthnAt \in {3, 8} /\ AuthzAt = AuthnAt + 1
        /\ Guarded => AuthzAt < Last
    BY ShapeFacts DEF IInv
  <1>2. reply' # "none" \/ panicked' = "unanswered"
    BY DEF Refusals
  <1>3. TypeOK'
    BY <1>1 DEF IInv, TypeOK, probes
  <1>4. Granted' = Granted
    BY DEF Granted
  <1>5. Entering' /\ Screened'
    BY <1>0, <1>1, <1>4 DEF IInv, Entering, Screened
  <1>6. Answering' /\ Panicking' /\ Logging'
    BY <1>0, <1>1, <1>2 DEF Answering, Panicking, Logging
  <1>7. Probing'
    BY <1>0 DEF IInv, Probing, probes
  <1>8. QED
    BY <1>3, <1>5, <1>6, <1>7 DEF IInv

LEMMA HandlerPanicsKeeps ==
    ASSUME IInv, HandlerPanics
    PROVE  IInv'
  <1>1. dir = "in" /\ pos = Last
    BY HereIs DEF HandlerPanics, At
  <1>2. pos \in 3..Last
    BY <1>1, ShapeFacts DEF IInv
  <1>3. records = <<>> /\ served' = 1 /\ writes = 0 /\ reply = "none"
    BY <1>1 DEF IInv, Entering, HandlerPanics
  <1>4. HandlerAnswers \subseteq Refusals \cup {"ok"} /\ "noContent" \notin HandlerAnswers
        /\ "notServing" \notin HandlerAnswers
    BY DEF HandlerAnswers, Refusals
  <1>5. \/ panicked' = "unanswered" /\ writes' = 0 /\ reply' = "none"
        \/ panicked' = "answered" /\ writes' = 1 /\ reply' \in HandlerAnswers
    BY <1>3 DEF HandlerPanics
  <1>6. QED
    BY <1>1, <1>2, <1>3, <1>4, <1>5, PanicKeeps DEF HandlerPanics

LEMMA StagePanicsKeeps ==
    ASSUME IInv, StagePanics
    PROVE  IInv'
  <1>1. dir = "in" /\ pos \in 1..Last /\ Last \in {5, 6, 12}
    BY ShapeFacts DEF IInv, Entering, StagePanics
  <1>2. /\ Chain[pos] = "key" <=> pos = 1
        /\ Chain[pos] = "recovery" <=> pos = 2
    BY <1>1, Places DEF IInv, TypeOK
  <1>3. pos \in 3..Last
    BY <1>1, <1>2 DEF StagePanics
  <1>4. records = <<>> /\ writes = 0 /\ reply = "none"
    BY <1>1 DEF IInv, Entering
  <1>5. QED
    BY <1>1, <1>3, <1>4, PanicKeeps DEF StagePanics

\* One step back through a stage that changes nothing but where the request is,
\* and is not the access log.
LEMMA BackKeeps ==
    ASSUME IInv, dir = "out", pos > 0, pos' = pos - 1, Logged => pos # AccessAt,
           UNCHANGED <<cfg, shape, dir, rule, subject, read, served, late, panicked, probes, records>>,
           \/ UNCHANGED <<reply, writes>>
           \/ reply = "none" /\ reply' = "timeout" /\ writes' = writes + 1
    PROVE  IInv'
  <1>0. /\ UNCHANGED <<Chain, Last, AuthnAt, AuthzAt, AccessAt>>
        /\ UNCHANGED <<Logged, Guarded, Good, Readiness, Grpc, Unready>>
    BY SameRequest
  <1>1. /\ pos \in 0..Last - 1 /\ Last \in {5, 6, 12} /\ AuthnAt \in {3, 8} /\ AccessAt = AuthnAt + 2
        /\ shape.tracked => Logged
        /\ shape.tracked => shape.kind \in {"business", "call"}
    BY ShapeFacts DEF IInv, Answering
  <1>2. \/ writes = Answers /\ reply # "none"
        \/ /\ writes = 0 /\ reply = "none"
           /\ shape.kind = "options" /\ panicked = "no"
    BY DEF IInv, Answering
  <1>3. Granted' = Granted
    BY DEF Granted
  <1>4. "timeout" \in Refusals
    BY DEF Refusals
  <1>5. TypeOK'
    BY <1>1, <1>2, <1>4 DEF IInv, TypeOK, Answers, probes
  <1>6. Entering' /\ Screened' /\ Panicking'
    BY <1>0, <1>1, <1>3 DEF IInv, Entering, Screened, Panicking
  <1>7. Answering'
    BY <1>0, <1>1, <1>2 DEF IInv, Answering, Answers
  <1>8. shape.tracked => UNCHANGED reply
    BY <1>1, <1>2
  <1>9. Logging'
    BY <1>0, <1>1, <1>3, <1>8 DEF IInv, Logging
  <1>10. Readiness => UNCHANGED reply
    BY <1>2 DEF Readiness
  <1>11. Probing'
    BY <1>0, <1>10 DEF IInv, Probing, probes
  <1>12. QED
    BY <1>5, <1>6, <1>7, <1>9, <1>11 DEF IInv

\* The stage a request comes back to, by its position.
LEMMA BackIs ==
    ASSUME IInv, dir = "out", pos > 0
    PROVE  Chain[pos] = "access" <=> Logged /\ pos = AccessAt
  <1>1. pos \in 1..Last
    BY ShapeFacts DEF IInv, Answering
  <1>2. QED
    BY <1>1, Places DEF IInv, TypeOK

LEMMA ReturnKeeps ==
    ASSUME IInv, Return \/ Deadline
    PROVE  IInv'
  <1>1. CASE Return
    BY <1>1, BackIs, BackKeeps DEF Return
  <1>2. CASE Deadline
    <2>1. dir = "out" /\ pos > 0 /\ Chain[pos] # "access"
      BY <1>2 DEF Deadline, Back
    <2>2. QED
      BY <1>2, <2>1, BackIs, BackKeeps DEF Deadline, MissedDeadline
  <1>3. QED
    BY <1>1, <1>2

LEMMA AppendType ==
    ASSUME NEW S, NEW q \in Seq(S), NEW e \in S
    PROVE  Append(q, e) \in Seq(S)
  OBVIOUS

\* The access log makes the one entry of a request.
LEMMA RecordAccessKeeps ==
    ASSUME IInv, RecordAccess
    PROVE  IInv'
  <1>0. /\ UNCHANGED <<Chain, Last, AuthnAt, AuthzAt, AccessAt>>
        /\ UNCHANGED <<Logged, Guarded, Good, Readiness, Grpc, Unready>>
    BY SameRequest DEF RecordAccess
  <1>1. dir = "out" /\ pos > 0 /\ Logged /\ pos = AccessAt
    BY BackIs DEF RecordAccess, Back
  <1>2. /\ Last \in {5, 6, 12} /\ AuthnAt \in {3, 8} /\ AccessAt = AuthnAt + 2 /\ AccessAt < Last
        /\ shape.tracked => shape.kind \in {"business", "call"}
    BY <1>1, ShapeFacts DEF IInv
  <1>3. panicked = "no"
    BY <1>1, <1>2 DEF IInv, Panicking
  <1>4. writes = 1 /\ reply # "none"
    BY <1>1, <1>3 DEF IInv, Answering, Answers, Logged
  <1>5. shape.tracked => (reply \notin Refusals) = (reply = "ok")
    <2>1. SUFFICES ASSUME shape.tracked PROVE (reply \notin Refusals) = (reply = "ok")
      OBVIOUS
    <2>2. reply # "noContent" /\ reply # "notServing"
      BY <1>2, <2>1 DEF IInv, Answering
    <2>3. reply \in Refusals \/ reply = "ok"
      BY <1>4, <2>2 DEF IInv, TypeOK
    <2>4. "ok" \notin Refusals
      BY DEF Refusals
    <2>5. QED
      BY <2>3, <2>4
  <1>6. records' \in Seq(BOOLEAN)
    <2>1. (reply \notin Refusals) \in BOOLEAN /\ records \in Seq(BOOLEAN)
      BY DEF IInv, TypeOK
    <2>2. Append(records, reply \notin Refusals) \in Seq(BOOLEAN)
      BY <2>1, AppendType
    <2>3. QED
      BY <2>1, <2>2 DEF RecordAccess
  <1>7. TypeOK'
    BY <1>1, <1>2, <1>6 DEF IInv, TypeOK, RecordAccess, probes
  <1>8. Granted' = Granted
    BY DEF Granted, RecordAccess
  <1>9. Entering' /\ Screened' /\ Answering' /\ Panicking'
    BY <1>0, <1>1, <1>2, <1>3, <1>8
       DEF IInv, Entering, Screened, Answering, Answers, Panicking, RecordAccess
  <1>10. Logging'
    <2> SUFFICES ASSUME shape.tracked, cfg.recorder, served = 1 \/ Granted
                 PROVE  records' = <<reply = "ok">>
      BY <1>0, <1>1, <1>2, <1>8 DEF Logging, RecordAccess
    <2>1. records = <<>>
      BY <1>1, <1>2, <1>3 DEF IInv, Logging
    <2>2. records' = Append(<<>>, reply = "ok")
      BY <1>5, <2>1 DEF RecordAccess
    <2>3. QED
      BY <2>2
  <1>11. Probing'
    BY <1>0, <1>1 DEF IInv, Probing, RecordAccess, probes
  <1>12. QED
    BY <1>7, <1>9, <1>10, <1>11 DEF IInv

LEMMA RecorderPanicsKeeps ==
    ASSUME IInv, RecorderPanics
    PROVE  IInv'
  <1>1. dir = "out" /\ pos > 0 /\ Logged /\ pos = AccessAt
    BY BackIs DEF RecorderPanics, Back
  <1>2. /\ Last \in {5, 6, 12} /\ AuthnAt \in {3, 8} /\ AccessAt = AuthnAt + 2 /\ AccessAt < Last
    BY <1>1, ShapeFacts DEF IInv
  <1>3. pos \in 3..Last /\ records = <<>>
    BY <1>1, <1>2 DEF IInv, Logging
  <1>4. panicked = "no"
    BY <1>1, <1>2 DEF IInv, Panicking
  <1>5. writes = 1 /\ reply # "none"
    BY <1>1, <1>4 DEF IInv, Answering, Answers, Logged
  <1>6. /\ reply \in Refusals \cup {"ok", "noContent", "notServing"}
        /\ reply = "noContent" => shape.kind = "options"
        /\ reply = "notServing" => shape.kind = "health"
    BY <1>5 DEF IInv, TypeOK, Answering
  <1>7. \/ panicked' = "unanswered" /\ writes' = 0 /\ reply' = "none"
        \/ panicked' = "answered" /\ writes' = 1 /\ reply' = reply
    BY <1>5 DEF RecorderPanics
  <1>8. QED
    BY <1>1, <1>3, <1>6, <1>7, PanicKeeps DEF RecorderPanics

LEMMA UnwindKeeps ==
    ASSUME IInv, Unwind \/ Recover
    PROVE  IInv'
  <1>0. /\ UNCHANGED <<Chain, Last, AuthnAt, AuthzAt, AccessAt>>
        /\ UNCHANGED <<Logged, Guarded, Good, Readiness, Grpc, Unready>>
    BY SameRequest DEF Unwind, Recover
  <1>1. /\ dir = "panic" /\ pos \in 2..Last - 1 /\ Last \in {5, 6, 12} /\ records = <<>>
        /\ \/ panicked = "unanswered" /\ writes = 0 /\ reply = "none"
           \/ panicked = "answered" /\ writes = 1 /\ reply # "none"
    BY ShapeFacts DEF IInv, TypeOK, Panicking, Unwind, Recover
  <1>2. Catches(Chain[pos]) <=> pos = 2
    BY <1>1, Places DEF IInv, TypeOK, Catches
  <1>3. Granted' = Granted
    BY DEF Granted, Unwind, Recover
  <1>4. "internal" \in Refusals
    BY DEF Refusals
  <1>5. CASE Unwind
    <2>1. TypeOK'
      BY <1>1, <1>5 DEF IInv, TypeOK, Unwind, probes
    <2>2. QED
      BY <1>0, <1>1, <1>2, <1>3, <1>5, <2>1
         DEF IInv, Entering, Screened, Answering, Panicking, Logging, Probing, Unwind, probes
  <1>6. CASE Recover
    <2>1. TypeOK'
      BY <1>1, <1>4, <1>6 DEF IInv, TypeOK, Recover, probes
    <2>2. dir' = "out" /\ pos' = 1 /\ writes' = Answers' /\ reply' # "none" /\ panicked' # "no"
      BY <1>1, <1>2, <1>6 DEF Recover, Answers
    <2>3. reply' = reply \/ reply' = "internal"
      BY <1>6 DEF Recover
    <2>4. Entering' /\ Screened' /\ Panicking' /\ Logging' /\ Probing'
      BY <1>0, <1>1, <1>3, <1>6, <2>2, ShapeFacts
         DEF IInv, Entering, Screened, Panicking, Logging, Probing, Recover, probes
    <2>5. Answering'
      BY <1>0, <1>1, <1>6, <2>2, <2>3 DEF IInv, Answering, Recover
    <2>6. QED
      BY <2>1, <2>4, <2>5 DEF IInv
  <1>7. QED
    BY <1>5, <1>6

LEMMA FinishKeeps ==
    ASSUME IInv, Finish
    PROVE  IInv'
  <1>0. /\ UNCHANGED <<Chain, Last, AuthnAt, AuthzAt, AccessAt>>
        /\ UNCHANGED <<Logged, Guarded, Good, Readiness, Grpc, Unready>>
    BY SameRequest DEF Finish
  <1>1. /\ AuthnAt \in {3, 8} /\ AccessAt = AuthnAt + 2
        /\ shape.tracked => shape.kind \in {"business", "call"}
    BY ShapeFacts DEF IInv
  <1>2. dir = "out" /\ pos = 0 /\ dir' = "done"
    BY DEF Finish
  <1>3. \/ writes = Answers /\ reply # "none" /\ UNCHANGED <<reply, writes, panicked>>
        \/ /\ writes = 0 /\ reply = "none" /\ shape.kind = "options" /\ panicked = "no"
           /\ reply' = "notFound" /\ writes' = 1 /\ UNCHANGED panicked
    BY <1>2 DEF IInv, Answering, Answers, Finish
  <1>4. Granted' = Granted
    BY DEF Granted, Finish
  <1>5. "notFound" \in Refusals
    BY DEF Refusals
  <1>6. TypeOK'
    BY <1>3, <1>5 DEF IInv, TypeOK, Finish, probes
  <1>7. Entering' /\ Screened' /\ Answering' /\ Panicking'
    BY <1>0, <1>2, <1>3, <1>4 DEF IInv, Entering, Screened, Answering, Answers, Panicking, Finish
  <1>8. Logging'
    BY <1>0, <1>1, <1>2, <1>3, <1>4 DEF IInv, Logging, Finish
  <1>9. Probing'
    BY <1>0, <1>2, <1>3 DEF IInv, Probing, Finish, probes, Readiness
  <1>10. QED
    BY <1>6, <1>7, <1>8, <1>9 DEF IInv

\* A request that begins, at the start or after another one.
Beginning ==
    /\ cfg \in Configs /\ shape \in Shapes /\ rule \in Rules
    /\ pos = 1 /\ dir = "in" /\ subject = "anonymous"
    /\ read = "none" /\ reply = "none" /\ writes = 0 /\ served = 0
    /\ late = FALSE /\ panicked = "no" /\ ready = TRUE
    /\ checks = [d \in Dependency |-> "pending"] /\ records = <<>>

LEMMA BeginningOK == Beginning => IInv
  <1> SUFFICES ASSUME Beginning PROVE IInv
    OBVIOUS
  <1>0. <<>> \in Seq(BOOLEAN) /\ checks \in [Dependency -> {"pending", "up", "down", "disabled"}]
    BY DEF Beginning
  <1>1. TypeOK
    <2>1. 1 \in 0..12 /\ 0 \in 0..2 /\ 0 \in 0..1
      OBVIOUS
    <2>2. late \in BOOLEAN /\ panicked \in {"no", "unanswered", "answered"} /\ ready \in BOOLEAN
      BY DEF Beginning
    <2>3. records \in Seq(BOOLEAN)
      BY <1>0 DEF Beginning
    <2>4. QED
      BY <1>0, <2>1, <2>2, <2>3, Zenon DEF Beginning, TypeOK
  <1>2. Last \in {5, 6, 12} /\ AuthnAt \in {3, 8} /\ AuthzAt = AuthnAt + 1
    BY <1>1, ShapeFacts
  <1>3. Entering /\ Screened /\ Answering /\ Panicking /\ Logging
    BY <1>2 DEF Beginning, Entering, Screened, Answering, Panicking, Logging
  <1>4. Probing
    BY DEF Beginning, Probing
  <1>5. QED
    BY <1>1, <1>3, <1>4 DEF IInv

LEMMA InitOK == Init => IInv
  BY BeginningOK DEF Init, Beginning

LEMMA ArriveKeeps ==
    ASSUME IInv, Arrive
    PROVE  IInv'
  <1>1. (Beginning => IInv)'
    BY BeginningOK, PTL
  <1>2. Beginning'
    BY DEF IInv, TypeOK, Arrive, Start, Beginning
  <1>3. QED
    BY <1>1, <1>2

LEMMA ReloadKeeps ==
    ASSUME IInv, Reload \/ UNCHANGED vars
    PROVE  IInv'
  <1>1. UNCHANGED <<cfg, shape, pos, dir, subject, read, reply, writes, served, late, panicked, probes, records>>
        /\ rule' \in Rules
    BY DEF IInv, TypeOK, Reload, vars, probes
  <1>2. /\ UNCHANGED <<Chain, Last, AuthnAt, AuthzAt, AccessAt>>
        /\ UNCHANGED <<Logged, Guarded, Good, Readiness, Grpc, Unready>>
    BY <1>1, SameRequest
  <1>3. Granted' = Granted
    BY <1>1 DEF Granted
  <1>4. TypeOK'
    BY <1>1 DEF IInv, TypeOK, probes
  <1>5. Entering' /\ Screened' /\ Answering' /\ Panicking' /\ Logging' /\ Probing'
    BY <1>1, <1>2, <1>3
       DEF IInv, Entering, Screened, Answering, Answers, Panicking, Logging, Probing, probes
  <1>6. QED
    BY <1>4, <1>5 DEF IInv

LEMMA NextKeeps ==
    ASSUME IInv, [Next]_vars
    PROVE  IInv'
  <1>1. CASE Step
    <2>1. CASE IdempotencyKey \/ Wrap \/ CORS \/ RequireJSON
      BY <2>1, ScreensKeep
    <2>2. CASE RateLimit("ipLimit") \/ RateLimit("apiLimit") \/ RateLimit("userLimit")
      BY <2>2, RateLimitKeeps
    <2>3. CASE Authenticate
      BY <2>3, AuthenticateKeeps
    <2>4. CASE Authorize
      BY <2>4, AuthorizeKeeps
    <2>5. CASE Handle
      BY <2>5, HandleKeeps
    <2>6. CASE \E d \in Dependency : Probe(d)
      BY <2>6, ProbeKeeps
    <2>7. CASE Ready
      BY <2>7, ReadyKeeps
    <2>8. CASE NoRoute
      BY <2>8, NoRouteKeeps
    <2>9. CASE HandlerPanics
      BY <2>9, HandlerPanicsKeeps
    <2>10. CASE RecordAccess
      BY <2>10, RecordAccessKeeps
    <2>11. CASE Return \/ Deadline
      BY <2>11, ReturnKeeps
    <2>12. CASE Unwind \/ Recover
      BY <2>12, UnwindKeeps
    <2>13. CASE Finish
      BY <2>13, FinishKeeps
    <2>14. CASE StagePanics
      BY <2>14, StagePanicsKeeps
    <2>15. CASE RecorderPanics
      BY <2>15, RecorderPanicsKeeps
    <2>16. QED
      BY <1>1, <2>1, <2>2, <2>3, <2>4, <2>5, <2>6, <2>7, <2>8, <2>9, <2>10, <2>11, <2>12, <2>13,
         <2>14, <2>15
         DEF Step
  <1>2. CASE Arrive
    BY <1>2, ArriveKeeps
  <1>3. CASE Reload \/ UNCHANGED vars
    BY <1>3, ReloadKeeps
  <1>4. QED
    BY <1>1, <1>2, <1>3 DEF Next
-------------------------------------------------------------------------------
(* The results, for every set of configurations and of requests. *)

\* What a request has met, said and left behind at every stage of either chain.
THEOREM InvariantHolds == Spec => []IInv
  <1>1. Init => IInv
    BY InitOK
  <1>2. IInv /\ [Next]_vars => IInv'
    BY NextKeeps
  <1>3. QED
    BY <1>1, <1>2, PTL DEF Spec

\* Every variable of a request keeps its type.
THEOREM TypeCorrect == Spec => []TypeOK
  <1>1. IInv => TypeOK
    BY DEF IInv
  <1>2. QED
    BY <1>1, InvariantHolds, PTL

\* A handler of either server runs only for a caller whose credential was
\* accepted and, with authorization enabled, under a rule that permits it.
THEOREM NoWayAroundThePolicy == Spec => []ServedUnderPolicy
  <1>1. IInv => ServedUnderPolicy
    BY DEF IInv, Screened, Good, Guarded, Protected, ServedUnderPolicy
  <1>2. QED
    BY <1>1, InvariantHolds, PTL

\* The operation log holds one entry for each permitted read, in agreement with
\* the answer, whichever stage behind the access log gave it.
THEOREM OneEntryPerAccess == Spec => []AccessIsRecorded
  <1>1. IInv => AccessIsRecorded
    BY DEF IInv, Logging, Panicking, AccessIsRecorded
  <1>2. QED
    BY <1>1, InvariantHolds, PTL

\* No stage answers after another one has, and none leaves a request unanswered.
THEOREM OneAnswer == Spec => []AnsweredOnce
  <1>1. IInv => AnsweredOnce
    BY DEF IInv, Answering, Answers, AnsweredOnce
  <1>2. QED
    BY <1>1, InvariantHolds, PTL

\* Readiness is the conjunction of the probes, in whatever order they return.
THEOREM ReadinessIsTrue == Spec => []ReadyMeansAllUp
  <1>1. ASSUME IInv PROVE ReadyMeansAllUp
    <2> SUFFICES ASSUME dir = "done", Readiness, served = 1, panicked = "no"
                 PROVE  reply = "ok" <=> \A d \in cfg.deps : checks[d] = "up"
      BY DEF ReadyMeansAllUp
    <2>1. /\ \A d \in Dependency : checks[d] # "pending"
          /\ reply = IF ready THEN "ok" ELSE Unready
          /\ ready <=> \A d \in Dependency : checks[d] # "down"
          /\ \A d \in Dependency : /\ checks[d] \in {"up", "down"} => d \in cfg.deps
                                   /\ checks[d] = "disabled" => d \notin cfg.deps
      BY <1>1 DEF IInv, Probing
    <2>2. cfg.deps \subseteq Dependency /\ \A d \in Dependency : checks[d] \in {"pending", "up", "down", "disabled"}
      BY <1>1 DEF IInv, TypeOK, Config
    <2>3. Unready # "ok"
      BY DEF Unready
    <2>4. ready <=> \A d \in cfg.deps : checks[d] = "up"
      BY <2>1, <2>2
    <2>5. QED
      BY <2>1, <2>3, <2>4
  <1>2. QED
    BY <1>1, InvariantHolds, PTL
===============================================================================
