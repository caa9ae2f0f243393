------------------------------- MODULE Outbound -------------------------------
(***************************************************************************)
(* A named outbound client, HTTP (outbound.HTTPClient) or gRPC             *)
(* (grpcclient.Dial), shared by several callers: a circuit breaker around  *)
(* a series of attempts with waits between them.                           *)
(*                                                                         *)
(* An answer may be lost, and the context of a call may end at any time,   *)
(* by its caller or by its deadline.  What a request does to the upstream  *)
(* is not modelled.  The circuit breaker is the library gobreaker,         *)
(* modelled as the clients use it: one request at a time when half-open,   *)
(* and results of an earlier state are ignored.  Where its treatment of an *)
(* excluded result cannot be told from this repository, the model has both.*)
(***************************************************************************)
EXTENDS Naturals

CONSTANTS
    Caller,
    Configs,   \* clients: [transport, breaker, attempts, threshold]
    Calls      \* calls: [valid, safe, keyed]

\* valid: the path is relative.  safe: GET, HEAD, OPTIONS, PUT, DELETE, or a method of retry.methods.
\* keyed: the context has an idempotency key.
ASSUME OutboundAssumption ==
    /\ Configs \subseteq [transport : {"http", "grpc"}, breaker : BOOLEAN,
                          attempts : 1..5, threshold : Nat \ {0}]
    /\ Calls # {}
    /\ Calls \subseteq [valid : BOOLEAN, safe : BOOLEAN, keyed : BOOLEAN]

VARIABLES
    cfg,
    phase,    \* where each caller is in Do or in the interceptors
    call,
    attempt,
    ctx,      \* whether and why the context of the call has ended
    last,     \* what the series came to: the last answer or the end of a wait
    answer,   \* what the caller was given
    open,     \* response bodies of the call that were neither closed nor given
    current,  \* the call was admitted in the present state of the breaker
    breaker,  \* [state, failures, slot]; slot: the half-open probe is taken
    bad       \* failed series since the last success, of those admitted in this state

vars == <<cfg, phase, call, attempt, ctx, last, answer, open, current, breaker, bad>>

\* ok: any answer that is not retried.  busy: 429, 502, 503 and 504, or
\* Unavailable and ResourceExhausted.  error: no HTTP response.
\* waitCanceled, waitDeadline: the context ended between two attempts.
\* invalid: no HTTP request could be made.
Outcomes == {"ok", "busy", "error", "invalid", "canceled", "deadline", "waitCanceled", "waitDeadline"}

TypeOK ==
    /\ cfg \in Configs
    /\ phase \in [Caller -> {"idle", "send", "wait", "end"}]
    /\ call \in [Caller -> Calls]
    /\ attempt \in [Caller -> 1..5]
    /\ ctx \in [Caller -> {"live", "canceled", "deadline"}]
    /\ last \in [Caller -> Outcomes \cup {"none"}]
    /\ answer \in [Caller -> Outcomes \cup {"none", "refused"}]
    /\ open \in [Caller -> 0..1]
    /\ current \in [Caller -> BOOLEAN]
    /\ breaker \in [state : {"closed", "open", "halfOpen"}, failures : Nat, slot : BOOLEAN]
    /\ breaker.failures < cfg.threshold
    /\ bad \in Nat

Http == cfg.transport = "http"
Closed == [state |-> "closed", failures |-> 0, slot |-> FALSE]
Opened == [state |-> "open", failures |-> 0, slot |-> FALSE]
HalfOpen == [state |-> "halfOpen", failures |-> 0, slot |-> FALSE]

\* What a caller that is not calling has in its place.
AnyCall == CHOOSE x \in Calls : TRUE

Init ==
    /\ cfg \in Configs
    /\ phase = [c \in Caller |-> "idle"]
    /\ call = [c \in Caller |-> AnyCall]
    /\ attempt = [c \in Caller |-> 1]
    /\ ctx = [c \in Caller |-> "live"]
    /\ last = [c \in Caller |-> "none"]
    /\ answer = [c \in Caller |-> "none"]
    /\ open = [c \in Caller |-> 0]
    /\ current = [c \in Caller |-> FALSE]
    /\ breaker = Closed
    /\ bad = 0
-------------------------------------------------------------------------------
(* The breaker. *)

Admits == ~ cfg.breaker \/ breaker.state = "closed" \/ (breaker.state = "halfOpen" /\ ~ breaker.slot)

\* open_timeout is over.  A new state forgets the calls that are under way.
ProbeAgain ==
    /\ breaker.state = "open"
    /\ breaker' = HalfOpen
    /\ current' = [c \in Caller |-> FALSE]
    /\ bad' = 0
    /\ UNCHANGED <<cfg, phase, call, attempt, ctx, last, answer, open>>

\* Mutant of Excluded: a caller that gives up counts as a failure.
ExcludedNone(err) == FALSE

\* IsExcluded.  The gRPC client excludes what is not one of three codes, the
\* OK included; an error of the wait has no code of its own.
Excluded(err) ==
    IF Http THEN err \in {"canceled", "waitCanceled"}
    ELSE err \notin {"busy", "deadline"}

\* ReadyToTrip.
Trips == breaker.failures + 1 >= cfg.threshold

\* Mutant of Ignored: the breaker counts a series of an earlier state too.
IgnoredNever(c) == ~ cfg.breaker

\* There is no breaker, or it has changed its state since it admitted the call.
Ignored(c) == ~ cfg.breaker \/ ~ current[c]

\* What Execute does with the error of a series.  One that is excluded is neither
\* a success nor a failure; a half-open breaker may or may not take the next probe.
Count(c, err) ==
    \/ Ignored(c) /\ UNCHANGED breaker
    \/ /\ ~ Ignored(c)
       /\ \/ Excluded(err) /\ breaker' \in {breaker, [breaker EXCEPT !.slot = FALSE]}
          \/ /\ err = "none"
             /\ breaker' = IF breaker.state = "halfOpen" THEN Closed ELSE [breaker EXCEPT !.failures = 0]
          \/ /\ ~ Excluded(err) /\ err # "none"
             /\ breaker' = IF breaker.state = "halfOpen" \/ Trips THEN Opened
                           ELSE [breaker EXCEPT !.failures = @ + 1]

\* The series failed, and not because its caller gave up.
Bad(r) == r \notin {"ok", "canceled", "waitCanceled"}

\* The failures in a row, seen from outside the breaker.
Observed(c, r) ==
    CASE ~ current[c] -> bad
      [] current[c] /\ Http /\ r = "ok" -> 0
      [] current[c] /\ Bad(r) /\ bad < cfg.threshold -> bad + 1
      [] OTHER -> bad
-------------------------------------------------------------------------------
(* A call. *)

\* Do, or the interceptors up to the breaker.
Begin(c) ==
    /\ phase[c] = "idle"
    /\ Admits
    /\ call' \in {[call EXCEPT ![c] = x] : x \in Calls}
    /\ phase' = [phase EXCEPT ![c] = "send"]
    /\ last' = [last EXCEPT ![c] = "none"]
    /\ answer' = [answer EXCEPT ![c] = "none"]
    /\ current' = [current EXCEPT ![c] = cfg.breaker]
    /\ breaker' = [breaker EXCEPT !.slot = breaker.state = "halfOpen"]
    /\ UNCHANGED <<cfg, attempt, ctx, open, bad>>

\* ErrOpenState or ErrTooManyRequests.
Refuse(c) ==
    /\ phase[c] = "idle"
    /\ ~ Admits
    /\ answer' = [answer EXCEPT ![c] = "refused"]
    /\ last' = [last EXCEPT ![c] = "none"]
    /\ UNCHANGED <<cfg, phase, call, attempt, ctx, open, current, breaker, bad>>

\* The caller gives up, or the deadline passes.
ContextEnds(c) ==
    /\ phase[c] \in {"send", "wait"}
    /\ ctx[c] = "live"
    /\ ctx' \in {[ctx EXCEPT ![c] = why] : why \in {"canceled", "deadline"}}
    /\ UNCHANGED <<cfg, phase, call, attempt, last, answer, open, current, breaker, bad>>

\* retryableMethod and retryGRPCMethod.
Repeatable(x) == x.safe \/ x.keyed

MaxAttempts(c) == IF Repeatable(call[c]) THEN cfg.attempts ELSE 1

\* What an attempt comes to.
Results(c) ==
    (IF Http THEN {"ok", "busy", "error"} ELSE {"ok", "busy"})
    \cup (IF ctx[c] = "live" THEN {} ELSE {ctx[c]})

\* An HTTP response brings a body.
HasBody(r) == Http /\ r \in {"ok", "busy"}

\* doWithRetry goes on after every error, retryInterceptor after two codes.
Retried(r) == IF Http THEN r # "ok" ELSE r = "busy"

\* Mutant of Discard: the body of a response that is retried stays open.
DiscardNothing(n) == n

Discard(n) == 0

\* The early return of doWithRetry, which the breaker counts like any error.
Invalid(c) ==
    /\ phase[c] = "send"
    /\ Http /\ ~ call[c].valid
    /\ phase' = [phase EXCEPT ![c] = "end"]
    /\ last' = [last EXCEPT ![c] = "invalid"]
    /\ UNCHANGED <<cfg, call, attempt, ctx, answer, open, current, breaker, bad>>

\* An attempt: a request is sent, and answered, refused, lost or cut short.
Attempt(c) ==
    /\ phase[c] = "send"
    /\ ~ Http \/ call[c].valid
    /\ \E r \in Results(c) :
         IF Retried(r) /\ attempt[c] < MaxAttempts(c)
         THEN /\ phase' = [phase EXCEPT ![c] = "wait"]
              /\ UNCHANGED last
              /\ open' = [open EXCEPT ![c] = Discard(IF HasBody(r) THEN @ + 1 ELSE @)]
         ELSE /\ phase' = [phase EXCEPT ![c] = "end"]
              /\ last' = [last EXCEPT ![c] = r]
              /\ open' = [open EXCEPT ![c] = IF HasBody(r) THEN @ + 1 ELSE @]
    /\ UNCHANGED <<cfg, call, attempt, ctx, answer, current, breaker, bad>>

\* Mutant of NextAttempt: the attempts are not counted.
NextAttemptUncounted(n) == n

NextAttempt(n) == n + 1

\* waitBackoff and waitRetry: the timer fires, perhaps together with the end
\* of the context.
Wait(c) ==
    /\ phase[c] = "wait"
    /\ phase' = [phase EXCEPT ![c] = "send"]
    /\ attempt' = [attempt EXCEPT ![c] = NextAttempt(@)]
    /\ UNCHANGED <<cfg, call, ctx, last, answer, open, current, breaker, bad>>

\* The context ends first.
WaitCut(c) ==
    /\ phase[c] = "wait"
    /\ ctx[c] # "live"
    /\ phase' = [phase EXCEPT ![c] = "end"]
    /\ last' = [last EXCEPT ![c] = IF ctx[c] = "canceled" THEN "waitCanceled" ELSE "waitDeadline"]
    /\ UNCHANGED <<cfg, call, attempt, ctx, answer, open, current, breaker, bad>>

\* What the breaker is told: with a breaker a busy response is withheld, inside
\* an error (statusError).
Wrap(r) ==
    CASE Http /\ cfg.breaker /\ r = "busy" -> [response |-> "none", err |-> "status", held |-> r]
      [] r = "ok" \/ (HasBody(r) /\ ~ cfg.breaker) -> [response |-> r, err |-> "none", held |-> "none"]
      [] OTHER -> [response |-> "none", err |-> r, held |-> "none"]

\* What the caller makes of a response and an error.
Given(e) == IF e.err = "none" THEN e.response ELSE e.err

\* Mutant of Unwrap: the caller gets the error, and nobody the response in it.
UnwrapNothing(e) == Given(e)

\* errors.As finds the statusError and the response in it.
Unwrap(e) == IF e.err = "status" THEN e.held ELSE Given(e)

\* The series is over: the breaker counts it and the caller has the answer.
End(c) ==
    /\ phase[c] = "end"
    /\ phase' = [phase EXCEPT ![c] = "idle"]
    /\ answer' = [answer EXCEPT ![c] = Unwrap(Wrap(last[c]))]
    /\ open' = [open EXCEPT ![c] = IF HasBody(Unwrap(Wrap(last[c]))) THEN @ - 1 ELSE @]
    /\ Count(c, Wrap(last[c]).err)
    /\ current' = [d \in Caller |-> current[d] /\ d # c /\ breaker'.state = breaker.state]
    /\ bad' = IF breaker'.state \in {breaker.state, "open"} THEN Observed(c, last[c]) ELSE 0
    /\ call' = [call EXCEPT ![c] = AnyCall]
    /\ attempt' = [attempt EXCEPT ![c] = 1]
    /\ ctx' = [ctx EXCEPT ![c] = "live"]
    /\ UNCHANGED <<cfg, last>>

Step(c) == Invalid(c) \/ Attempt(c) \/ Wait(c) \/ WaitCut(c) \/ End(c)

Next ==
    \/ ProbeAgain
    \/ \E c \in Caller : Begin(c) \/ Refuse(c) \/ ContextEnds(c) \/ Step(c)

\* A call that was begun goes on: every attempt has a timeout and every wait
\* has a timer.
Spec == Init /\ [][Next]_vars /\ \A c \in Caller : WF_vars(Step(c))
-------------------------------------------------------------------------------
\* Every response body the client has read is closed by it or given to the
\* caller, with every retry, refusal and end of the context (doWithRetry), and
\* the caller gets what the last attempt came to, also when the response went
\* through the breaker inside an error (execute).
ResponsesAreAccounted ==
    \A c \in Caller :
      /\ phase[c] # "end" => open[c] = 0
      /\ phase[c] = "idle" /\ last[c] # "none" => answer[c] = last[c]

\* The closed breaker opens only after failure_threshold series that it admitted
\* in this closed state have failed, for HTTP with no success between them:
\* callers that give up (IsExcluded) and series from before the breaker last
\* changed its state are not among them (ReadyToTrip).  A caller's invalid path
\* is: the breaker is outside the check.
TripsOnFailures ==
    [][breaker.state = "closed" /\ breaker'.state = "open" => bad' >= cfg.threshold]_vars

\* Every call ends, after a bounded number of attempts.
EveryCallEnds == \A c \in Caller : phase[c] # "idle" ~> phase[c] = "idle"
===============================================================================
