---------------------------- MODULE OutboundProofs -----------------------------
(***************************************************************************)
(* Proofs about Outbound, for every set of callers, every set of clients   *)
(* of either transport and every set of calls.                             *)
(*                                                                         *)
(* An inductive invariant says what a call has done at each phase (Series) *)
(* and that the failures the breaker counts are among those observed       *)
(* (Counted).                                                              *)
(***************************************************************************)
EXTENDS Outbound, TLAPS

USE OutboundAssumption

\* How many attempts a call has made at each phase, what it came to, and which
\* bodies are open.
Series(c) ==
    /\ phase[c] = "idle" => attempt[c] = 1
    /\ phase[c] = "idle" /\ last[c] # "none" => answer[c] = last[c]
    /\ phase[c] \in {"send", "end"} => attempt[c] <= MaxAttempts(c)
    /\ phase[c] = "wait" => attempt[c] < MaxAttempts(c)
    /\ phase[c] = "end" => last[c] # "none"
    /\ open[c] = IF phase[c] = "end" /\ HasBody(last[c]) THEN 1 ELSE 0

\* The consecutive failures of a closed breaker were all seen to be failures, of
\* calls that the breaker admitted.
Counted ==
    /\ \A c \in Caller : current[c] => cfg.breaker
    /\ bad <= cfg.threshold
    /\ breaker.state = "closed" => breaker.failures <= bad

IInv == TypeOK /\ (\A c \in Caller : Series(c)) /\ Counted
-------------------------------------------------------------------------------
(* The breaker. *)

BreakerType == [state : {"closed", "open", "halfOpen"}, failures : Nat, slot : BOOLEAN]

\* The part of the invariant that is about the breaker.
BreakerOK ==
    /\ current \in [Caller -> BOOLEAN]
    /\ breaker \in BreakerType
    /\ breaker.failures < cfg.threshold
    /\ bad \in Nat
    /\ Counted

LEMMA ConfigType ==
    ASSUME TypeOK
    PROVE  /\ cfg.transport \in {"http", "grpc"} /\ cfg.breaker \in BOOLEAN
           /\ cfg.attempts \in 1..5 /\ cfg.threshold \in Nat \ {0}
  BY DEF TypeOK

\* What the wrapping hides from the caller it gives back, and what the breaker is
\* told of a series is what it came to.
LEMMA Wrapping ==
    ASSUME NEW r \in Outcomes
    PROVE  /\ Unwrap(Wrap(r)) = r
           /\ cfg.breaker => (Wrap(r).err = "none" <=> r = "ok")
           /\ Wrap(r).err # "none" /\ ~ Excluded(Wrap(r).err) => Bad(r)
           /\ Excluded(Wrap(r).err) => ~ (Http /\ r = "ok")
  <1>1. r \notin {"none", "status"}
    BY DEF Outcomes
  <1>2. CASE Http /\ cfg.breaker /\ r = "busy"
    BY <1>1, <1>2 DEF Wrap, Unwrap, Given, Excluded, Bad
  <1>3. CASE ~ (Http /\ cfg.breaker /\ r = "busy") /\ (r = "ok" \/ (HasBody(r) /\ ~ cfg.breaker))
    BY <1>1, <1>3 DEF Wrap, Unwrap, Given, Excluded
  <1>4. CASE ~ (Http /\ cfg.breaker /\ r = "busy") /\ ~ (r = "ok" \/ (HasBody(r) /\ ~ cfg.breaker))
    BY <1>1, <1>4 DEF Wrap, Unwrap, Given, Excluded, Bad
  <1>5. QED
    BY <1>2, <1>3, <1>4

\* What was observed grows by a failure, up to the threshold, and falls only with
\* a success.
LEMMA Observing ==
    ASSUME IInv, NEW c \in Caller, NEW r
    PROVE  /\ Observed(c, r) \in Nat /\ Observed(c, r) <= cfg.threshold
           /\ ~ (Http /\ r = "ok") => Observed(c, r) >= bad
           /\ ~ current[c] => Observed(c, r) = bad
           /\ current[c] /\ Bad(r) => Observed(c, r) \in {bad + 1, cfg.threshold}
  <1>0. bad \in Nat /\ bad <= cfg.threshold /\ cfg.threshold \in Nat \ {0}
    BY ConfigType DEF IInv, TypeOK, Counted
  <1>1. CASE ~ current[c]
    BY <1>0, <1>1 DEF Observed
  <1>2. CASE current[c] /\ Http /\ r = "ok"
    <2>1. Observed(c, r) = 0 /\ ~ Bad(r)
      BY <1>2 DEF Observed, Bad
    <2>2. QED
      BY <1>0, <1>2, <2>1
  <1>3. CASE current[c] /\ ~ (Http /\ r = "ok") /\ Bad(r) /\ bad < cfg.threshold
    <2>1. Observed(c, r) = bad + 1
      BY <1>3 DEF Observed
    <2>2. bad + 1 \in Nat /\ bad + 1 <= cfg.threshold /\ bad + 1 >= bad
      BY <1>0, <1>3
    <2>3. current[c]
      BY <1>3
    <2>4. QED
      BY <2>1, <2>2, <2>3
  <1>4. CASE current[c] /\ ~ (Http /\ r = "ok") /\ ~ (Bad(r) /\ bad < cfg.threshold)
    <2>1. Observed(c, r) = bad
      BY <1>4 DEF Observed
    <2>2. QED
      BY <1>0, <1>4, <2>1
  <1>5. QED
    BY <1>1, <1>2, <1>3, <1>4

\* Whatever Execute makes of the end of a series keeps the counts, and a closed
\* breaker opens when a counted failure is the last one it tolerates.
LEMMA CountKeeps ==
    ASSUME IInv, NEW c \in Caller, End(c)
    PROVE  /\ BreakerOK'
           /\ breaker.state = "closed" /\ breaker'.state = "open" => bad' >= cfg.threshold
  <1> DEFINE r == last[c]
  <1>0. /\ breaker \in BreakerType /\ breaker.failures \in Nat /\ bad \in Nat
        /\ breaker.failures < cfg.threshold /\ current \in [Caller -> BOOLEAN]
        /\ cfg.threshold \in Nat \ {0} /\ r \in Outcomes
        /\ breaker.state = "closed" => breaker.failures <= bad
        /\ current[c] => cfg.breaker
    BY ConfigType DEF IInv, TypeOK, BreakerType, Series, Counted, End
  <1>1. /\ cfg' = cfg /\ Count(c, Wrap(r).err)
        /\ current' = [d \in Caller |-> current[d] /\ d # c /\ breaker'.state = breaker.state]
        /\ bad' = IF breaker'.state \in {breaker.state, "open"} THEN Observed(c, r) ELSE 0
    BY DEF End
  <1>2. current' \in [Caller -> BOOLEAN] /\ \A d \in Caller : current'[d] => cfg'.breaker
    BY <1>1 DEF IInv, Counted
  <1>3. /\ Observed(c, r) \in Nat /\ Observed(c, r) <= cfg.threshold
        /\ ~ (Http /\ r = "ok") => Observed(c, r) >= bad
        /\ ~ current[c] => Observed(c, r) = bad
        /\ current[c] /\ Bad(r) => Observed(c, r) \in {bad + 1, cfg.threshold}
    BY Observing
  <1>4. bad' \in Nat /\ bad' <= cfg'.threshold
    BY <1>0, <1>1, <1>3
  <1>5. SUFFICES /\ breaker' \in BreakerType /\ breaker'.failures < cfg.threshold
                 /\ breaker'.state = "closed" => breaker'.failures <= bad'
                 /\ breaker.state = "closed" /\ breaker'.state = "open" => bad' >= cfg.threshold
    BY <1>1, <1>2, <1>4 DEF BreakerOK, Counted
  <1>6. CASE Ignored(c)
    <2>1. breaker' = breaker /\ bad' = bad
      BY <1>0, <1>1, <1>3, <1>6 DEF Count, Ignored
    <2>2. QED
      BY <1>0, <2>1
  <1>7. CASE ~ Ignored(c) /\ Excluded(Wrap(r).err) /\ breaker' \in {breaker, [breaker EXCEPT !.slot = FALSE]}
    <2>1. /\ breaker' \in BreakerType
          /\ breaker'.failures = breaker.failures /\ breaker'.state = breaker.state
      BY <1>0, <1>7 DEF BreakerType
    <2>2. bad' >= bad
      BY <1>0, <1>1, <1>3, <1>7, <2>1, Wrapping
    <2>3. QED
      BY <1>0, <1>4, <2>1, <2>2
  <1>8. CASE /\ ~ Ignored(c) /\ Wrap(r).err = "none"
             /\ breaker' = IF breaker.state = "halfOpen" THEN Closed ELSE [breaker EXCEPT !.failures = 0]
    <2>1. /\ breaker' \in BreakerType /\ breaker'.failures = 0
          /\ breaker.state = "closed" => breaker'.state = "closed"
      BY <1>0, <1>8 DEF BreakerType, Closed
    <2>2. QED
      BY <1>0, <1>4, <2>1
  <1>9. CASE /\ ~ Ignored(c) /\ ~ Excluded(Wrap(r).err) /\ Wrap(r).err # "none"
             /\ breaker' = IF breaker.state = "halfOpen" \/ Trips THEN Opened
                           ELSE [breaker EXCEPT !.failures = @ + 1]
    <2>1. current[c] /\ Bad(r)
      BY <1>0, <1>9, Wrapping DEF Ignored
    <2>2. breaker.state = "closed" => breaker.failures + 1 <= Observed(c, r)
      BY <1>0, <1>3, <2>1
    <2>3. CASE breaker.state = "halfOpen" \/ Trips
      <3>1. breaker' = Opened /\ breaker'.state = "open" /\ breaker' \in BreakerType /\ breaker'.failures = 0
        BY <1>9, <2>3 DEF Opened, BreakerType
      <3>2. bad' = Observed(c, r)
        BY <1>1, <3>1
      <3>3. breaker.state = "closed" => breaker.failures + 1 >= cfg.threshold
        BY <1>0, <2>3 DEF Trips
      <3>4. QED
        BY <1>0, <1>3, <2>2, <3>1, <3>2, <3>3
    <2>4. CASE ~ (breaker.state = "halfOpen" \/ Trips)
      <3>1. /\ breaker' \in BreakerType /\ breaker'.failures = breaker.failures + 1
            /\ breaker'.state = breaker.state /\ breaker'.failures < cfg.threshold
        BY <1>0, <1>9, <2>4 DEF BreakerType, Trips
      <3>2. bad' = Observed(c, r)
        BY <1>1, <3>1
      <3>3. QED
        BY <1>0, <2>2, <3>1, <3>2
    <2>5. QED
      BY <2>3, <2>4
  <1>10. QED
    BY <1>1, <1>6, <1>7, <1>8, <1>9 DEF Count
-------------------------------------------------------------------------------
(* A call. *)

LEMMA AnyCallType == AnyCall \in Calls
  BY DEF AnyCall

\* Every client makes at least one attempt, and at most five.
LEMMA AttemptsBounded ==
    ASSUME TypeOK, NEW c \in Caller
    PROVE  MaxAttempts(c) \in 1..5
  BY ConfigType DEF MaxAttempts

\* Nothing happens to the calls of others when one caller makes a step that
\* changes only its own place in the functions.
LEMMA OthersKeep ==
    ASSUME IInv, NEW c \in Caller, NEW d \in Caller, d # c, UNCHANGED cfg,
           /\ phase'[d] = phase[d] /\ call'[d] = call[d] /\ attempt'[d] = attempt[d]
           /\ last'[d] = last[d] /\ answer'[d] = answer[d]
           /\ open'[d] = open[d]
    PROVE  Series(d)'
  BY DEF IInv, Series, MaxAttempts, HasBody, Http

LEMMA InitHolds == Init => IInv
  <1> SUFFICES ASSUME Init PROVE IInv
    OBVIOUS
  <1>1. cfg \in Configs /\ cfg.threshold \in Nat \ {0}
    BY DEF Init
  <1>2. TypeOK
    BY <1>1, AnyCallType DEF Init, TypeOK, Closed
  <1>3. ASSUME NEW c \in Caller PROVE Series(c)
    <2>1. /\ phase[c] = "idle" /\ attempt[c] = 1 /\ open[c] = 0
          /\ last[c] = "none"
      BY DEF Init
    <2>2. QED
      BY <2>1 DEF Series
  <1>4. QED
    BY <1>1, <1>2, <1>3 DEF Init, IInv, Counted, Closed

\* open_timeout is over.
LEMMA ProbeAgainKeeps == ASSUME IInv, ProbeAgain PROVE IInv'
  <1>1. BreakerOK'
    BY ConfigType DEF ProbeAgain, HalfOpen, BreakerOK, BreakerType, Counted, IInv
  <1>2. TypeOK'
    BY <1>1 DEF IInv, TypeOK, BreakerOK, BreakerType, ProbeAgain
  <1>3. (\A c \in Caller : Series(c))'
    BY DEF IInv, Series, MaxAttempts, HasBody, Http, ProbeAgain
  <1>4. QED
    BY <1>1, <1>2, <1>3 DEF IInv, BreakerOK

\* The breaker admits a call.
LEMMA BeginKeeps == ASSUME IInv, NEW c \in Caller, Begin(c) PROVE IInv'
  <1>1. PICK x \in Calls : call' = [call EXCEPT ![c] = x]
    BY DEF Begin
  <1>2. TypeOK'
    BY <1>1, ConfigType DEF IInv, TypeOK, Begin
  <1>3. \A d \in Caller \ {c} : Series(d)'
    BY <1>1, OthersKeep DEF IInv, TypeOK, Begin
  <1>4. Series(c)'
    <2>1. MaxAttempts(c)' \in 1..5
      BY ConfigType DEF MaxAttempts, IInv, Begin
    <2>2. /\ phase'[c] = "send" /\ attempt'[c] = 1 /\ open'[c] = 0
      BY DEF IInv, TypeOK, Begin, Series
    <2>3. QED
      BY <2>1, <2>2 DEF Series
  <1>5. Counted'
    BY DEF IInv, TypeOK, Counted, Begin
  <1>6. QED
    BY <1>2, <1>3, <1>4, <1>5 DEF IInv

\* The breaker refuses one.
LEMMA RefuseKeeps == ASSUME IInv, NEW c \in Caller, Refuse(c) PROVE IInv'
  <1>1. TypeOK'
    BY DEF IInv, TypeOK, Refuse
  <1>2. \A d \in Caller \ {c} : Series(d)'
    BY OthersKeep DEF IInv, TypeOK, Refuse
  <1>3. Series(c)'
    BY DEF IInv, TypeOK, Refuse, Series, Http
  <1>4. QED
    BY <1>1, <1>2, <1>3 DEF IInv, Counted, Refuse

\* The context of a call ends.
LEMMA ContextEndsKeeps == ASSUME IInv, NEW c \in Caller, ContextEnds(c) PROVE IInv'
  <1>1. TypeOK'
    BY DEF IInv, TypeOK, ContextEnds
  <1>2. QED
    BY <1>1 DEF IInv, Counted, Series, MaxAttempts, HasBody, Http, ContextEnds

\* No request can be made.
LEMMA InvalidKeeps == ASSUME IInv, NEW c \in Caller, Invalid(c) PROVE IInv'
  <1>1. TypeOK'
    BY DEF IInv, TypeOK, Invalid, Outcomes
  <1>2. \A d \in Caller \ {c} : Series(d)'
    BY OthersKeep DEF IInv, TypeOK, Invalid
  <1>3. Series(c)'
    BY AttemptsBounded DEF IInv, TypeOK, Invalid, Series, MaxAttempts, HasBody, Http
  <1>4. QED
    BY <1>1, <1>2, <1>3 DEF IInv, Counted, Invalid

\* An attempt: another one is left, and its body is gone, or it was the last.
LEMMA AttemptKeeps == ASSUME IInv, NEW c \in Caller, Attempt(c) PROVE IInv'
  <1>0. /\ attempt[c] \in 1..5 /\ phase[c] = "send" /\ open[c] = 0
        /\ attempt[c] <= MaxAttempts(c) /\ MaxAttempts(c) \in 1..5
    BY AttemptsBounded DEF IInv, TypeOK, Series, Attempt
  <1>1. PICK r \in Results(c) :
         IF Retried(r) /\ attempt[c] < MaxAttempts(c)
         THEN /\ phase' = [phase EXCEPT ![c] = "wait"]
              /\ UNCHANGED last
              /\ open' = [open EXCEPT ![c] = Discard(IF HasBody(r) THEN @ + 1 ELSE @)]
         ELSE /\ phase' = [phase EXCEPT ![c] = "end"]
              /\ last' = [last EXCEPT ![c] = r]
              /\ open' = [open EXCEPT ![c] = IF HasBody(r) THEN @ + 1 ELSE @]
    BY DEF Attempt
  <1>2. UNCHANGED <<cfg, call, attempt, ctx, answer, current, breaker, bad>>
    BY DEF Attempt
  <1>3. r \in Outcomes /\ r # "none"
    BY DEF Results, Outcomes, IInv, TypeOK
  <1>4. TypeOK' /\ Series(c)'
    <2>1. CASE Retried(r) /\ attempt[c] < MaxAttempts(c)
      <3>1. phase' = [phase EXCEPT ![c] = "wait"] /\ UNCHANGED last /\ open' = [open EXCEPT ![c] = 0]
        BY <1>1, <2>1 DEF Discard
      <3>2. TypeOK'
        BY <1>2, <3>1 DEF IInv, TypeOK
      <3>3. phase'[c] = "wait" /\ open'[c] = 0
        BY <3>1 DEF IInv, TypeOK
      <3>4. QED
        BY <1>2, <2>1, <3>2, <3>3 DEF Series, MaxAttempts, Http
    <2>2. CASE ~ (Retried(r) /\ attempt[c] < MaxAttempts(c))
      <3>1. /\ phase' = [phase EXCEPT ![c] = "end"] /\ last' = [last EXCEPT ![c] = r]
            /\ open' = [open EXCEPT ![c] = IF HasBody(r) THEN 1 ELSE 0]
        BY <1>0, <1>1, <2>2 DEF IInv, TypeOK
      <3>2. TypeOK'
        BY <1>2, <1>3, <3>1 DEF IInv, TypeOK
      <3>3. phase'[c] = "end" /\ last'[c] = r /\ open'[c] = IF HasBody(r) THEN 1 ELSE 0
        BY <3>1 DEF IInv, TypeOK
      <3>4. QED
        BY <1>0, <1>2, <1>3, <3>2, <3>3 DEF Series, MaxAttempts, HasBody, Http
    <2>3. QED
      BY <2>1, <2>2
  <1>5. \A d \in Caller \ {c} : Series(d)'
    <2>1. \A d \in Caller \ {c} : phase'[d] = phase[d] /\ last'[d] = last[d] /\ open'[d] = open[d]
      BY <1>1 DEF IInv, TypeOK
    <2>2. QED
      BY <1>2, <2>1, OthersKeep
  <1>6. QED
    BY <1>2, <1>4, <1>5 DEF IInv, Counted

\* The wait is over, or the context ends it.
LEMMA WaitKeeps == ASSUME IInv, NEW c \in Caller, Wait(c) \/ WaitCut(c) PROVE IInv'
  <1>0. attempt[c] \in 1..5 /\ MaxAttempts(c) \in 1..5 /\ attempt[c] < MaxAttempts(c) /\ open[c] = 0
    BY AttemptsBounded DEF IInv, TypeOK, Series, Wait, WaitCut
  <1>1. TypeOK'
    <2>1. CASE Wait(c)
      BY <1>0, <2>1 DEF IInv, TypeOK, Wait, NextAttempt
    <2>2. CASE WaitCut(c)
      BY <2>2 DEF IInv, TypeOK, WaitCut, Outcomes
    <2>3. QED
      BY <2>1, <2>2
  <1>2. \A d \in Caller \ {c} : Series(d)'
    BY OthersKeep DEF IInv, TypeOK, Wait, WaitCut
  <1>3. Series(c)'
    <2>1. CASE Wait(c)
      <3>1. phase'[c] = "send" /\ attempt'[c] = attempt[c] + 1
        BY <2>1 DEF Wait, NextAttempt, IInv, TypeOK
      <3>2. QED
        BY <1>0, <2>1, <3>1 DEF IInv, Series, Wait, MaxAttempts, Http
    <2>2. CASE WaitCut(c)
      <3>1. phase'[c] = "end" /\ last'[c] \in {"waitCanceled", "waitDeadline"}
        BY <2>2 DEF WaitCut, IInv, TypeOK
      <3>2. QED
        BY <1>0, <2>2, <3>1 DEF IInv, Series, WaitCut, MaxAttempts, HasBody, Http
    <2>3. QED
      BY <2>1, <2>2
  <1>4. QED
    BY <1>1, <1>2, <1>3 DEF IInv, Counted, Wait, WaitCut

\* The series is over, and the caller gets the last response with its body.
LEMMA EndKeeps == ASSUME IInv, NEW c \in Caller, End(c) PROVE IInv'
  <1>1. BreakerOK'
    BY CountKeeps
  <1>2. last[c] \in Outcomes /\ open[c] = IF HasBody(last[c]) THEN 1 ELSE 0
    BY DEF IInv, TypeOK, Series, End
  <1>3. /\ answer' = [answer EXCEPT ![c] = last[c]]
        /\ open' = [open EXCEPT ![c] = 0]
    <2>1. Unwrap(Wrap(last[c])) = last[c]
      BY <1>2, Wrapping
    <2>2. QED
      BY <1>2, <2>1 DEF End, IInv, TypeOK
  <1>4. TypeOK'
    <2>1. /\ current' \in [Caller -> BOOLEAN] /\ breaker' \in BreakerType /\ bad' \in Nat
          /\ breaker'.failures < cfg'.threshold
      BY <1>1 DEF BreakerOK
    <2>2. /\ phase' \in [Caller -> {"idle", "send", "wait", "end"}]
          /\ call' \in [Caller -> Calls] /\ attempt' \in [Caller -> 1..5]
          /\ ctx' \in [Caller -> {"live", "canceled", "deadline"}]
          /\ answer' \in [Caller -> Outcomes \cup {"none", "refused"}]
          /\ open' \in [Caller -> 0..1]
      BY <1>2, <1>3, AnyCallType DEF IInv, TypeOK, End
    <2>3. QED
      BY <2>1, <2>2 DEF IInv, TypeOK, End, BreakerType
  <1>5. \A d \in Caller \ {c} : Series(d)'
    BY <1>3, OthersKeep DEF IInv, TypeOK, End
  <1>6. Series(c)'
    BY <1>3 DEF IInv, TypeOK, End, Series
  <1>7. QED
    BY <1>1, <1>4, <1>5, <1>6 DEF IInv, BreakerOK

\* Every step keeps the invariant.
LEMMA NextKeeps == IInv /\ [Next]_vars => IInv'
  <1> SUFFICES ASSUME IInv, [Next]_vars PROVE IInv'
    OBVIOUS
  <1>1. ASSUME NEW c \in Caller, Step(c) PROVE IInv'
    BY <1>1, InvalidKeeps, AttemptKeeps, WaitKeeps, EndKeeps DEF Step
  <1>2. CASE UNCHANGED vars
    BY <1>2 DEF vars, IInv, TypeOK, Counted, Series, MaxAttempts, HasBody, Http
  <1>3. QED
    BY <1>1, <1>2, ProbeAgainKeeps, BeginKeeps, RefuseKeeps, ContextEndsKeeps DEF Next
-------------------------------------------------------------------------------
(* The theorems. *)

\* The inductive invariant holds in every state of the client.
THEOREM InvariantHolds == Spec => []IInv
  BY InitHolds, NextKeeps, PTL DEF Spec

\* Every variable of the clients and the breaker keeps its type.
THEOREM TypeCorrect == Spec => []TypeOK
  <1>1. IInv => TypeOK
    BY DEF IInv
  <1>2. QED
    BY <1>1, InvariantHolds, PTL

\* No response body is leaked, and the caller gets what the last attempt came
\* to, behind a breaker or not.
THEOREM NothingLeaks == Spec => []ResponsesAreAccounted
  <1>1. IInv => ResponsesAreAccounted
    BY DEF IInv, Series, ResponsesAreAccounted
  <1>2. QED
    BY <1>1, InvariantHolds, PTL

\* Only failure_threshold series in a row that failed open a closed breaker,
\* whatever the callers that gave up and the series of an earlier state did.
THEOREM OpensOnFailures == Spec => TripsOnFailures
  <1>1. IInv /\ [Next]_vars =>
          [breaker.state = "closed" /\ breaker'.state = "open" => bad' >= cfg.threshold]_vars
    <2> SUFFICES ASSUME IInv, Next, breaker.state = "closed", breaker'.state = "open"
                 PROVE  bad' >= cfg.threshold
      OBVIOUS
    <2>1. ASSUME NEW c \in Caller, End(c) PROVE bad' >= cfg.threshold
      BY <2>1, CountKeeps
    <2>2. ~ ProbeAgain
      BY DEF ProbeAgain
    <2>3. ASSUME NEW c \in Caller, Begin(c) PROVE FALSE
      BY <2>3 DEF Begin, IInv, TypeOK
    <2>4. ASSUME NEW c \in Caller,
                 Refuse(c) \/ ContextEnds(c) \/ Invalid(c) \/ Attempt(c) \/ Wait(c) \/ WaitCut(c)
          PROVE  FALSE
      BY <2>4 DEF Refuse, ContextEnds, Invalid, Attempt, Wait, WaitCut
    <2>5. QED
      BY <2>1, <2>2, <2>3, <2>4 DEF Next, Step
  <1>2. QED
    BY <1>1, InvariantHolds, PTL DEF Spec, TripsOnFailures
===============================================================================
