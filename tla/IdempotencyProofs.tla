-------------------------- MODULE IdempotencyProofs ---------------------------
(***************************************************************************)
(* Theorems about Idempotency, for any number of requests, keys and calls  *)
(* and for every timing the theorem's own hypothesis admits.               *)
(***************************************************************************)
EXTENDS Idempotency, TLAPS

LEMMA NoCallType == NoCall \in Call
BY IdempotencyAssumption DEF NoCall

LEMMA NoMarkType == NoMark \in Mark
BY NoCallType, IdempotencyAssumption DEF NoMark, Mark

\* Ageing keeps a mark a mark.
LEMMA AgedType == \A m \in Mark : Aged(m) \in Mark
BY NoMarkType DEF Aged, Mark

\* A decision is one of the answers.
LEMMA DecisionKind ==
    \A c : Decision(c) \in Status \cup {"inProgress", "conflict"}
BY DEF Decision, Status

\* Every variable keeps its type in every step of the middleware.
THEOREM TypeCorrect == Spec => []TypeOK
<1>1. Init => TypeOK
  BY NoCallType, NoMarkType DEF Init, TypeOK, Reply, NoReply, Status
<1>2. TypeOK /\ [Next]_vars => TypeOK'
  <2> SUFFICES ASSUME TypeOK, [Next]_vars PROVE TypeOK'
    OBVIOUS
  <2> USE IdempotencyAssumption
  <2>1. ASSUME NEW r \in Request, Arrive(r) PROVE TypeOK'
    BY <2>1 DEF TypeOK, Arrive, Reply, NoReply, Status
  <2>2. ASSUME NEW r \in Request, BeginUnavailable(r) PROVE TypeOK'
    BY <2>2 DEF TypeOK, BeginUnavailable, Answer, Reply, Status
  <2>3. ASSUME NEW r \in Request, Acquire(r) PROVE TypeOK'
    <3>1. call[r] \in Call /\ Fingerprint(call[r]) \in {Fingerprint(c) : c \in Call}
      BY DEF TypeOK
    <3> QED
      BY <2>3, <3>1, NoCallType DEF TypeOK, Acquire, Reserve, Mark
  <2>3a. ASSUME NEW r \in Request, BeginLost(r) PROVE TypeOK'
    <3>1. call[r] \in Call /\ Fingerprint(call[r]) \in {Fingerprint(c) : c \in Call}
      BY DEF TypeOK
    <3>2. mark' \in [Key -> Mark]
      BY <2>3a, <3>1, NoCallType DEF TypeOK, BeginLost, Reserve, Mark
    <3> QED
      BY <2>3a, <3>2 DEF TypeOK, BeginLost, Answer, Reply, Status
  <2>4. ASSUME NEW r \in Request, Decline(r) PROVE TypeOK'
    <3>1. call[r] \in Call /\ call[r].key \in Key /\ mark[call[r].key].result \in Call
      BY DEF TypeOK, Mark
    <3>2. Decision(call[r]) \in Status \cup {"inProgress", "conflict"}
      BY DecisionKind
    <3>3. reply' \in [Request -> Reply]
      BY <2>4, <3>1, <3>2 DEF TypeOK, Decline, Answer, Reply
    <3> QED
      BY <2>4, <3>3 DEF TypeOK, Decline, Answer
  <2>5. ASSUME NEW r \in Request, Finish(r) PROVE TypeOK'
    BY <2>5 DEF TypeOK, Finish, Reply, Status
  <2>6. ASSUME NEW r \in Request, Panic(r) PROVE TypeOK'
    BY <2>6 DEF TypeOK, Panic, Answer, Reply, Status
  <2>7. ASSUME NEW r \in Request, Persist(r) PROVE TypeOK'
    <3>1. call[r].key \in Key
      BY DEF TypeOK
    <3>2. Stored(r) \in Mark
      BY <3>1 DEF TypeOK, Stored, Mark
    <3> QED
      BY <2>7, <3>1, <3>2 DEF TypeOK, Persist
  <2>8. ASSUME NEW r \in Request, PersistLost(r) PROVE TypeOK'
    BY <2>8 DEF TypeOK, PersistLost
  <2>9. ASSUME NEW r \in Request, Crash(r) PROVE TypeOK'
    BY <2>9 DEF TypeOK, Crash, Answer, Reply, Status
  <2>10. ASSUME Tick PROVE TypeOK'
    <3>1. mark' \in [Key -> Mark]
      BY <2>10, AgedType DEF TypeOK, Tick
    <3>2. budget' \in [Request -> Nat]
      BY <2>10 DEF TypeOK, Tick
    <3> QED
      BY <2>10, <3>1, <3>2 DEF TypeOK, Tick
  <2>11. CASE UNCHANGED vars
    BY <2>11 DEF TypeOK, vars
  <2> QED
    BY <2>1, <2>2, <2>3, <2>3a, <2>4, <2>5, <2>6, <2>7, <2>8, <2>9, <2>10, <2>11 DEF Next, Step
<1> QED
  BY <1>1, <1>2, PTL DEF Spec
-------------------------------------------------------------------------------
\* What is left of a deadline never exceeds it.
BudgetBound ==
    \A r \in Request : stage[r] \in {"begin", "run"} => budget[r] <= RequestTimeout

\* The mark of a request that runs the handler has lived no longer than the
\* request, and when it is gone the request has used up the life of the mark.
Lease(r) ==
    IF Owns(r, call[r].key)
    THEN ProcessingTTL + budget[r] <= mark[call[r].key].ttl + RequestTimeout
    ELSE budget[r] + ProcessingTTL <= RequestTimeout

Leased == \A r \in Request : stage[r] = "run" => Lease(r)

\* One unit of time takes one unit of the life of a mark that has more left.
LEMMA AgedLives ==
    ASSUME NEW m \in Mark, m.state = "processing", m.ttl > 1
    PROVE  Aged(m).state = "processing" /\ Aged(m).owner = m.owner /\ Aged(m).ttl = m.ttl - 1
BY DEF Aged, Mark

\* A deadline is only set to RequestTimeout and only counts down before the
\* handler has answered.
LEMMA BudgetStep == TypeOK /\ BudgetBound /\ [Next]_vars => BudgetBound'
<1> SUFFICES ASSUME TypeOK, BudgetBound, [Next]_vars PROVE BudgetBound'
  OBVIOUS
<1> USE IdempotencyAssumption
<1>1. ASSUME NEW r \in Request, Arrive(r) PROVE BudgetBound'
  BY <1>1 DEF TypeOK, BudgetBound, Arrive
<1>2. ASSUME NEW r \in Request, Step(r) PROVE BudgetBound'
  BY <1>2 DEF TypeOK, BudgetBound, Step, BeginUnavailable, Reserve, Acquire, BeginLost, Decline,
              Finish, Panic, Persist, PersistLost, Answer
<1>3. ASSUME NEW r \in Request, Crash(r) PROVE BudgetBound'
  BY <1>3 DEF TypeOK, BudgetBound, Crash, Answer
<1>4. CASE Tick
  BY <1>4 DEF TypeOK, BudgetBound, Tick
<1>5. CASE UNCHANGED vars
  BY <1>5 DEF BudgetBound, vars
<1> QED
  BY <1>1, <1>2, <1>3, <1>4, <1>5 DEF Next

\* What a request puts under its key leaves a request that does not hold that
\* key with the mark it has, or without the mark it had lost before.
LEMMA OthersMark ==
    ASSUME TypeOK, NEW r \in Request, NEW q \in Request, q # r, ~ Owns(q, call[r].key),
           NEW m, m.owner = r, mark' = [mark EXCEPT ![call[r].key] = m]
    PROVE  \/ mark'[call[q].key] = mark[call[q].key]
           \/ ~ Owns(q, call[q].key) /\ mark'[call[q].key].owner # q
<1>1. call[r].key \in Key /\ call[q].key \in Key
  BY IdempotencyAssumption DEF TypeOK
<1>2. CASE call[q].key = call[r].key
  BY <1>1, <1>2 DEF TypeOK
<1>3. CASE call[q].key # call[r].key
  BY <1>1, <1>3 DEF TypeOK
<1> QED
  BY <1>2, <1>3

LEMMA ReservedMark ==
    ASSUME TypeOK, NEW r \in Request, NEW q \in Request, q # r, Reserve(r)
    PROVE  \/ mark'[call[q].key] = mark[call[q].key]
           \/ ~ Owns(q, call[q].key) /\ mark'[call[q].key].owner # q
<1> DEFINE taken == [state |-> "processing", owner |-> r, ttl |-> ProcessingTTL,
                     print |-> Fingerprint(call[r]), result |-> NoCall]
<1>1. mark' = [mark EXCEPT ![call[r].key] = taken] /\ taken.owner = r
  BY DEF Reserve
<1>2. ~ Owns(q, call[r].key)
  BY DEF Reserve, Free, Owns
<1> HIDE DEF taken
<1> QED
  BY <1>1, <1>2, OthersMark

\* Nobody takes the key of a running handler before the mark has lived as
\* long as it was given.
THEOREM MarksAreHeld == Spec => []WorksUnderMark
<1> USE IdempotencyAssumption
<1>1. Init => BudgetBound /\ Leased
  BY DEF Init, BudgetBound, Leased
<1>2. TypeOK /\ BudgetBound /\ Leased /\ [Next]_vars => Leased'
  <2> SUFFICES ASSUME TypeOK, BudgetBound, Leased, [Next]_vars,
                      NEW q \in Request, stage'[q] = "run"
               PROVE  Lease(q)'
    BY DEF Leased
  <2>0. \A r \in Request : call[r].key \in Key /\ budget[r] \in Nat
    BY DEF TypeOK
  <2>1. ASSUME NEW r \in Request,
               \/ Arrive(r) \/ BeginUnavailable(r) \/ Decline(r) \/ Panic(r) \/ Crash(r)
               \/ Finish(r) \/ PersistLost(r)
        PROVE  Lease(q)'
    <3>1. /\ q # r /\ stage[q] = "run" /\ mark' = mark
          /\ call'[q] = call[q] /\ budget'[q] = budget[q]
      BY <2>1 DEF TypeOK, Arrive, BeginUnavailable, Decline, Panic, Crash, Finish, PersistLost,
                  Answer
    <3> QED
      BY <3>1 DEF Leased, Lease, Owns
  <2>2. ASSUME NEW r \in Request, Acquire(r) PROVE Lease(q)'
    <3>1. CASE q = r
      BY <2>0, <2>2, <3>1 DEF TypeOK, Mark, BudgetBound, Acquire, Reserve, Lease, Owns
    <3>2. CASE q # r
      <4>1. stage[q] = "run" /\ call'[q] = call[q] /\ budget'[q] = budget[q]
        BY <2>2, <3>2 DEF TypeOK, Acquire
      <4>2. \/ mark'[call[q].key] = mark[call[q].key]
            \/ ~ Owns(q, call[q].key) /\ mark'[call[q].key].owner # q
        BY <2>2, <3>2, ReservedMark DEF Acquire
      <4> QED
        BY <4>1, <4>2 DEF Leased, Lease, Owns
    <3> QED
      BY <3>1, <3>2
  <2>3. ASSUME NEW r \in Request, BeginLost(r) PROVE Lease(q)'
    <3>1. q # r /\ stage[q] = "run" /\ call' = call /\ budget'[q] = budget[q]
      BY <2>3 DEF TypeOK, BeginLost, Answer
    <3>2. \/ mark'[call[q].key] = mark[call[q].key]
          \/ ~ Owns(q, call[q].key) /\ mark'[call[q].key].owner # q
      BY <2>3, <3>1, ReservedMark DEF BeginLost
    <3> QED
      BY <3>1, <3>2 DEF Leased, Lease, Owns
  <2>4. ASSUME NEW r \in Request, Persist(r) PROVE Lease(q)'
    <3>1. q # r /\ stage[q] = "run" /\ call' = call /\ budget'[q] = budget[q]
      BY <2>4 DEF TypeOK, Persist
    <3>2. \/ mark'[call[q].key] = mark[call[q].key]
          \/ ~ Owns(q, call[q].key) /\ mark'[call[q].key].owner # q
      <4>1. CASE Owns(r, call[r].key) /\ mark' = [mark EXCEPT ![call[r].key] = Stored(r)]
        <5>1. Stored(r).owner = r /\ ~ Owns(q, call[r].key)
          BY <3>1, <4>1 DEF Stored, Owns
        <5> QED
          BY <3>1, <4>1, <5>1, OthersMark
      <4>2. CASE UNCHANGED mark
        BY <4>2
      <4> QED
        BY <2>4, <4>1, <4>2 DEF Persist
    <3> QED
      BY <3>1, <3>2 DEF Leased, Lease, Owns
  <2>5. CASE Tick
    <3>1. stage[q] = "run" /\ call' = call /\ budget[q] > 0 /\ budget'[q] = budget[q] - 1
      BY <2>5 DEF TypeOK, Tick
    <3> DEFINE m == mark[call[q].key]
    <3>2. m \in Mark /\ m.ttl \in Nat /\ mark'[call[q].key] = Aged(m)
      BY <2>0, <2>5 DEF TypeOK, Tick, Mark
    <3>3. CASE m.state = "processing" /\ m.owner = q /\ m.ttl > 1
      <4>1. Aged(m).state = "processing" /\ Aged(m).owner = m.owner /\ Aged(m).ttl = m.ttl - 1
        BY <3>2, <3>3, AgedLives
      <4> QED
        BY <2>0, <3>1, <3>2, <3>3, <4>1 DEF Leased, Lease, Owns
    <3>4. CASE m.state = "processing" /\ m.owner = q /\ ~ (m.ttl > 1)
      <4>1. Aged(m).state = "absent"
        BY <3>4 DEF Aged, NoMark
      <4> QED
        BY <2>0, <3>1, <3>2, <3>4, <4>1 DEF Leased, Lease, Owns
    <3>5. CASE ~ (m.state = "processing" /\ m.owner = q)
      <4>1. ~ (Aged(m).state = "processing" /\ Aged(m).owner = q)
        BY <3>2, <3>5 DEF Aged, NoMark, Mark
      <4> QED
        BY <2>0, <3>1, <3>2, <3>5, <4>1 DEF Leased, Lease, Owns
    <3> QED
      BY <3>3, <3>4, <3>5
  <2>6. CASE UNCHANGED vars
    BY <2>6 DEF Leased, Lease, vars, Owns
  <2> QED
    BY <2>1, <2>2, <2>3, <2>4, <2>5, <2>6 DEF Next, Step
<1>3. Leased => WorksUnderMark
  BY DEF Leased, Lease, WorksUnderMark
<1> QED
  BY <1>1, <1>2, <1>3, TypeCorrect, BudgetStep, PTL DEF Spec

\* While the mark outlives a request's deadline, no other request can take a
\* key whose handler runs: README's "concurrent execution returns 30010".
THEOREM OneExecutionPerKey == ProcessingTTL > RequestTimeout => (Spec => []NoOverlap)
<1> SUFFICES ASSUME ProcessingTTL > RequestTimeout PROVE Spec => []NoOverlap
  OBVIOUS
<1>1. TypeOK /\ WorksUnderMark => NoOverlap
  <2> SUFFICES ASSUME TypeOK, WorksUnderMark PROVE NoOverlap
    OBVIOUS
  <2>1. \A r \in Request : stage[r] = "run" => Owns(r, call[r].key)
    BY IdempotencyAssumption DEF TypeOK, WorksUnderMark
  <2> QED
    BY <2>1 DEF NoOverlap, Owns
<1> QED
  BY <1>1, TypeCorrect, MarksAreHeld, PTL
-------------------------------------------------------------------------------
\* With the two seconds of the publication inside the life of the mark as
\* well, a worker is the owner until its result is stored.
THEOREM ResultIsNeverRefused ==
    ProcessingTTL > RequestTimeout + PersistTimeout => (Spec => []LeaseOutlivesWork)
<1> SUFFICES ASSUME ProcessingTTL > RequestTimeout + PersistTimeout
             PROVE  Spec => []LeaseOutlivesWork
  OBVIOUS
<1> USE IdempotencyAssumption
<1>1. Init => BudgetBound /\ LeaseOutlivesWork
  BY DEF Init, BudgetBound, LeaseOutlivesWork
<1>2. TypeOK /\ BudgetBound /\ LeaseOutlivesWork /\ [Next]_vars => LeaseOutlivesWork'
  <2> DEFINE Margin(r) == IF stage[r] = "run" THEN budget[r] + PersistTimeout ELSE budget[r]
             Working(r) == stage[r] \in {"run", "persist"}
             Held(r) == Owns(r, call[r].key) /\ mark[call[r].key].ttl > Margin(r)
  <2>0. LeaseOutlivesWork <=> \A r \in Request : Working(r) => Held(r)
    BY DEF LeaseOutlivesWork
  <2>0a. LeaseOutlivesWork' <=> \A r \in Request : Working(r)' => Held(r)'
    BY DEF LeaseOutlivesWork, Owns
  <2> SUFFICES ASSUME TypeOK, BudgetBound, \A r \in Request : Working(r) => Held(r),
                      [Next]_vars, NEW q \in Request, Working(q)'
               PROVE  Held(q)'
    BY <2>0, <2>0a
  <2>1. ASSUME NEW r \in Request, Arrive(r) PROVE Held(q)'
    BY <2>1 DEF TypeOK, Arrive, Owns
  <2>2. ASSUME NEW r \in Request, BeginUnavailable(r) \/ Decline(r) \/ Panic(r) \/ Crash(r)
        PROVE  Held(q)'
    BY <2>2 DEF TypeOK, BeginUnavailable, Decline, Panic, Crash, Answer, Owns
  <2>3. ASSUME NEW r \in Request, Acquire(r) PROVE Held(q)'
    <3>1. CASE q = r
      BY <2>3, <3>1 DEF TypeOK, Mark, BudgetBound, Acquire, Reserve, Owns
    <3>2. CASE q # r
      <4>1. Working(q) /\ stage'[q] = stage[q] /\ call'[q] = call[q] /\ budget'[q] = budget[q]
        BY <2>3, <3>2 DEF TypeOK, Acquire, Reserve
      <4>2. call[q].key # call[r].key
        BY <2>3, <4>1 DEF Acquire, Reserve, Free, Owns
      <4> QED
        BY <2>3, <4>1, <4>2 DEF TypeOK, Acquire, Reserve, Owns
    <3> QED
      BY <3>1, <3>2
  <2>3a. ASSUME NEW r \in Request, BeginLost(r) PROVE Held(q)'
    <3>1. q # r /\ Working(q) /\ stage'[q] = stage[q] /\ call' = call /\ budget'[q] = budget[q]
      BY <2>3a DEF TypeOK, BeginLost, Answer
    <3>2. call[q].key # call[r].key
      BY <2>3a, <3>1 DEF BeginLost, Reserve, Free, Owns
    <3> QED
      BY <2>3a, <3>1, <3>2 DEF TypeOK, BeginLost, Reserve, Owns
  <2>4. ASSUME NEW r \in Request, Finish(r) PROVE Held(q)'
    BY <2>4 DEF TypeOK, Mark, Finish, Owns
  <2>5. ASSUME NEW r \in Request, PersistLost(r) PROVE Held(q)'
    BY <2>5 DEF TypeOK, PersistLost, Owns
  <2>6. ASSUME NEW r \in Request, Persist(r) PROVE Held(q)'
    <3>1. q # r /\ Working(q) /\ stage'[q] = stage[q] /\ call' = call /\ budget'[q] = budget[q]
      BY <2>6 DEF TypeOK, Persist
    <3>2. mark'[call[q].key] = mark[call[q].key]
      BY <2>6, <3>1 DEF TypeOK, Persist, Owns
    <3> QED
      BY <3>1, <3>2 DEF Owns
  <2>7. CASE Tick
    <3>1. /\ Working(q) /\ stage' = stage /\ call' = call
          /\ budget[q] > 0 /\ budget'[q] = budget[q] - 1
      BY <2>7 DEF TypeOK, Tick
    <3> DEFINE m == mark[call[q].key]
    <3>2. call[q].key \in Key /\ m \in Mark /\ budget[q] \in Nat /\ m.ttl \in Nat
      BY DEF TypeOK, Mark
    <3>3. m.state = "processing" /\ m.owner = q /\ m.ttl > Margin(q) /\ m.ttl > 1
      BY <3>1, <3>2 DEF Owns
    <3>4. mark'[call[q].key] = Aged(m)
      BY <2>7, <3>2 DEF Tick
    <3>5. Aged(m).state = "processing" /\ Aged(m).owner = m.owner /\ Aged(m).ttl = m.ttl - 1
      BY <3>2, <3>3, AgedLives
    <3> QED
      BY <3>1, <3>2, <3>3, <3>4, <3>5 DEF Owns
  <2>8. CASE UNCHANGED vars
    BY <2>8 DEF vars, Owns
  <2> QED
    BY <2>1, <2>2, <2>3, <2>3a, <2>4, <2>5, <2>6, <2>7, <2>8 DEF Next, Step
<1> QED
  BY <1>1, <1>2, TypeCorrect, BudgetStep, PTL DEF Spec
-------------------------------------------------------------------------------
\* What a worker holds was taken for its own call, and what is published
\* under a fingerprint answers a call with that fingerprint.
PrintsAgree ==
    /\ \A r \in Request : stage[r] \in {"run", "persist"} /\ Owns(r, call[r].key) =>
         mark[call[r].key].print = Fingerprint(call[r])
    /\ \A k \in Key : mark[k].state \in {"completed", "failed"} =>
         mark[k].print = Fingerprint(mark[k].result)

\* Ageing changes nothing of a mark but its life.
LEMMA AgedKeeps ==
    ASSUME NEW m \in Mark, Aged(m).state # "absent"
    PROVE  /\ Aged(m).state = m.state
           /\ Aged(m).owner = m.owner
           /\ Aged(m).print = m.print
           /\ Aged(m).result = m.result
BY DEF Aged, Mark, NoMark

LEMMA PrintsStep == TypeOK /\ PrintsAgree /\ [Next]_vars => PrintsAgree'
<1> SUFFICES ASSUME TypeOK, PrintsAgree, [Next]_vars PROVE PrintsAgree'
  OBVIOUS
<1> USE IdempotencyAssumption
<1>1. ASSUME NEW r \in Request, Arrive(r) PROVE PrintsAgree'
  BY <1>1 DEF TypeOK, PrintsAgree, Arrive, Owns
<1>2. ASSUME NEW r \in Request,
             BeginUnavailable(r) \/ Decline(r) \/ Panic(r) \/ Crash(r)
      PROVE  PrintsAgree'
  BY <1>2 DEF TypeOK, PrintsAgree, BeginUnavailable, Decline, Panic, Crash, Answer, Owns
<1>3. ASSUME NEW r \in Request, Acquire(r) \/ BeginLost(r) PROVE PrintsAgree'
  <2>1. call[r].key \in Key
    BY DEF TypeOK
  <2>2. ASSUME NEW q \in Request, stage'[q] \in {"run", "persist"}, Owns(q, call[q].key)'
        PROVE  (mark[call[q].key].print = Fingerprint(call[q]))'
    BY <1>3, <2>1, <2>2 DEF TypeOK, PrintsAgree, Acquire, BeginLost, Answer, Reserve, Owns,
                                   Fingerprint
  <2>3. ASSUME NEW k \in Key, mark'[k].state \in {"completed", "failed"}
        PROVE  (mark[k].print = Fingerprint(mark[k].result))'
    <3> DEFINE taken == [state |-> "processing", owner |-> r, ttl |-> ProcessingTTL,
                         print |-> Fingerprint(call[r]), result |-> NoCall]
    <3>1. mark' = [mark EXCEPT ![call[r].key] = taken]
      BY <1>3 DEF Acquire, BeginLost, Reserve
    <3>2. taken.state = "processing"
      OBVIOUS
    <3> HIDE DEF taken
    <3>3. mark'[k] = mark[k]
      BY <2>1, <2>3, <3>1, <3>2 DEF TypeOK
    <3> QED
      BY <2>3, <3>3 DEF PrintsAgree, Fingerprint
  <2> QED
    BY <2>2, <2>3 DEF PrintsAgree
<1>4. ASSUME NEW r \in Request, Finish(r) \/ PersistLost(r) PROVE PrintsAgree'
  BY <1>4 DEF TypeOK, PrintsAgree, Finish, PersistLost, Owns
<1>5. ASSUME NEW r \in Request, Persist(r) PROVE PrintsAgree'
  <2>1. call[r].key \in Key /\ call' = call
    BY <1>5 DEF TypeOK, Persist
  <2>2. CASE Owns(r, call[r].key) /\ mark' = [mark EXCEPT ![call[r].key] = Stored(r)]
    <3>1. Stored(r).print = Fingerprint(Stored(r).result)
      BY <1>5, <2>2 DEF PrintsAgree, Persist, Stored
    <3>2. Stored(r).state # "processing"
      BY DEF Stored
    <3> QED
      BY <1>5, <2>1, <2>2, <3>1, <3>2 DEF TypeOK, PrintsAgree, Persist, Owns
  <2>3. CASE UNCHANGED mark
    BY <1>5, <2>1, <2>3 DEF TypeOK, PrintsAgree, Persist, Owns
  <2> QED
    BY <1>5, <2>2, <2>3 DEF Persist
<1>6. CASE Tick
  <2>1. \A k \in Key : mark'[k] = Aged(mark[k]) /\ mark[k] \in Mark
    BY <1>6 DEF TypeOK, Tick
  <2>2. stage' = stage /\ call' = call /\ \A q \in Request : call[q].key \in Key
    BY <1>6 DEF TypeOK, Tick
  <2> QED
    BY <2>1, <2>2, AgedKeeps DEF PrintsAgree, Owns
<1>7. CASE UNCHANGED vars
  BY <1>7 DEF PrintsAgree, vars, Owns
<1> QED
  BY <1>1, <1>2, <1>3, <1>4, <1>5, <1>6, <1>7 DEF Next, Step

\* No caller is ever given the stored response of another subject, path or
\* body, however late workers are and whatever the times are.
THEOREM ReplaysAreOwn == Spec => []ReplayIsOwn
<1> USE IdempotencyAssumption
<1>1. Init => PrintsAgree /\ ReplayIsOwn
  BY DEF Init, PrintsAgree, ReplayIsOwn, NoMark, NoReply
<1>2. TypeOK /\ PrintsAgree /\ ReplayIsOwn /\ [Next]_vars => ReplayIsOwn'
  <2> SUFFICES ASSUME TypeOK, PrintsAgree, ReplayIsOwn, [Next]_vars PROVE ReplayIsOwn'
    OBVIOUS
  <2>1. ASSUME NEW r \in Request, Arrive(r) PROVE ReplayIsOwn'
    BY <2>1 DEF TypeOK, ReplayIsOwn, Arrive, NoReply
  <2>2. ASSUME NEW r \in Request, BeginUnavailable(r) \/ BeginLost(r) \/ Panic(r) \/ Crash(r)
        PROVE  ReplayIsOwn'
    BY <2>2 DEF TypeOK, ReplayIsOwn, BeginUnavailable, BeginLost, Panic, Crash, Answer
  <2>3. ASSUME NEW r \in Request, Decline(r) PROVE ReplayIsOwn'
    <3> DEFINE c == call[r]
               m == mark[c.key]
    <3>1. c.key \in Key /\ m \in Mark /\ m.state # "absent"
      BY <2>3 DEF TypeOK, Decline, Free
    <3>2. Decision(c) \in Status => m.state \in {"completed", "failed"} /\ m.print = Fingerprint(c)
      BY <3>1 DEF Decision, Status, Mark
    <3>3. Decision(c) \in Status => Fingerprint(m.result) = Fingerprint(c)
      BY <3>1, <3>2 DEF PrintsAgree
    <3>4. Decision(c) \in Status => /\ m.result.subject = c.subject
                                    /\ m.result.path = c.path
                                    /\ m.result.body = c.body
      BY <3>3 DEF Fingerprint
    <3> QED
      BY <2>3, <3>4 DEF TypeOK, ReplayIsOwn, Decline, Answer
  <2>4. ASSUME NEW r \in Request, Finish(r) PROVE ReplayIsOwn'
    BY <2>4 DEF TypeOK, ReplayIsOwn, Finish
  <2>5. ASSUME NEW r \in Request, Acquire(r) \/ Persist(r) \/ PersistLost(r) PROVE ReplayIsOwn'
    BY <2>5 DEF ReplayIsOwn, Acquire, Persist, PersistLost
  <2>6. CASE Tick \/ UNCHANGED vars
    BY <2>6 DEF ReplayIsOwn, Tick, vars
  <2> QED
    BY <2>1, <2>2, <2>3, <2>4, <2>5, <2>6 DEF Next, Step
<1> QED
  BY <1>1, <1>2, TypeCorrect, PrintsStep, PTL DEF Spec

\* A published result is only ever removed by the end of its life: README's
\* "an expired worker cannot overwrite a newer owner".
THEOREM StoredResultsAreFinal == Spec => StoredResultIsFinal
<1> USE IdempotencyAssumption
<1> DEFINE Kept(k) == mark[k].state \in {"completed", "failed"} =>
             \/ mark'[k] = NoMark /\ mark[k].ttl = 1
             \/ mark'[k] = [mark[k] EXCEPT !.ttl = mark'[k].ttl] /\ mark'[k].ttl <= mark[k].ttl
           Alive == \A k \in Key : mark[k].state # "absent" => mark[k].ttl > 0
<1>1. Init => Alive
  BY DEF Init, NoMark
<1>2. TypeOK /\ Alive /\ [Next]_vars => Alive' /\ [\A k \in Key : Kept(k)]_vars
  <2> SUFFICES ASSUME TypeOK, Alive, Next PROVE Alive' /\ \A k \in Key : Kept(k)
    BY DEF vars
  <2>1. CASE UNCHANGED mark
    <3>1. \A k \in Key : mark'[k] = [mark[k] EXCEPT !.ttl = mark'[k].ttl] /\ mark[k].ttl \in Nat
      BY <2>1 DEF TypeOK, Mark
    <3> QED
      BY <2>1, <3>1
  <2>2. ASSUME NEW r \in Request, Reserve(r) PROVE Alive' /\ \A k \in Key : Kept(k)
    <3>1. \A k \in Key : mark[k].state # "absent" => mark'[k] = mark[k]
      BY <2>2 DEF TypeOK, Reserve, Free
    <3>2. Alive'
      BY <2>2 DEF TypeOK, Reserve, Mark
    <3> QED
      BY <3>1, <3>2 DEF TypeOK, Mark
  <2>3. ASSUME NEW r \in Request, Persist(r), ~ UNCHANGED mark
        PROVE  Alive' /\ \A k \in Key : Kept(k)
    <3>1. Owns(r, call[r].key) /\ mark' = [mark EXCEPT ![call[r].key] = Stored(r)]
      BY <2>3 DEF Persist
    <3>2. \A k \in Key : mark[k].state \in {"completed", "failed"} =>
            /\ mark'[k] = [mark[k] EXCEPT !.ttl = mark'[k].ttl]
            /\ mark'[k].ttl <= mark[k].ttl
      BY <3>1 DEF TypeOK, Mark, Owns
    <3>3. Alive'
      BY <3>1 DEF TypeOK, Stored
    <3> QED
      BY <3>2, <3>3
  <2>4. CASE Tick
    <3> SUFFICES ASSUME NEW k \in Key
                 PROVE  (mark'[k].state # "absent" => mark'[k].ttl > 0) /\ Kept(k)
      OBVIOUS
    <3>1. mark'[k] = Aged(mark[k]) /\ mark[k] \in Mark
      BY <2>4 DEF TypeOK, Tick
    <3>2. mark[k].state # "absent" => mark[k].ttl \in Nat /\ mark[k].ttl > 0
      BY <3>1 DEF Mark
    <3>3. CASE mark[k].state = "absent"
      BY <3>1, <3>3 DEF Aged
    <3>4. CASE mark[k].state # "absent" /\ mark[k].ttl > 1
      <4>1. mark'[k] = [mark[k] EXCEPT !.ttl = mark[k].ttl - 1]
        BY <3>1, <3>4 DEF Aged
      <4>2. mark'[k].ttl = mark[k].ttl - 1
        BY <3>1, <4>1 DEF Mark
      <4> QED
        BY <3>2, <3>4, <4>1, <4>2
    <3>5. CASE mark[k].state # "absent" /\ ~ (mark[k].ttl > 1)
      <4>1. mark'[k] = NoMark /\ mark[k].ttl = 1
        BY <3>1, <3>2, <3>5 DEF Aged
      <4> QED
        BY <4>1 DEF NoMark
    <3> QED
      BY <3>3, <3>4, <3>5
  <2>5. ASSUME NEW r \in Request, Arrive(r) \/ Step(r) \/ Crash(r)
        PROVE  Reserve(r) \/ Persist(r) \/ UNCHANGED mark
    BY <2>5 DEF Step, Arrive, Acquire, BeginLost, Crash, BeginUnavailable, Decline, Finish, Panic,
                PersistLost, Answer
  <2> QED
    BY <2>1, <2>2, <2>3, <2>4, <2>5 DEF Next
<1> QED
  BY <1>1, <1>2, TypeCorrect, PTL DEF Spec, StoredResultIsFinal
===============================================================================
