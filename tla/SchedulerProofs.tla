---------------------------- MODULE SchedulerProofs ----------------------------
(***************************************************************************)
(* Proofs about Scheduler, for every set of replicas and tokens and every  *)
(* choice of the lock's life and of the timeouts.                          *)
(*                                                                         *)
(* That a running job holds the lock is not inductive: it rests on how old *)
(* the lock is (Leased), on tokens that belong to one attempt (Private)    *)
(* and on what an attempt has at each stage (Stages).                      *)
(***************************************************************************)
EXTENDS Scheduler, TLAPS

USE SchedulerAssumption

\* What an attempt has at each stage: a token from the moment Redis may have
\* taken the lock for it, and none before and after.
Stages ==
    \A j \in Job :
      /\ stage[j] \in {"try", "taken", "unlock"} => redis
      /\ stage[j] \in {"idle", "try"} => mine[j] = NoToken
      /\ stage[j] \in {"taken", "run", "unlock"} /\ redis => mine[j] \in Token

\* A token belongs to one attempt, and a release that nobody waits for carries
\* the token of an attempt that is over.
Private ==
    /\ \A i, j \in Job : i # j /\ mine[i] \in Token => mine[i] # mine[j]
    /\ \A j \in Job : mine[j] \notin late

\* Between TryLock and the end of its job an attempt holds the lock for as long
\* as LockTTL has not passed since it was asked for.
Leased ==
    \A j \in Job :
      redis /\ stage[j] \in {"taken", "run"} /\ age[j] < LockTTL =>
        lock.token = mine[j] /\ lock.ttl + age[j] >= LockTTL

IInv == TypeOK /\ Stages /\ Private /\ Leased
-------------------------------------------------------------------------------
(* What the operators of the model do. *)

LEMMA FreeType == Free \in [token : Token \cup {NoToken}, ttl : 0..LockTTL]
  BY DEF Free

\* The lock stays a lock when time passes and when it is released.
LEMMA LockType ==
    ASSUME TypeOK
    PROVE  /\ Aged \in [token : Token \cup {NoToken}, ttl : 0..LockTTL]
           /\ \A t : Released(t) \in [token : Token \cup {NoToken}, ttl : 0..LockTTL]
  <1>1. CASE lock.ttl > 1
    BY <1>1, FreeType DEF TypeOK, Aged, Released
  <1>2. CASE ~ (lock.ttl > 1)
    BY <1>2, FreeType DEF TypeOK, Aged, Released
  <1>3. QED
    BY <1>1, <1>2

\* A release with a token that no attempt of a job has leaves its lock alone.
LEMMA ReleaseSpares ==
    ASSUME IInv, NEW t \in Token, NEW j \in Job, mine[j] # t,
           redis, stage[j] \in {"taken", "run"}, age[j] < LockTTL
    PROVE  Released(t).token = mine[j] /\ Released(t).ttl + age[j] >= LockTTL
  BY DEF IInv, Leased, Released

\* An attempt that ends, with or without a release left on its way, leaves the
\* invariant, as long as the lock spares the attempts of the others.
LEMMA QuitKeeps ==
    ASSUME IInv, NEW j \in Job, Quit(j), UNCHANGED redis,
           lock' \in [token : Token \cup {NoToken}, ttl : 0..LockTTL],
           late' = late \/ (mine[j] \in Token /\ late' = late \cup {mine[j]}),
           \A i \in Job \ {j} :
             redis /\ stage[i] \in {"taken", "run"} /\ age[i] < LockTTL =>
               lock'.token = mine[i] /\ lock'.ttl + age[i] >= LockTTL
    PROVE  IInv'
  <1>0. MaxAge \in Nat
    BY DEF MaxAge
  <1>1. TypeOK'
    BY <1>0 DEF IInv, TypeOK, Quit, Go
  <1>2. \A i \in Job : /\ stage'[i] = IF i = j THEN "idle" ELSE stage[i]
                       /\ mine'[i] = IF i = j THEN NoToken ELSE mine[i]
                       /\ age'[i] = IF i = j THEN 0 ELSE age[i]
    BY DEF IInv, TypeOK, Quit, Go
  <1>3. Stages'
    BY <1>2 DEF IInv, Stages
  <1>4. Private'
    BY <1>2 DEF IInv, TypeOK, Private
  <1>5. Leased'
    BY <1>2 DEF Leased
  <1>6. QED
    BY <1>1, <1>3, <1>4, <1>5 DEF IInv
-------------------------------------------------------------------------------
(* One lemma per action. *)

LEMMA InitHolds == Init => IInv
  <1> SUFFICES ASSUME Init PROVE IInv
    OBVIOUS
  <1>0. MaxAge \in Nat
    BY DEF MaxAge
  <1>1. TypeOK
    BY <1>0, FreeType DEF Init, TypeOK
  <1>2. QED
    BY <1>1 DEF Init, IInv, Stages, Private, Leased

\* Cron fires: the attempt has no token yet.
LEMMA FireKeeps == ASSUME IInv, NEW j \in Job, Fire(j) PROVE IInv'
  <1>1. /\ \A i \in Job : stage'[i] = IF i = j THEN stage'[j] ELSE stage[i]
        /\ stage'[j] = IF redis THEN "try" ELSE "run"
    BY DEF IInv, TypeOK, Fire, Go
  <1>2. TypeOK'
    BY DEF IInv, TypeOK, Fire, Go
  <1>3. QED
    BY <1>1, <1>2 DEF IInv, Stages, Private, Leased, Fire

\* Redis takes the free lock for a token nobody has: nobody else had a lease.
LEMMA TakeKeeps == ASSUME IInv, NEW j \in Job, Take(j) PROVE IInv'
  <1>1. PICK t \in Token \ (late \cup {mine[i] : i \in Job}) :
            /\ lock' = [token |-> t, ttl |-> LockTTL]
            /\ mine' = [mine EXCEPT ![j] = t]
    BY DEF Take
  <1>2. TypeOK'
    BY <1>1 DEF IInv, TypeOK, Take, Go
  <1>3. \A i \in Job : /\ stage'[i] = IF i = j THEN "taken" ELSE stage[i]
                       /\ mine'[i] = IF i = j THEN t ELSE mine[i]
    BY <1>1 DEF IInv, TypeOK, Take, Go
  <1>4. redis /\ UNCHANGED <<redis, age, late>>
    BY DEF IInv, Stages, Take
  <1>5. Stages' /\ Private'
    BY <1>1, <1>3, <1>4 DEF IInv, Stages, Private
  <1>6. ASSUME NEW i \in Job, redis, stage[i] \in {"taken", "run"}, age[i] < LockTTL PROVE FALSE
    BY <1>6 DEF IInv, Stages, Leased, Take, Free
  <1>7. Leased'
    <2> SUFFICES ASSUME NEW i \in Job, stage'[i] \in {"taken", "run"}, age[i] < LockTTL
                 PROVE  lock'.token = mine'[i] /\ lock'.ttl + age[i] >= LockTTL
      BY <1>4 DEF Leased
    <2>1. i = j
      BY <1>3, <1>4, <1>6
    <2>2. age[j] \in Nat
      BY DEF IInv, TypeOK
    <2>3. QED
      BY <1>1, <1>3, <2>1, <2>2
  <1>8. QED
    BY <1>2, <1>5, <1>7 DEF IInv

\* redsync reports the lock to its caller.
LEMMA AcquiredKeeps == ASSUME IInv, NEW j \in Job, Acquired(j) PROVE IInv'
  <1>1. \A i \in Job : stage'[i] = IF i = j THEN "run" ELSE stage[i]
    BY DEF IInv, TypeOK, Acquired, Go
  <1>2. TypeOK'
    BY DEF IInv, TypeOK, Acquired, Go
  <1>3. QED
    BY <1>1, <1>2 DEF IInv, Stages, Private, Leased, Acquired

\* Attempts that end without a change of the lock: contention, an error, a
\* crash, and an Unlock that fails.
LEMMA GiveUpKeeps ==
    ASSUME IInv, NEW j \in Job, Contended(j) \/ TryFails(j) \/ UnlockFails(j) \/ Crash(j)
    PROVE  IInv'
  <1>1. Quit(j) /\ UNCHANGED <<redis, lock>>
    BY DEF Contended, TryFails, UnlockFails, Crash
  <1>2. late' = late \/ (mine[j] \in Token /\ late' = late \cup {mine[j]})
    BY DEF Contended, TryFails, UnlockFails, Crash, Abandon, IInv, Stages
  <1>3. \A i \in Job : redis /\ stage[i] \in {"taken", "run"} /\ age[i] < LockTTL =>
            lock'.token = mine[i] /\ lock'.ttl + age[i] >= LockTTL
    BY <1>1 DEF IInv, Leased
  <1>4. lock' \in [token : Token \cup {NoToken}, ttl : 0..LockTTL]
    BY <1>1 DEF IInv, TypeOK
  <1>5. QED
    BY <1>1, <1>2, <1>3, <1>4, QuitKeeps

\* The job is over.
LEMMA FinishKeeps == ASSUME IInv, NEW j \in Job, Finish(j) PROVE IInv'
  <1>1. CASE ~ redis
    <2>1. Quit(j) /\ UNCHANGED <<redis, lock, late>>
      BY <1>1 DEF Finish
    <2>2. lock' \in [token : Token \cup {NoToken}, ttl : 0..LockTTL]
      BY <2>1 DEF IInv, TypeOK
    <2>3. QED
      BY <1>1, <2>1, <2>2, QuitKeeps
  <1>2. CASE redis
    <2>0. MaxAge \in Nat
      BY DEF MaxAge
    <2>1. TypeOK'
      BY <1>2, <2>0 DEF IInv, TypeOK, Finish, Go
    <2>2. /\ \A i \in Job : /\ stage'[i] = IF i = j THEN "unlock" ELSE stage[i]
                            /\ age'[i] = IF i = j THEN 0 ELSE age[i]
          /\ UNCHANGED <<redis, mine, lock, late>>
      BY <1>2 DEF IInv, TypeOK, Finish, Go
    <2>3. QED
      BY <1>2, <2>1, <2>2 DEF IInv, Stages, Private, Leased, Finish
  <1>3. QED
    BY <1>1, <1>2 DEF IInv, TypeOK

\* Redis compares the token, so only the lock of this attempt is deleted.
LEMMA UnlockKeeps == ASSUME IInv, NEW j \in Job, Unlock(j) PROVE IInv'
  <1>1. mine[j] \in Token
    BY DEF IInv, Stages, Unlock
  <1>2. \A i \in Job \ {j} : mine[i] # mine[j]
    BY <1>1 DEF IInv, Private
  <1>3. \A i \in Job \ {j} : redis /\ stage[i] \in {"taken", "run"} /\ age[i] < LockTTL =>
            lock'.token = mine[i] /\ lock'.ttl + age[i] >= LockTTL
    BY <1>1, <1>2, ReleaseSpares DEF Unlock
  <1>4. lock' \in [token : Token \cup {NoToken}, ttl : 0..LockTTL]
    BY LockType DEF IInv, Unlock
  <1>5. QED
    BY <1>3, <1>4, QuitKeeps DEF Unlock

\* A release that arrives late carries a token that no attempt has any more.
LEMMA LateReleaseKeeps == ASSUME IInv, LateRelease PROVE IInv'
  <1>1. PICK t \in late : lock' = Released(t) /\ late' = late \ {t}
                          /\ UNCHANGED <<redis, stage, mine, age>>
    BY DEF LateRelease
  <1>2. t \in Token /\ \A j \in Job : mine[j] # t
    BY DEF IInv, TypeOK, Private
  <1>3. TypeOK'
    BY <1>1, LockType DEF IInv, TypeOK
  <1>4. Leased'
    BY <1>1, <1>2, ReleaseSpares DEF Leased
  <1>5. QED
    BY <1>1, <1>3, <1>4 DEF IInv, Stages, Private

\* Time passes for an attempt and for its lock alike.
LEMMA TickKeeps == ASSUME IInv, Tick PROVE IInv'
  <1>0. MaxAge \in Nat /\ LockTTL < MaxAge
    BY DEF MaxAge
  <1>1. TypeOK'
    BY <1>0, LockType DEF IInv, TypeOK, Tick
  <1>2. \A j \in Job : stage[j] \in {"taken", "run"} /\ age'[j] < LockTTL =>
            age[j] \in Nat /\ age'[j] = age[j] + 1
    BY <1>0 DEF IInv, TypeOK, Tick
  <1>3. Leased'
    <2> SUFFICES ASSUME NEW j \in Job, redis, stage[j] \in {"taken", "run"}, age'[j] < LockTTL
                 PROVE  lock'.token = mine[j] /\ lock'.ttl + age'[j] >= LockTTL
      BY DEF Leased, Tick
    <2>1. age[j] \in Nat /\ age'[j] = age[j] + 1
      BY <1>2
    <2>2. lock.token = mine[j] /\ lock.ttl + age[j] >= LockTTL
      BY <2>1 DEF IInv, Leased
    <2>3. lock.ttl \in Nat /\ lock.ttl > 1
      BY <2>1, <2>2 DEF IInv, TypeOK
    <2>4. lock'.token = lock.token /\ lock'.ttl = lock.ttl - 1
      BY <2>3 DEF Tick, Aged, IInv, TypeOK
    <2>5. QED
      BY <2>1, <2>2, <2>3, <2>4
  <1>4. QED
    BY <1>1, <1>3 DEF IInv, Stages, Private, Tick

\* Every step keeps the invariant.
LEMMA NextKeeps == IInv /\ [Next]_vars => IInv'
  <1> SUFFICES ASSUME IInv, [Next]_vars PROVE IInv'
    OBVIOUS
  <1>1. ASSUME NEW j \in Job, Step(j) PROVE IInv'
    BY <1>1, TakeKeeps, AcquiredKeeps, GiveUpKeeps, FinishKeeps, UnlockKeeps DEF Step
  <1>2. ASSUME NEW j \in Job, Fire(j) \/ Crash(j) PROVE IInv'
    BY <1>2, FireKeeps, GiveUpKeeps
  <1>3. CASE UNCHANGED vars
    BY <1>3 DEF vars, IInv, TypeOK, Stages, Private, Leased
  <1>4. QED
    BY <1>1, <1>2, <1>3, LateReleaseKeeps, TickKeeps DEF Next
-------------------------------------------------------------------------------
(* The theorems. *)

\* The inductive invariant holds in every state of the jobs and their lock.
THEOREM InvariantHolds == Spec => []IInv
  BY InitHolds, NextKeeps, PTL DEF Spec

\* Every variable of the jobs and their lock keeps its type: releases that are
\* lost or late never carry anything but the token of an attempt.
THEOREM TypeCorrect == Spec => []TypeOK
  BY InvariantHolds, PTL DEF IInv

\* A job that asked for its lock less than LockTTL ago holds it, whatever late
\* releases, failed calls and crashes there were before.
THEOREM HeldWhileRunning == Spec => []WorksUnderLock
  <1>1. IInv => WorksUnderLock
    BY DEF IInv, Leased, WorksUnderLock
  <1>2. QED
    BY <1>1, InvariantHolds, PTL

\* Two replicas run the job at once only after one stalled for LockTTL.
THEOREM OverlapOnlyByStall == Spec => []OverlapNeedsStall
  <1>1. IInv => OverlapNeedsStall
    <2> SUFFICES ASSUME IInv, NEW i \in Job, NEW j \in Job, redis, i # j,
                        stage[i] = "run", stage[j] = "run",
                        ~ (age[i] >= LockTTL), ~ (age[j] >= LockTTL)
                 PROVE  FALSE
      BY DEF OverlapNeedsStall
    <2>1. age[i] < LockTTL /\ age[j] < LockTTL
      BY DEF IInv, TypeOK, MaxAge
    <2>2. mine[i] = mine[j] /\ mine[i] \in Token
      BY <2>1 DEF IInv, Leased, Stages
    <2>3. QED
      BY <2>2 DEF IInv, Private
  <1>2. QED
    BY <1>1, InvariantHolds, PTL
===============================================================================
