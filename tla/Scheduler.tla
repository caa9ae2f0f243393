------------------------------- MODULE Scheduler ------------------------------
(***************************************************************************)
(* The scheduled job of every replica, and the lock in Redis under which   *)
(* one of them runs it (cache.Locker over the library redsync).            *)
(*                                                                         *)
(* Each attempt has a token of its own.  Redis keeps the token of the one  *)
(* that holds the lock and deletes it at the end of its life.  A caller    *)
(* that gives up cannot know what Redis did or will still do: late holds   *)
(* the releases that are on their way although nobody waits for them.      *)
(* Nothing renews the lock of the job: Lock and Extend of the Locker have  *)
(* no caller in the service.                                               *)
(***************************************************************************)
EXTENDS Naturals

CONSTANTS
    Job,            \* the scheduled job of each replica
    Token,          \* lock values; a new one for each attempt
    NoToken,
    LockTTL,        \* the minute for which runSample asks
    TryTimeout,     \* the context of runSample
    UnlockTimeout   \* the context of the deferred Unlock

ASSUME SchedulerAssumption ==
    /\ NoToken \notin Token
    /\ LockTTL \in Nat \ {0}
    /\ TryTimeout \in Nat \ {0}
    /\ UnlockTimeout \in Nat \ {0}

VARIABLES
    redis,  \* whether Redis is enabled; without it there is no locker
    stage,  \* where each job is
    mine,   \* the token of its attempt
    age,    \* the time since it called TryLock or Unlock
    lock,   \* the lock in Redis
    late    \* releases under way that nobody waits for

vars == <<redis, stage, mine, age, lock, late>>

\* After LockTTL more time makes no difference to a job.
MaxAge == LockTTL + TryTimeout + UnlockTimeout

TypeOK ==
    /\ redis \in BOOLEAN
    /\ stage \in [Job -> {"idle", "try", "taken", "run", "unlock"}]
    /\ mine \in [Job -> Token \cup {NoToken}]
    /\ age \in [Job -> 0..MaxAge]
    /\ lock \in [token : Token \cup {NoToken}, ttl : 0..LockTTL]
    /\ late \subseteq Token

Free == [token |-> NoToken, ttl |-> 0]

Init ==
    /\ redis \in BOOLEAN
    /\ stage = [j \in Job |-> "idle"]
    /\ mine = [j \in Job |-> NoToken]
    /\ age = [j \in Job |-> 0]
    /\ lock = Free
    /\ late = {}
-------------------------------------------------------------------------------
Go(j, s) == stage' = [stage EXCEPT ![j] = s]

Quit(j) ==
    /\ Go(j, "idle")
    /\ mine' = [mine EXCEPT ![j] = NoToken]
    /\ age' = [age EXCEPT ![j] = 0]

\* Cron fires a job that is not still running (SkipIfStillRunning).
\* Without Redis it runs without a lock.
Fire(j) ==
    /\ stage[j] = "idle"
    /\ \/ redis /\ Go(j, "try")
       \/ ~ redis /\ Go(j, "run")
    /\ UNCHANGED <<redis, mine, age, lock, late>>

\* Redis has the lock for this attempt; its answer is on the way.
Take(j) ==
    /\ stage[j] = "try"
    /\ lock = Free
    /\ \E t \in Token \ (late \cup {mine[i] : i \in Job}) :
         /\ lock' = [token |-> t, ttl |-> LockTTL]
         /\ mine' = [mine EXCEPT ![j] = t]
    /\ Go(j, "taken")
    /\ UNCHANGED <<redis, age, late>>

\* Mutant of Contended: contention is reported as success.
ContendedAnyway(j) ==
    /\ stage[j] = "try"
    /\ lock # Free
    /\ Go(j, "run")
    /\ UNCHANGED <<redis, mine, age, lock, late>>

\* The lock is taken: TryLock returns at once, without an error, and the job
\* is skipped.
Contended(j) ==
    /\ stage[j] = "try"
    /\ lock # Free
    /\ Quit(j)
    /\ UNCHANGED <<redis, lock, late>>

\* redsync gives the lock to the caller unless its life is already over.
Acquired(j) ==
    /\ stage[j] = "taken"
    /\ age[j] < LockTTL
    /\ Go(j, "run")
    /\ UNCHANGED <<redis, mine, age, lock, late>>

\* A release that nobody waits for is sent or is lost.
Abandon(j) == late' \in {late, late \cup {mine[j]}}

\* An error, or no answer in time.  redsync releases what may have been taken.
TryFails(j) ==
    /\ \/ stage[j] = "try" /\ UNCHANGED late
       \/ stage[j] = "taken" /\ Abandon(j)
    /\ Quit(j)
    /\ UNCHANGED <<redis, lock>>

\* The job is over, or panics: Unlock is deferred, and cron recovers.
Finish(j) ==
    /\ stage[j] = "run"
    /\ \/ /\ redis
          /\ Go(j, "unlock")
          /\ age' = [age EXCEPT ![j] = 0]
          /\ UNCHANGED mine
       \/ ~ redis /\ Quit(j)
    /\ UNCHANGED <<redis, lock, late>>

\* Mutant of Released: the key is deleted without comparing tokens.
ReleasedAnyway(t) == Free

\* The lock after a release with token t, which Redis compares.
Released(t) == IF lock.token = t THEN Free ELSE lock

\* Unlock.  That the lock was no longer owned is an error that is only logged.
Unlock(j) ==
    /\ stage[j] = "unlock"
    /\ lock' = Released(mine[j])
    /\ Quit(j)
    /\ UNCHANGED <<redis, late>>

UnlockFails(j) ==
    /\ stage[j] = "unlock"
    /\ Abandon(j)
    /\ Quit(j)
    /\ UNCHANGED <<redis, lock>>

\* A release arrives after its caller has gone.
LateRelease ==
    \E t \in late :
      /\ lock' = Released(t)
      /\ late' = late \ {t}
      /\ UNCHANGED <<redis, stage, mine, age>>

Crash(j) ==
    /\ stage[j] # "idle"
    /\ Quit(j)
    /\ UNCHANGED <<redis, lock, late>>

\* Mutant of Aged: an expired lock is not removed.
AgedPastZero == [lock EXCEPT !.ttl = @ - 1]

\* Mutant of Aged: the lock has no expiry.
AgedNever == lock

\* The lock after one unit of time.
Aged == IF lock.ttl > 1 THEN [lock EXCEPT !.ttl = @ - 1] ELSE Free

\* How long a call takes at most.  A running job may stall for any time.
Limit(j) ==
    CASE stage[j] \in {"try", "taken"} -> TryTimeout
      [] stage[j] = "unlock" -> UnlockTimeout
      [] OTHER -> MaxAge + 1

Tick ==
    /\ \A j \in Job : age[j] < Limit(j)
    /\ age' = [j \in Job |->
                 IF stage[j] = "idle" \/ age[j] = MaxAge THEN age[j] ELSE age[j] + 1]
    /\ lock' = Aged
    /\ UNCHANGED <<redis, stage, mine, late>>

\* What a job does by itself.
Step(j) ==
    \/ Take(j)
    \/ Contended(j)
    \/ Acquired(j)
    \/ TryFails(j)
    \/ Finish(j)
    \/ Unlock(j)
    \/ UnlockFails(j)

Next ==
    \/ \E j \in Job : Fire(j) \/ Step(j) \/ Crash(j)
    \/ LateRelease
    \/ Tick

\* Cron fires again and again, calls end, a release that was sent arrives, time
\* passes, and Redis is reached from time to time.
Fairness ==
    /\ \A j \in Job : /\ WF_vars(Fire(j)) /\ WF_vars(Step(j))
                      /\ SF_vars(Take(j)) /\ SF_vars(Acquired(j))
    /\ WF_vars(LateRelease)
    /\ WF_vars(Tick)

Spec == Init /\ [][Next]_vars /\ Fairness
-------------------------------------------------------------------------------
\* "ownership-safe Unlock" (README): a job that asked for its lock less than
\* LockTTL ago holds it.  No late release of an earlier attempt takes it away.
WorksUnderLock ==
    \A j \in Job : redis /\ stage[j] = "run" /\ age[j] < LockTTL => lock.token = mine[j]

\* "The sample six-field cron job demonstrates cross-instance locking": two
\* replicas run the job at the same time only when one of them stalled for the
\* whole life of its lock (runSample never extends it).
OverlapNeedsStall ==
    \A i, j \in Job :
      redis /\ i # j /\ stage[i] = "run" /\ stage[j] = "run" =>
        age[i] >= LockTTL \/ age[j] >= LockTTL

\* Whatever crashes, lost calls and lost releases there are, no lock is left
\* behind for good: the job is run again and again.
JobKeepsRunning == []<>(\E j \in Job : stage[j] = "run")
===============================================================================
