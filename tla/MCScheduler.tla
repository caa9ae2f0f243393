----------------------------- MODULE MCScheduler ------------------------------
(* The job of two replicas. *)
EXTENDS Scheduler

CONSTANTS j1, j2, t1, t2, t3

MCJob == {j1, j2}
MCToken == {t1, t2, t3}
===============================================================================
