------------------------------ MODULE BullJobs ------------------------------
(***************************************************************************)
(* What BullMQ promises about one job slot, the slot being the set of      *)
(* Redis keys that a deterministic job id names.  Every queue of the       *)
(* backend uses deterministic ids, so a slot holds at most one job.        *)
(*                                                                         *)
(* The library is not part of the repository: these operators are read off *)
(* the way src/src/infrastructure/queue/bullmq.service.ts uses it.         *)
(***************************************************************************)

\* getJob() finds nothing in state "none"; getState() answers the others.
JobStates == {"none", "waiting", "active", "delayed", "completed", "failed"}

\* FINISHED_JOB_STATES: the only states the service may replace.
FINISHED_JOB_STATES == {"completed", "failed"}

\* A live job will be, or is being, handed to a worker.
LiveStates == {"waiting", "active", "delayed"}

\* queue.add with an id that already names a job is a no-op.
QueueAdd(s) == IF s = "none" THEN "waiting" ELSE s

\* queue.remove refuses a job that a worker holds the lock of.
QueueRemove(s) == IF s = "active" THEN s ELSE "none"

\* Where a run whose processor threw leaves the job: attempts are left, or not.
AfterThrow == {"delayed", "failed"}

=============================================================================
