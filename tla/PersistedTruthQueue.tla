------------------------- MODULE PersistedTruthQueue -------------------------
(***************************************************************************)
(* BullmqService.addJob and BullmqService.ensureJobFromPersistedTruth      *)
(* (src/src/infrastructure/queue/bullmq.service.ts): how the reconcilers   *)
(* of several processes rebuild queue jobs from database rows while        *)
(* workers run those jobs, Redis forgets them and callers die half way.    *)
(*                                                                         *)
(* One caller is one execution context (a core worker instance) that runs  *)
(* one ensure call at a time.  Every Redis round trip of the call is a     *)
(* step of its own, because other processes run between two round trips.   *)
(***************************************************************************)
EXTENDS BullJobs, Naturals

CONSTANTS
    Jobs,        \* deterministic job ids
    Callers,     \* processes that call ensureJobFromPersistedTruth
    NoCaller,    \* the replacement lock key is absent
    MaxFaults    \* bound on crashes, Redis errors and Redis losses

ASSUME NoCallerAssumption == NoCaller \notin Callers
ASSUME MaxFaultsAssumption == MaxFaults \in Nat

VARIABLES
    required,    \* the jobs that the persisted rows still ask for
    job,         \* state of each job slot in Redis
    lock,        \* holder of persisted-truth-replacement:<jobId>, if any
    pc, target,  \* each caller's next round trip and the job it is about
    overslept,   \* history: the jobs whose lock expired under a sleeping holder
    undone,      \* history: the jobs accepted that have not finished since
    lost,        \* history: the accepted jobs that a fault took away
    faults       \* number of faults so far

callVars == <<pc, target, overslept>>
history == <<undone, lost>>
vars == <<required, job, lock, callVars, history, faults>>

\* The steps between taking the replacement lock and releasing it.
Section == {"recheck", "restate", "remove", "verify", "replace", "release"}

\* The steps at which a caller has removed a job and not yet put it back.
Between == {"verify", "replace"}

Steps == {"idle", "getJob", "create", "getState", "acquire"} \cup Section

InSection(c, j) == pc[c] \in Section /\ target[c] = j
Replacing(c, j) == pc[c] \in Between /\ target[c] = j

Init ==
    /\ required = {}
    /\ job = [j \in Jobs |-> "none"]
    /\ lock = [j \in Jobs |-> NoCaller]
    /\ pc = [c \in Callers |-> "idle"]
    /\ target \in [Callers -> Jobs]
    /\ overslept = {}
    /\ undone = {}
    /\ lost = {}
    /\ faults = 0

Goto(c, step) == pc' = [pc EXCEPT ![c] = step] /\ UNCHANGED <<target, overslept>>

\* queue.add on slot j: accepted work is recorded when a job really appears.
Add(j) ==
    /\ job' = [job EXCEPT ![j] = QueueAdd(@)]
    /\ IF job[j] = "none"
       THEN undone' = undone \cup {j} /\ lost' = lost \ {j}
       ELSE UNCHANGED history

(***************************************************************************)
(* The producer: a use case writes its row and calls addJob, whose command *)
(* may be refused, or applied although its answer never arrives.           *)
(***************************************************************************)
addJob(j) ==
    /\ j \notin required
    /\ required' = required \cup {j}
    /\ Add(j)
    /\ UNCHANGED <<lock, callVars, faults>>

addJobFails(j) ==
    /\ j \notin required
    /\ faults < MaxFaults
    /\ faults' = faults + 1
    /\ required' = required \cup {j}
    /\ UNCHANGED <<job, lock, callVars, history>>

(***************************************************************************)
(* ensureJobFromPersistedTruth, one Redis round trip per action.           *)
(***************************************************************************)

\* The reconciler read the row; work that is no longer required stops here.
Ensure(c, j) ==
    /\ pc[c] = "idle"
    /\ j \in required
    /\ pc' = [pc EXCEPT ![c] = "getJob"]
    /\ target' = [target EXCEPT ![c] = j]
    /\ UNCHANGED <<required, job, lock, overslept, history, faults>>

GetJob(c) ==
    /\ pc[c] = "getJob"
    /\ Goto(c, IF job[target[c]] = "none" THEN "create" ELSE "getState")
    /\ UNCHANGED <<required, job, lock, history, faults>>

\* 'created'
Create(c) ==
    /\ pc[c] = "create"
    /\ Add(target[c])
    /\ Goto(c, "idle")
    /\ UNCHANGED <<required, lock, faults>>

\* Mutant: a finished job is preserved too.
GetStatePreserves(c) ==
    /\ pc[c] = "getState"
    /\ Goto(c, "idle")
    /\ UNCHANGED <<required, job, lock, history, faults>>

\* 'preserved' for anything unfinished, a job that vanished meanwhile
\* (BullMQ answers "unknown") included.
GetState(c) ==
    /\ pc[c] = "getState"
    /\ Goto(c, IF job[target[c]] \in FINISHED_JOB_STATES
               THEN "acquire" ELSE "idle")
    /\ UNCHANGED <<required, job, lock, history, faults>>

\* Mutant: the lock's value is the job id, no token of the caller.
AcquireWithoutToken(c) ==
    /\ pc[c] = "acquire"
    /\ IF lock[target[c]] = NoCaller
       THEN lock' = [lock EXCEPT ![target[c]] = target[c]] /\ Goto(c, "recheck")
       ELSE Goto(c, "idle") /\ UNCHANGED lock
    /\ UNCHANGED <<required, job, history, faults>>

\* Mutant: SET without NX.
AcquireWithoutNX(c) ==
    /\ pc[c] = "acquire"
    /\ lock' = [lock EXCEPT ![target[c]] = c]
    /\ Goto(c, "recheck")
    /\ UNCHANGED <<required, job, history, faults>>

\* SET lockKey token PX 30000 NX; 'replacement_contended' when it is taken.
Acquire(c) ==
    /\ pc[c] = "acquire"
    /\ IF lock[target[c]] = NoCaller
       THEN /\ lock' = [lock EXCEPT ![target[c]] = c]
            /\ Goto(c, "recheck")
       ELSE /\ Goto(c, "idle")
            /\ UNCHANGED lock
    /\ UNCHANGED <<required, job, history, faults>>

Recheck(c) ==
    /\ pc[c] = "recheck"
    /\ Goto(c, IF job[target[c]] = "none" THEN "verify" ELSE "restate")
    /\ UNCHANGED <<required, job, lock, history, faults>>

\* The state is read again under the lock: a live job is 'preserved'.
Restate(c) ==
    /\ pc[c] = "restate"
    /\ Goto(c, IF job[target[c]] \in FINISHED_JOB_STATES
               THEN "remove" ELSE "release")
    /\ UNCHANGED <<required, job, lock, history, faults>>

Remove(c) ==
    /\ pc[c] = "remove"
    /\ job' = [job EXCEPT ![target[c]] = QueueRemove(@)]
    /\ Goto(c, "verify")
    /\ UNCHANGED <<required, lock, history, faults>>

\* Mutant: the check after the removal is the wrong way round.
VerifyInverted(c) ==
    /\ pc[c] = "verify"
    /\ Goto(c, IF job[target[c]] = "none" THEN "release" ELSE "replace")
    /\ UNCHANGED <<required, job, lock, history, faults>>

\* 'preserved' when a job is there after all.
Verify(c) ==
    /\ pc[c] = "verify"
    /\ Goto(c, IF job[target[c]] = "none" THEN "replace" ELSE "release")
    /\ UNCHANGED <<required, job, lock, history, faults>>

\* 'replaced'
Replace(c) ==
    /\ pc[c] = "replace"
    /\ Add(target[c])
    /\ Goto(c, "release")
    /\ UNCHANGED <<required, lock, faults>>

\* Mutant: a plain DEL.
ReleaseAny(c) == [lock EXCEPT ![target[c]] = NoCaller]

\* RELEASE_OWNED_LOCK_SCRIPT: delete the key only if it holds our token.
ReleaseOwned(c) ==
    [lock EXCEPT ![target[c]] = IF @ = c THEN NoCaller ELSE @]

Release(c) ==
    /\ pc[c] = "release"
    /\ lock' = ReleaseOwned(c)
    /\ Goto(c, "idle")
    /\ UNCHANGED <<required, job, history, faults>>

(***************************************************************************)
(* Failures.  A command that errors inside the section still runs the      *)
(* finally block; a process that dies runs nothing more.                   *)
(***************************************************************************)
Lose(c) == lost' = lost \cup {j \in undone : Replacing(c, j)}

\* Where the code goes when the command of the current step rejects.
Throw(c) == Goto(c, IF pc[c] \in Section \ {"release"} THEN "release" ELSE "idle")

\* The command never reached Redis.
CommandFails(c) ==
    /\ pc[c] # "idle"
    /\ faults < MaxFaults
    /\ faults' = faults + 1
    /\ Throw(c)
    /\ Lose(c)
    /\ UNCHANGED <<required, job, lock, undone>>

\* Redis applied the command and the answer was lost or came after the 750 ms
\* command timeout: same control flow, other effect.
AnswerIsLost(c) ==
    /\ faults < MaxFaults
    /\ faults' = faults + 1
    /\ Throw(c)
    /\ \/ /\ pc[c] \in {"create", "replace"}
          /\ Add(target[c])
          /\ UNCHANGED lock
       \/ /\ pc[c] = "acquire"
          /\ lock[target[c]] = NoCaller
          /\ lock' = [lock EXCEPT ![target[c]] = c]
          /\ UNCHANGED <<job, history>>
       \/ /\ pc[c] = "remove"
          /\ job' = [job EXCEPT ![target[c]] = QueueRemove(@)]
          /\ lost' = lost \cup {j \in undone :
                                 j = target[c] /\ job[j] # "active"}
          /\ UNCHANGED <<lock, undone>>
       \/ /\ pc[c] = "release"
          /\ lock' = ReleaseOwned(c)
          /\ UNCHANGED <<job, history>>
    /\ UNCHANGED required

CallerCrashes(c) ==
    /\ pc[c] # "idle"
    /\ faults < MaxFaults
    /\ faults' = faults + 1
    /\ Goto(c, "idle")
    /\ Lose(c)
    /\ UNCHANGED <<required, job, lock, undone>>

\* The lock key's 30 s pass.  A caller still in the section must have been
\* suspended for that long: its five commands are bounded by 750 ms each.
LockExpires(j) ==
    /\ lock[j] # NoCaller
    /\ lock' = [lock EXCEPT ![j] = NoCaller]
    /\ overslept' = IF InSection(lock[j], j) THEN overslept \cup {j} ELSE overslept
    /\ UNCHANGED <<required, job, pc, target, history, faults>>

\* Queue Redis is replaced by an empty one: jobs and locks are gone, and the
\* commands in flight on the old connection fail.
RedisLoss ==
    /\ faults < MaxFaults
    /\ faults' = faults + 1
    /\ job' = [j \in Jobs |-> "none"]
    /\ lock' = [j \in Jobs |-> NoCaller]
    /\ pc' = [c \in Callers |-> "idle"]
    /\ lost' = lost \cup undone
    /\ UNCHANGED <<required, target, overslept, undone>>

(***************************************************************************)
(* The worker side of BullMQ.  A run that succeeds satisfies the rows.     *)
(***************************************************************************)
Move(j, from, to) == job[j] = from /\ job' = [job EXCEPT ![j] = to]

Finish(j) == undone' = undone \ {j} /\ lost' = lost \ {j}

RunStarts(j) ==
    /\ Move(j, "waiting", "active")
    /\ UNCHANGED <<required, lock, callVars, history, faults>>

RunSucceeds(j) ==
    /\ Move(j, "active", "completed")
    /\ required' = required \ {j}
    /\ Finish(j)
    /\ UNCHANGED <<lock, callVars, faults>>

\* The processor threw, or a stalled run ran out of attempts.
RunFails(j) ==
    /\ Move(j, "active", "failed")
    /\ Finish(j)
    /\ UNCHANGED <<required, lock, callVars, faults>>

RunIsRetried(j) ==
    /\ Move(j, "active", "delayed")
    /\ UNCHANGED <<required, lock, callVars, history, faults>>

\* A delayed job becomes due, or a stalled one is put back.
JobIsDue(j) ==
    /\ job[j] \in {"delayed", "active"}
    /\ job' = [job EXCEPT ![j] = "waiting"]
    /\ UNCHANGED <<required, lock, callVars, history, faults>>

\* removeOnComplete / removeOnFail keep only the most recent finished jobs.
Retention(j) ==
    /\ job[j] \in FINISHED_JOB_STATES
    /\ job' = [job EXCEPT ![j] = "none"]
    /\ UNCHANGED <<required, lock, callVars, history, faults>>

CallStep(c) ==
    \/ GetJob(c) \/ Create(c) \/ GetState(c) \/ Acquire(c) \/ Recheck(c)
    \/ Restate(c) \/ Remove(c) \/ Verify(c) \/ Replace(c) \/ Release(c)

Next ==
    \/ \E j \in Jobs : addJob(j) \/ addJobFails(j)
    \/ \E c \in Callers, j \in Jobs : Ensure(c, j)
    \/ \E c \in Callers : CallStep(c)
    \/ \E c \in Callers : CommandFails(c) \/ AnswerIsLost(c) \/ CallerCrashes(c)
    \/ \E j \in Jobs : LockExpires(j)
    \/ RedisLoss
    \/ \E j \in Jobs : RunStarts(j) \/ RunSucceeds(j) \/ RunFails(j)
                       \/ RunIsRetried(j) \/ JobIsDue(j) \/ Retention(j)

(***************************************************************************)
(* The maintenance schedule reconciles every row again and again, calls    *)
(* take their steps, an orphaned lock expires, workers take waiting jobs,  *)
(* and the work is not poison: a job that runs again and again succeeds    *)
(* once.                                                                   *)
(***************************************************************************)
Fairness ==
    /\ \A c \in Callers : WF_vars(CallStep(c))
    /\ \A j \in Jobs :
          /\ SF_vars(\E c \in Callers : Ensure(c, j))
          /\ WF_vars(LockExpires(j))
          /\ WF_vars(RunStarts(j))
          /\ WF_vars(job[j] = "delayed" /\ JobIsDue(j))
          /\ SF_vars(RunSucceeds(j))

Spec == Init /\ [][Next]_vars
FairSpec == Spec /\ Fairness

-----------------------------------------------------------------------------
TypeOK ==
    /\ required \in SUBSET Jobs
    /\ job \in [Jobs -> JobStates]
    /\ lock \in [Jobs -> Callers \cup {NoCaller}]
    /\ pc \in [Callers -> Steps]
    /\ target \in [Callers -> Jobs]
    /\ overslept \in SUBSET Jobs
    /\ undone \in SUBSET Jobs
    /\ lost \in SUBSET Jobs
    /\ faults \in 0..MaxFaults

\* A job once accepted by Redis is there until it has finished, however many
\* reconcilers replace it at the same time: the only other places it can be
\* are the hands of a caller between queue.remove and queue.add, or a fault.
\* Holds even when a replacement lock expires under a sleeping holder.
AcceptedWorkSurvives ==
    \A j \in undone \ lost :
        \/ job[j] \in LiveStates
        \/ job[j] = "none" /\ \E c \in Callers : Replacing(c, j)

\* The SET NX lock serialises the replacement of one finished job, unless a
\* holder slept through the lock's lifetime.
OneReplacer ==
    \A j \in Jobs \ overslept : \A c, d \in Callers :
        InSection(c, j) /\ InSection(d, j) => c = d

\* Nobody but its owner, or time, or the loss of Redis, takes a lock away: a
\* caller that outlived its own lock never releases its successor's.
LockOnlyFreedByOwner ==
    [][\A j \in Jobs, c \in Callers :
          lock[j] = c /\ lock'[j] # c /\ InSection(c, j) =>
              \/ pc[c] = "release" /\ pc'[c] = "idle"
              \/ RedisLoss
              \/ j \in overslept' /\ UNCHANGED pc]_vars

\* Work a row asks for is eventually done: the producer's lost command, a lost
\* Redis, a crashed or contended reconciler only delay it to a later round.
RequiredWorkIsDone == \A j \in Jobs : j \in required ~> j \notin required

=============================================================================
