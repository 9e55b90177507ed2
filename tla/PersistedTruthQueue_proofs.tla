---------------------- MODULE PersistedTruthQueue_proofs ----------------------
(***************************************************************************)
(* Proofs about PersistedTruthQueue for any number of jobs and callers and *)
(* any fault bound.                                                        *)
(***************************************************************************)
EXTENDS PersistedTruthQueue, TLAPS

USE DEF Section, Between, Steps, JobStates, FINISHED_JOB_STATES, LiveStates

\* The lock protocol's inductive part: a caller in the section owns the lock,
\* unless one has slept through the lock's lifetime.
SectionOwnsLock ==
    \A j \in Jobs \ overslept, c \in Callers : InSection(c, j) => lock[j] = c

\* Every variable keeps the type ensureJobFromPersistedTruth and BullMQ give it.
THEOREM TypeCorrect == Spec => []TypeOK
<1>1. Init => TypeOK
  BY MaxFaultsAssumption DEF Init, TypeOK
<1>2. TypeOK /\ [Next]_vars => TypeOK'
  <2> SUFFICES ASSUME TypeOK, [Next]_vars PROVE TypeOK'
    OBVIOUS
  <2> USE DEF TypeOK, Goto, callVars, history
  <2>1. ASSUME NEW j \in Jobs, addJob(j) \/ addJobFails(j) PROVE TypeOK'
    BY <2>1, MaxFaultsAssumption DEF addJob, addJobFails, Add, QueueAdd
  <2>2. ASSUME NEW c \in Callers, NEW j \in Jobs, Ensure(c, j) PROVE TypeOK'
    BY <2>2 DEF Ensure
  <2>3. ASSUME NEW c \in Callers, CallStep(c) PROVE TypeOK'
    <3>1. CASE GetJob(c) \/ GetState(c) \/ Recheck(c) \/ Restate(c) \/ Verify(c)
      BY <3>1 DEF GetJob, GetState, Recheck, Restate, Verify
    <3>2. CASE Create(c) \/ Replace(c)
      BY <3>2 DEF Create, Replace, Add, QueueAdd
    <3>3. CASE Acquire(c) \/ Release(c)
      BY <3>3 DEF Acquire, Release, ReleaseOwned
    <3>4. CASE Remove(c)
      BY <3>4 DEF Remove, QueueRemove
    <3> QED
      BY <2>3, <3>1, <3>2, <3>3, <3>4 DEF CallStep
  <2>4. ASSUME NEW c \in Callers, CommandFails(c) \/ CallerCrashes(c)
        PROVE TypeOK'
    BY <2>4, MaxFaultsAssumption
       DEF CommandFails, CallerCrashes, Throw, Lose, Replacing
  <2>5. ASSUME NEW c \in Callers, AnswerIsLost(c) PROVE TypeOK'
    BY <2>5, MaxFaultsAssumption
       DEF AnswerIsLost, Throw, Add, QueueAdd, QueueRemove, ReleaseOwned
  <2>6. CASE RedisLoss
    BY <2>6, MaxFaultsAssumption DEF RedisLoss
  <2>7. ASSUME NEW j \in Jobs,
               \/ LockExpires(j) \/ RunStarts(j) \/ RunSucceeds(j)
               \/ RunFails(j) \/ RunIsRetried(j) \/ JobIsDue(j) \/ Retention(j)
        PROVE TypeOK'
    BY <2>7 DEF LockExpires, RunStarts, RunSucceeds, RunFails, RunIsRetried,
                JobIsDue, Retention, Move, Finish
  <2>8. CASE UNCHANGED vars
    BY <2>8 DEF vars
  <2> QED
    BY <2>1, <2>2, <2>3, <2>4, <2>5, <2>6, <2>7, <2>8 DEF Next
<1> QED
  BY <1>1, <1>2, PTL DEF Spec

\* No interleaving of reconcilers, workers and retention drops an accepted job:
\* AcceptedWorkSurvives holds of every behaviour, sleeping lock holders included.
THEOREM WorkSurvives == Spec => []AcceptedWorkSurvives
<1>1. Init => AcceptedWorkSurvives
  BY DEF Init, AcceptedWorkSurvives
<1>2. TypeOK /\ AcceptedWorkSurvives /\ [Next]_vars => AcceptedWorkSurvives'
  <2> SUFFICES ASSUME TypeOK, AcceptedWorkSurvives, [Next]_vars
               PROVE  AcceptedWorkSurvives'
    OBVIOUS
  <2> USE DEF TypeOK, AcceptedWorkSurvives, Goto, callVars, history, Replacing
  <2>1. ASSUME NEW j \in Jobs, addJob(j) \/ addJobFails(j)
        PROVE AcceptedWorkSurvives'
    BY <2>1 DEF addJob, addJobFails, Add, QueueAdd
  <2>2. ASSUME NEW c \in Callers, NEW j \in Jobs, Ensure(c, j)
        PROVE AcceptedWorkSurvives'
    BY <2>2 DEF Ensure
  <2>3. ASSUME NEW c \in Callers, CallStep(c) PROVE AcceptedWorkSurvives'
    <3>1. CASE GetJob(c) \/ GetState(c) \/ Recheck(c) \/ Restate(c)
      BY <3>1 DEF GetJob, GetState, Recheck, Restate
    <3>2. CASE Verify(c)
      BY <3>2 DEF Verify
    <3>3. CASE Create(c) \/ Replace(c)
      BY <3>3 DEF Create, Replace, Add, QueueAdd
    <3>4. CASE Acquire(c) \/ Release(c)
      BY <3>4 DEF Acquire, Release
    <3>5. CASE Remove(c)
      BY <3>5 DEF Remove, QueueRemove
    <3> QED
      BY <2>3, <3>1, <3>2, <3>3, <3>4, <3>5 DEF CallStep
  <2>4. ASSUME NEW c \in Callers, CommandFails(c) \/ CallerCrashes(c)
        PROVE AcceptedWorkSurvives'
    BY <2>4 DEF CommandFails, CallerCrashes, Throw, Lose
  <2>5. ASSUME NEW c \in Callers, AnswerIsLost(c) PROVE AcceptedWorkSurvives'
    BY <2>5 DEF AnswerIsLost, Throw, Add, QueueAdd, QueueRemove
  <2>6. CASE RedisLoss
    BY <2>6 DEF RedisLoss
  <2>7. ASSUME NEW j \in Jobs,
               \/ LockExpires(j) \/ RunStarts(j) \/ RunSucceeds(j)
               \/ RunFails(j) \/ RunIsRetried(j) \/ JobIsDue(j) \/ Retention(j)
        PROVE AcceptedWorkSurvives'
    BY <2>7 DEF LockExpires, RunStarts, RunSucceeds, RunFails, RunIsRetried,
                JobIsDue, Retention, Move, Finish
  <2>8. CASE UNCHANGED vars
    BY <2>8 DEF vars
  <2> QED
    BY <2>1, <2>2, <2>3, <2>4, <2>5, <2>6, <2>7, <2>8 DEF Next
<1> QED
  BY <1>1, <1>2, TypeCorrect, PTL DEF Spec

\* Replacement of a finished job is a critical section as long as no process
\* sleeps through the 30 s of its lock: OneReplacer, for any number of callers.
THEOREM ReplacementIsExclusive == Spec => []OneReplacer
<1>1. Init => SectionOwnsLock
  BY DEF Init, SectionOwnsLock, InSection
<1>2. TypeOK /\ SectionOwnsLock /\ [Next]_vars => SectionOwnsLock'
  <2> SUFFICES ASSUME TypeOK, SectionOwnsLock, [Next]_vars
               PROVE  SectionOwnsLock'
    OBVIOUS
  <2> USE NoCallerAssumption DEF TypeOK, SectionOwnsLock, InSection, Goto, callVars
  <2>1. ASSUME NEW c \in Callers, NEW j \in Jobs, Ensure(c, j)
        PROVE SectionOwnsLock'
    BY <2>1 DEF Ensure
  <2>2. ASSUME NEW c \in Callers, CallStep(c) PROVE SectionOwnsLock'
    <3>1. CASE UNCHANGED <<lock, target, overslept>>
      BY <2>2, <3>1 DEF CallStep, GetJob, Create, GetState, Acquire, Recheck,
                        Restate, Remove, Verify, Replace, Release, ReleaseOwned
    <3>2. CASE Acquire(c)
      BY <3>2 DEF Acquire
    <3>3. CASE Release(c)
      BY <3>3 DEF Release, ReleaseOwned
    <3> QED
      BY <2>2, <3>1, <3>2, <3>3
         DEF CallStep, GetJob, Create, GetState, Recheck, Restate, Remove,
             Verify, Replace
  <2>3. ASSUME NEW c \in Callers, CommandFails(c) \/ CallerCrashes(c)
        PROVE SectionOwnsLock'
    BY <2>3 DEF CommandFails, CallerCrashes, Throw
  <2>4. ASSUME NEW c \in Callers, AnswerIsLost(c) PROVE SectionOwnsLock'
    BY <2>4 DEF AnswerIsLost, Throw, ReleaseOwned
  <2>5. CASE RedisLoss
    BY <2>5 DEF RedisLoss
  <2>6. ASSUME NEW j \in Jobs, LockExpires(j) PROVE SectionOwnsLock'
    BY <2>6 DEF LockExpires
  <2>7. CASE UNCHANGED <<lock, callVars>>
    BY <2>7
  <2> QED
    BY <2>1, <2>2, <2>3, <2>4, <2>5, <2>6, <2>7
       DEF Next, vars, addJob, addJobFails, RunStarts, RunSucceeds, RunFails,
           RunIsRetried, JobIsDue, Retention
<1>3. SectionOwnsLock => OneReplacer
  BY DEF SectionOwnsLock, OneReplacer
<1> QED
  BY <1>1, <1>2, <1>3, TypeCorrect, PTL DEF Spec

\* Who may take the lock of a job from a caller that is in its section: the
\* compare-and-delete script of that caller, the loss of Redis, or time.
LEMMA LockMoves ==
  ASSUME TypeOK, [Next]_vars, NEW j \in Jobs, NEW c \in Callers,
         lock[j] = c, lock'[j] # c, InSection(c, j)
  PROVE  \/ pc[c] = "release" /\ pc'[c] = "idle"
         \/ RedisLoss
         \/ j \in overslept' /\ UNCHANGED pc
<1> USE NoCallerAssumption DEF TypeOK, Goto, callVars
<1>1. CASE UNCHANGED lock
  BY <1>1
<1>2. ASSUME NEW d \in Callers, Acquire(d) PROVE FALSE
  BY <1>2 DEF Acquire
<1>3. ASSUME NEW d \in Callers, Release(d) PROVE pc[c] = "release" /\ pc'[c] = "idle"
  BY <1>3 DEF Release, ReleaseOwned
<1>4. ASSUME NEW d \in Callers, AnswerIsLost(d), lock' # lock
      PROVE  pc[c] = "release" /\ pc'[c] = "idle"
  BY <1>4 DEF AnswerIsLost, Throw, ReleaseOwned
<1>5. ASSUME NEW i \in Jobs, LockExpires(i) PROVE j \in overslept' /\ UNCHANGED pc
  BY <1>5 DEF LockExpires
<1> QED
  BY <1>1, <1>2, <1>3, <1>4, <1>5
     DEF Next, vars, addJob, addJobFails, Ensure, CallStep, GetJob, Create, GetState,
         Recheck, Restate, Remove, Verify, Replace, CommandFails, CallerCrashes,
         RunStarts, RunSucceeds, RunFails, RunIsRetried, JobIsDue, Retention

\* A caller that outlived its own lock never releases the lock of its successor,
\* however releases, lost answers and expiries interleave.
THEOREM LocksAreFreedByOwners == Spec => LockOnlyFreedByOwner
<1>1. TypeOK /\ [Next]_vars =>
        [\A j \in Jobs, c \in Callers :
            lock[j] = c /\ lock'[j] # c /\ InSection(c, j) =>
                \/ pc[c] = "release" /\ pc'[c] = "idle"
                \/ RedisLoss
                \/ j \in overslept' /\ UNCHANGED pc]_vars
  BY LockMoves
<1> QED
  BY <1>1, TypeCorrect, PTL DEF Spec, LockOnlyFreedByOwner

===============================================================================
