--------------------------- MODULE ImportValidation ---------------------------
(***************************************************************************)
(* The files-imports queue: an API request uploads a file, writes an       *)
(* import_jobs row and enqueues its validation; core workers claim the row *)
(* and stat the object; a reconciler rebuilds jobs from rows and closes    *)
(* the rows it gives up on.  (src/src/modules/files/imports)               *)
(*                                                                         *)
(* Each database, storage or queue round trip is one step.  Only the claim *)
(* is a conditional update; updateImportJob writes whatever it finds.      *)
(***************************************************************************)
EXTENDS BullJobs, Naturals

CONSTANTS
    Imports,     \* import job ids (also the queue job ids)
    Workers,     \* core worker instances, one job at a time each
    None,        \* no worker
    Lease,       \* FILES_IMPORT_PROCESSING_LEASE_MS, in clock ticks
    Window,      \* FILES_IMPORT_RECOVERY_WINDOW_MS, in clock ticks
    MayStall,    \* TRUE: a live worker may lose its BullMQ job lock
    MaxFaults    \* bound on failed calls, crashes and Redis losses

ASSUME NoneAssumption == None \notin Workers
ASSUME LeaseAssumption == Lease \in Nat \ {0}
ASSUME WindowAssumption == Window \in Nat /\ Window > Lease
ASSUME MayStallAssumption == MayStall \in BOOLEAN
ASSUME MaxFaultsAssumption == MaxFaults \in Nat

VARIABLES
    status,      \* import_jobs.status; FAILED split by recovery classification
    created,     \* ticks since createdAt, saturating at Window
    updated,     \* ticks since updatedAt, saturating at Lease
    present,     \* the imports whose object is in storage
    ineligible,  \* the imports whose file or tenant was deleted or disabled
    request,     \* how far the creating API request got
    job, runner, \* the queue slot and the worker BullMQ gave the job to
    pc, on,      \* each worker's next step and its import
    retryableFailed,  \* the workers that read a retryable failure
    held,        \* history: ticks since the worker's claim, up to Lease
    broken,      \* history: the imports a live claim of which timed out or was
                 \* overwritten by somebody who holds no claim
    plan,        \* the reconciler's decisions not yet carried out
    faults

row == <<status, created, updated>>
source == <<present, ineligible>>
queue == <<job, runner>>
worker == <<pc, on, retryableFailed, held, broken>>
vars == <<row, source, request, queue, worker, plan, faults>>

Statuses == {"absent", "PENDING", "PROCESSING", "COMPLETED", "RETRYABLE", "TERMINAL"}
Requests == {"none", "enqueue", "mark", "marked", "done"}
Claimed == {"stat", "complete", "terminal", "retry"}
Steps == {"idle", "lookup", "claim", "closeIneligible"} \cup Claimed
Decisions == {"none", "close", "ensure"}

Validating(w, i) == pc[w] \in Claimed /\ on[w] = i
Settled(i) == status[i] \in {"COMPLETED", "TERMINAL"}

Init ==
    /\ status = [i \in Imports |-> "absent"]
    /\ created = [i \in Imports |-> 0]
    /\ updated = [i \in Imports |-> 0]
    /\ present = {} /\ ineligible = {}
    /\ request = [i \in Imports |-> "none"]
    /\ job = [i \in Imports |-> "none"]
    /\ runner = [i \in Imports |-> None]
    /\ pc = [w \in Workers |-> "idle"]
    /\ on \in [Workers -> Imports]
    /\ retryableFailed = {}
    /\ held = [w \in Workers |-> 0]
    /\ broken = {}
    /\ plan = [i \in Imports |-> "none"]
    /\ faults = 0

Fault == faults < MaxFaults /\ faults' = faults + 1

\* updateImportJob: an unconditional write that also moves updatedAt.
updateImportJob(i, s) ==
    /\ status' = [status EXCEPT ![i] = s]
    /\ updated' = [updated EXCEPT ![i] = 0]
    /\ UNCHANGED created

\* The same write by somebody who never claimed the row.
overwriteImportJob(i, s) ==
    /\ updateImportJob(i, s)
    /\ broken' = broken \cup {k \in {i} : \E w \in Workers : Validating(w, k)}

(***************************************************************************)
(* CreateImportJobUseCase                                                  *)
(***************************************************************************)
\* The object is stored, then the rows are written under a fresh id.
CreateImport(i) ==
    /\ status[i] = "absent"
    /\ request' = [request EXCEPT ![i] = "enqueue"]
    /\ present' = present \cup {i}
    /\ updateImportJob(i, "PENDING")
    /\ UNCHANGED <<ineligible, queue, worker, plan, faults>>

Enqueue(i) ==
    /\ request[i] = "enqueue"
    /\ request' = [request EXCEPT ![i] = "done"]
    /\ job' = [job EXCEPT ![i] = QueueAdd(@)]
    /\ UNCHANGED <<row, source, runner, worker, plan, faults>>

\* addJob rejects; Redis may have accepted the job all the same.
EnqueueFails(i) ==
    /\ request[i] = "enqueue"
    /\ Fault
    /\ request' = [request EXCEPT ![i] = "mark"]
    /\ job' \in {job, [job EXCEPT ![i] = QueueAdd(@)]}
    /\ UNCHANGED <<row, source, runner, worker, plan>>

MarkRetryable(i) ==
    /\ request[i] = "mark"
    /\ request' = [request EXCEPT ![i] = "marked"]
    /\ overwriteImportJob(i, "RETRYABLE")
    /\ UNCHANGED <<source, queue, pc, on, retryableFailed, held, plan, faults>>

\* The mark rejects too, having written or not: the outer catch deletes the
\* object and the file row, each quietly, so either deletion may have failed.
\* (A fault brought the request here; a second one is not counted.)
MarkFails(i) ==
    /\ request[i] = "mark"
    /\ request' = [request EXCEPT ![i] = "done"]
    /\ present' \in {present, present \ {i}}
    /\ ineligible' \in {ineligible, ineligible \cup {i}}
    /\ UNCHANGED <<row, broken>> \/ overwriteImportJob(i, "RETRYABLE")
    /\ UNCHANGED <<queue, pc, on, retryableFailed, held, plan, faults>>

ApiCrash(i) ==
    /\ request[i] \in {"enqueue", "mark"}
    /\ Fault
    /\ request' = [request EXCEPT ![i] = "done"]
    /\ UNCHANGED <<row, source, queue, worker, plan>>

\* An administrator deletes the file, or suspends the school or organization.
SourceBecomesIneligible(i) ==
    /\ status[i] # "absent" /\ i \notin ineligible
    /\ ineligible' = ineligible \cup {i}
    /\ UNCHANGED <<row, present, request, queue, worker, plan, faults>>

(***************************************************************************)
(* ImportValidationWorker and ProcessImportValidationUseCase               *)
(***************************************************************************)
Goto(w, step) == pc' = [pc EXCEPT ![w] = step] /\ UNCHANGED <<on, held>>

\* The worker's locals are gone.
Stop(w) ==
    /\ pc' = [pc EXCEPT ![w] = "idle"]
    /\ retryableFailed' = retryableFailed \ {w}
    /\ held' = [held EXCEPT ![w] = 0]
    /\ UNCHANGED on

\* The processor returns or throws: BullMQ moves the job, unless the worker
\* has lost it in the meantime.
Return(w, outcomes) ==
    /\ Stop(w)
    /\ IF runner[on[w]] = w
       THEN /\ \E s \in outcomes : job' = [job EXCEPT ![on[w]] = s]
            /\ runner' = [runner EXCEPT ![on[w]] = None]
       ELSE UNCHANGED queue

\* Mutant: the reconciler does not look for stale processing rows.
RecoverableWithoutLease(i) == status[i] \in {"PENDING", "RETRYABLE"}

Recoverable(i) ==
    \/ status[i] \in {"PENDING", "RETRYABLE"}
    \/ status[i] = "PROCESSING" /\ updated[i] = Lease

\* A worker takes the job and reads the recovery context of its row.
Run(w, i) ==
    /\ pc[w] = "idle" /\ job[i] = "waiting"
    /\ on' = [on EXCEPT ![w] = i]
    /\ IF i \in ineligible /\ ~Recoverable(i)
       THEN /\ job' = [job EXCEPT ![i] = "completed"]
            /\ UNCHANGED <<runner, pc>>
       ELSE /\ job' = [job EXCEPT ![i] = "active"]
            /\ runner' = [runner EXCEPT ![i] = w]
            /\ pc' = [pc EXCEPT ![w] = IF i \in ineligible
                                       THEN "closeIneligible" ELSE "lookup"]
    /\ UNCHANGED <<row, source, request, retryableFailed, held, broken, plan, faults>>

\* findImportJobById: a settled row ends the run, another is remembered as
\* retryable or not.
Lookup(w) ==
    /\ pc[w] = "lookup"
    /\ IF Settled(on[w])
       THEN Return(w, {"completed"})
       ELSE /\ Goto(w, "claim")
            /\ retryableFailed' = IF status[on[w]] = "RETRYABLE"
                                  THEN retryableFailed \cup {w}
                                  ELSE retryableFailed \ {w}
            /\ UNCHANGED queue
    /\ UNCHANGED <<row, source, request, broken, plan, faults>>

\* Mutant: the claim takes a processing row whatever its age.
ClaimableWithoutLease(w, i) ==
    \/ status[i] \in {"PENDING", "PROCESSING"}
    \/ w \in retryableFailed /\ status[i] \in {"RETRYABLE", "TERMINAL"}

\* The WHERE clause of claimImportJobProcessing: status FAILED is accepted on
\* the strength of the classification read before.
Claimable(w, i) ==
    \/ status[i] = "PENDING"
    \/ w \in retryableFailed /\ status[i] \in {"RETRYABLE", "TERMINAL"}
    \/ status[i] = "PROCESSING" /\ updated[i] = Lease

Claim(w) ==
    /\ pc[w] = "claim"
    /\ IF Claimable(w, on[w])
       THEN /\ updateImportJob(on[w], "PROCESSING")
            /\ pc' = [pc EXCEPT ![w] = "stat"]
            /\ held' = [held EXCEPT ![w] = 0]
            /\ UNCHANGED <<on, retryableFailed, queue>>
       ELSE /\ Return(w, {"completed"})
            /\ UNCHANGED row
    /\ UNCHANGED <<source, request, broken, plan, faults>>

\* An object that is gone is a terminal failure.  (The file row cannot be gone:
\* files are deleted softly and the foreign key restricts more.)
Stat(w) ==
    /\ pc[w] = "stat"
    /\ Goto(w, IF on[w] \in present THEN "complete" ELSE "terminal")
    /\ UNCHANGED <<row, source, request, queue, retryableFailed, broken, plan, faults>>

StatFails(w) ==
    /\ pc[w] = "stat"
    /\ Fault
    /\ Goto(w, "retry")
    /\ UNCHANGED <<row, source, request, queue, retryableFailed, broken, plan>>

\* Mutant: FAILED is written without a recovery classification.
SettledUnclassified(step) == IF step = "complete" THEN "COMPLETED" ELSE "FAILED"

SettledAs(step) ==
    CASE step = "complete" -> "COMPLETED"
      [] step = "retry" -> "RETRYABLE"
      [] step = "terminal" -> "TERMINAL"

\* The write that ends a run.
FinalWrite(w) ==
    \/ /\ pc[w] \in {"complete", "terminal", "retry"}
       /\ updateImportJob(on[w], SettledAs(pc[w]))
       /\ UNCHANGED broken
    \/ /\ pc[w] = "closeIneligible"
       /\ overwriteImportJob(on[w], "TERMINAL")

\* A retryable failure is thrown once it is written.
Settle(w) ==
    /\ FinalWrite(w)
    /\ Return(w, IF pc[w] = "retry" THEN AfterThrow ELSE {"completed"})
    /\ UNCHANGED <<source, request, plan, faults>>

\* A database call rejects, having written or not.  The COMPLETED write is in
\* the try block, so its failure is handled as a storage failure.
DatabaseFails(w) ==
    /\ pc[w] \notin {"idle", "stat"}
    /\ Fault
    /\ \/ UNCHANGED <<row, broken>>
       \/ /\ pc[w] = "claim" /\ Claimable(w, on[w])
          /\ updateImportJob(on[w], "PROCESSING")
          /\ UNCHANGED broken
       \/ FinalWrite(w)
    /\ IF pc[w] = "complete"
       THEN Goto(w, "retry") /\ UNCHANGED <<queue, retryableFailed>>
       ELSE Return(w, AfterThrow)
    /\ UNCHANGED <<source, request, plan>>

WorkerCrash(w) ==
    /\ pc[w] # "idle"
    /\ Fault
    /\ Stop(w)
    /\ UNCHANGED <<row, source, request, queue, broken, plan>>

(***************************************************************************)
(* BullMQ                                                                  *)
(***************************************************************************)
\* The job lock is not renewed: the worker is gone, or it is only slow.
Stall(i) ==
    /\ job[i] = "active"
    /\ \/ MayStall
       \/ pc[runner[i]] = "idle" \/ on[runner[i]] # i
    /\ job' \in {[job EXCEPT ![i] = "waiting"], [job EXCEPT ![i] = "failed"]}
    /\ runner' = [runner EXCEPT ![i] = None]
    /\ UNCHANGED <<row, source, request, worker, plan, faults>>

Due(i) ==
    /\ job[i] = "delayed"
    /\ job' = [job EXCEPT ![i] = "waiting"]
    /\ UNCHANGED <<row, source, request, runner, worker, plan, faults>>

Retention(i) ==
    /\ job[i] \in FINISHED_JOB_STATES
    /\ job' = [job EXCEPT ![i] = "none"]
    /\ UNCHANGED <<row, source, request, runner, worker, plan, faults>>

RedisLoss ==
    /\ Fault
    /\ job' = [i \in Imports |-> "none"]
    /\ runner' = [i \in Imports |-> None]
    /\ UNCHANGED <<row, source, request, worker, plan>>

(***************************************************************************)
(* ImportValidationReconciliationService                                   *)
(***************************************************************************)
\* What reconcileCandidate will do with the row as it was listed.
Decision(i) ==
    CASE ~Recoverable(i) -> "none"
      [] Recoverable(i) /\ (i \in ineligible \/ created[i] = Window) -> "close"
      [] OTHER -> "ensure"

\* listRecoveryCandidates reads a page, then the page is worked through.
Reconcile ==
    /\ \A i \in Imports : plan[i] = "none"
    /\ plan' = [i \in Imports |-> Decision(i)]
    /\ UNCHANGED <<row, source, request, queue, worker, faults>>

ReconcileCandidate(i) ==
    /\ plan[i] # "none"
    /\ plan' = [plan EXCEPT ![i] = "none"]
    /\ \/ /\ plan[i] = "close"
          /\ overwriteImportJob(i, "TERMINAL")
          /\ UNCHANGED queue
       \/ /\ plan[i] = "ensure"
          /\ job' = [job EXCEPT ![i] = IF @ \in LiveStates THEN @ ELSE "waiting"]
          /\ UNCHANGED <<row, runner, broken>>
    /\ UNCHANGED <<source, request, pc, on, retryableFailed, held, faults>>

\* One failing call ends the round; the next round starts from the rows.
ReconcileAborts ==
    /\ \E i \in Imports : plan[i] # "none"
    /\ Fault
    /\ plan' = [i \in Imports |-> "none"]
    /\ UNCHANGED <<row, source, request, queue, worker>>

(***************************************************************************)
(* Time.  A tick is short against the window and the lease is some ticks.  *)
(***************************************************************************)
Age(n, limit) == IF n < limit THEN n + 1 ELSE n

Tick ==
    /\ created' = [i \in Imports |-> IF status[i] = "absent" THEN 0
                                     ELSE Age(created[i], Window)]
    /\ updated' = [i \in Imports |-> IF status[i] = "absent" THEN 0
                                     ELSE Age(updated[i], Lease)]
    /\ held' = [w \in Workers |-> IF pc[w] \in Claimed THEN Age(held[w], Lease)
                                 ELSE 0]
    /\ broken' = broken \cup {i \in Imports : \E w \in Workers :
                                Validating(w, i) /\ held'[w] = Lease}
    /\ UNCHANGED <<status, source, request, queue, pc, on, retryableFailed,
                   plan, faults>>

RequestStep(i) == Enqueue(i) \/ MarkRetryable(i)
WorkerStep(w) == Lookup(w) \/ Claim(w) \/ Stat(w) \/ Settle(w)

Next ==
    \/ \E i \in Imports :
          \/ CreateImport(i) \/ RequestStep(i) \/ EnqueueFails(i)
          \/ MarkFails(i) \/ ApiCrash(i) \/ SourceBecomesIneligible(i)
          \/ Stall(i) \/ Due(i) \/ Retention(i) \/ ReconcileCandidate(i)
    \/ \E w \in Workers, i \in Imports : Run(w, i)
    \/ \E w \in Workers : WorkerStep(w) \/ StatFails(w) \/ DatabaseFails(w)
                          \/ WorkerCrash(w)
    \/ RedisLoss \/ Reconcile \/ ReconcileAborts \/ Tick

(***************************************************************************)
(* Requests and workers that are not killed make progress, the clock runs, *)
(* and the scheduler's repeat job keeps reconciling.                       *)
(***************************************************************************)
Fairness ==
    /\ \A i \in Imports : WF_vars(RequestStep(i)) /\ WF_vars(ReconcileCandidate(i))
    /\ \A w \in Workers : WF_vars(WorkerStep(w))
    /\ WF_vars(Reconcile)
    /\ WF_vars(Tick)

Spec == Init /\ [][Next]_vars
FairSpec == Spec /\ Fairness

-----------------------------------------------------------------------------
TypeOK ==
    /\ status \in [Imports -> Statuses]
    /\ created \in [Imports -> 0..Window]
    /\ updated \in [Imports -> 0..Lease]
    /\ present \in SUBSET Imports /\ ineligible \in SUBSET Imports
    /\ request \in [Imports -> Requests]
    /\ job \in [Imports -> JobStates]
    /\ runner \in [Imports -> Workers \cup {None}]
    /\ pc \in [Workers -> Steps]
    /\ on \in [Workers -> Imports]
    /\ retryableFailed \in SUBSET Workers
    /\ held \in [Workers -> 0..Lease]
    /\ broken \in SUBSET Imports
    /\ plan \in [Imports -> Decisions]
    /\ faults \in 0..MaxFaults

\* Two workers validate the same import at the same time only when a claim of
\* it outlived its lease or was overwritten by the creating request, by the
\* reconciler or by a worker that found the source ineligible: the conditional
\* claim alone never lets a second worker in, not even when BullMQ hands the
\* job to two of them.
ClaimExcludes ==
    \A i \in Imports : \A w, v \in Workers :
        Validating(w, i) /\ Validating(v, i) /\ w # v => i \in broken

\* Every import ends completed or terminally failed, whatever request, worker,
\* queue or reconciler failed on the way.
EveryImportSettles == \A i \in Imports : request[i] # "none" ~> Settled(i)

=============================================================================
