---------------------------- MODULE EmailDelivery ----------------------------
(***************************************************************************)
(* The school-email-delivery queue: the recipients of one batch, the core  *)
(* workers that send to them, the reconciler and the cancellation request. *)
(* (src/src/modules/settings/email/delivery)                               *)
(*                                                                         *)
(* The specification starts where createBatchWithRecipients has committed  *)
(* and the request has called addJob for each recipient: some of the calls *)
(* may have failed.  A queue slot is reduced to its live job: a finished   *)
(* job is as good as none to ensureJobFromPersistedTruth, and a delayed    *)
(* one is a waiting one.                                                   *)
(*                                                                         *)
(* Only markRecipientSending, markRecipientCancelled and                   *)
(* markBatchProcessing are conditional; every other write is not.          *)
(***************************************************************************)
EXTENDS BullJobs, Naturals

CONSTANTS
    Recipients,   \* the recipients of the batch
    Credentials,  \* those whose mail carries a temporary password to apply
    Workers,      \* core worker instances
    Reconciler,   \* the process that runs the reconcile job
    None,         \* no worker
    MayStall,     \* TRUE: a live worker may lose its BullMQ job lock
    MaxFaults     \* bound on failed calls, crashes and Redis losses

ASSUME CredentialsAssumption == Credentials \subseteq Recipients
ASSUME ReconcilerAssumption == Reconciler \notin Workers
ASSUME NoneAssumption == None \notin Workers
ASSUME MayStallAssumption == MayStall \in BOOLEAN
ASSUME MaxFaultsAssumption == MaxFaults \in Nat

VARIABLES
    status,      \* recipient status; FAILED split by its failure reason
    batch,       \* batch status
    stale,       \* the recipients whose last attempt is older than the lease
    expired,     \* TRUE: the batch is older than the recovery window
    attempts,    \* history: calls of sendMail, 0, 1 or 2 for several
    accepted,    \* history: the recipients whose mail the provider took
    applied,     \* the recipients whose temporary password is in force
    job, runner, \* live queue job, if any, and the worker BullMQ gave it to
    pc, on,      \* each actor's next step and its recipient
    after,       \* what an actor does once the batch is refreshed
    counted,     \* the batch status refreshBatchStatus has computed
    plan,        \* the reconciler's decisions on the rows it has listed
    cancel,      \* how far the cancellation request got
    faults

Actors == Workers \cup {Reconciler}

delivery == <<status, stale>>
effects == <<attempts, accepted, applied>>
queue == <<job, runner>>
local == <<on, after, counted>>
vars == <<delivery, batch, expired, effects, queue, pc, local, plan, cancel,
          faults>>

Statuses == {"QUEUED", "SENDING", "SENT", "RETRYABLE", "TERMINAL", "UNKNOWN",
             "CANCELLED"}
BatchStatuses == {"QUEUED", "PROCESSING", "SUCCEEDED", "PARTIAL_FAILED",
                  "FAILED", "CANCELLED"}
\* From the claim to the first write that gives the recipient up.
BeforeSend == {"begin", "prepare", "send"}
Sending == BeforeSend \cup {"apply", "markSent"}
Writes == {"UNKNOWN", "RETRYABLE", "TERMINAL"}
Refreshing == {"refresh", "count", "write"}
Steps == {"idle", "claim", "cancelled"} \cup Sending \cup Writes \cup Refreshing
Afters == {"return", "throw", "sent"}
Decisions == {"none", "UNKNOWN", "TERMINAL", "ensure"}

\* Mutant: a recipient that is being sent to can be claimed again.
ClaimableTwice == {"QUEUED", "RETRYABLE", "SENDING"}

\* The statuses that markRecipientSending accepts.
Claimable == {"QUEUED", "RETRYABLE"}

Init ==
    /\ status = [r \in Recipients |-> "QUEUED"]
    /\ batch = "QUEUED"
    /\ stale = {} /\ expired = FALSE
    /\ attempts = [r \in Recipients |-> 0]
    /\ accepted = {} /\ applied = {}
    /\ job \in [Recipients -> {"none", "waiting"}]
    /\ runner = [r \in Recipients |-> None]
    /\ pc = [a \in Actors |-> "idle"]
    /\ on \in [Actors -> Recipients]
    /\ after = [a \in Actors |-> "return"]
    /\ counted = [a \in Actors |-> "QUEUED"]
    /\ plan = [r \in Recipients |-> "none"]
    /\ cancel = "none"
    /\ faults = 0

Fault == faults < MaxFaults /\ faults' = faults + 1
Goto(a, step) == pc' = [pc EXCEPT ![a] = step]
Write(r, s) == status' = [status EXCEPT ![r] = s] /\ stale' = stale \ {r}

(***************************************************************************)
(* CancelEmailDeliveryUseCase cancels the batch in two statements.         *)
(***************************************************************************)
CancelChecks ==
    /\ cancel = "none"
    /\ batch \in {"QUEUED", "PROCESSING"}
    /\ cancel' = "batch"
    /\ UNCHANGED <<delivery, batch, expired, effects, queue, pc, local,
                   plan, faults>>

CancelBatch ==
    /\ cancel = "batch"
    /\ batch' = "CANCELLED"
    /\ cancel' = "recipients"
    /\ UNCHANGED <<delivery, expired, effects, queue, pc, local, plan, faults>>

CancelRecipients ==
    /\ cancel = "recipients"
    /\ status' = [r \in Recipients |-> IF status[r] = "QUEUED" THEN "CANCELLED"
                                       ELSE status[r]]
    /\ cancel' = "done"
    /\ UNCHANGED <<stale, batch, expired, effects, queue, pc, local,
                   plan, faults>>

(***************************************************************************)
(* ProcessEmailDeliveryRecipientUseCase                                    *)
(***************************************************************************)
\* A thrown job is retried, or has used up its attempts.
Thrown == {"waiting", "none"}

\* The processor ends: BullMQ moves the job unless the worker has lost it.
Return(w, outcomes) ==
    /\ Goto(w, "idle")
    /\ after' = [after EXCEPT ![w] = "return"]
    /\ counted' = [counted EXCEPT ![w] = "QUEUED"]
    /\ UNCHANGED on
    /\ IF runner[on[w]] = w
       THEN /\ \E s \in outcomes : job' = [job EXCEPT ![on[w]] = s]
            /\ runner' = [runner EXCEPT ![on[w]] = None]
       ELSE UNCHANGED queue

\* The job is taken and findRecipientForProcessing decides its course: an
\* earlier attempt that is still SENDING is quarantined, never repeated.
Course(r) ==
    CASE status[r] = "SENDING" -> "UNKNOWN"
      [] status[r] \in Claimable /\ batch = "CANCELLED" -> "cancelled"
      [] status[r] \in Claimable /\ batch # "CANCELLED" -> "claim"
      [] OTHER -> "idle"

Run(w, r) ==
    /\ pc[w] = "idle" /\ job[r] = "waiting"
    /\ on' = [on EXCEPT ![w] = r]
    /\ Goto(w, Course(r))
    /\ IF Course(r) = "idle"
       THEN job' = [job EXCEPT ![r] = "none"] /\ UNCHANGED runner
       ELSE job' = [job EXCEPT ![r] = "active"] /\ runner' = [runner EXCEPT ![r] = w]
    /\ UNCHANGED <<delivery, batch, expired, effects, after, counted,
                   plan, cancel, faults>>

\* markRecipientSending: compare and set.
Claims(r) ==
    /\ status[r] \in Claimable
    /\ status' = [status EXCEPT ![r] = "SENDING"]
    /\ stale' = stale \ {r}

Claim(w) ==
    /\ pc[w] = "claim"
    /\ \/ Claims(on[w]) /\ Goto(w, "begin") /\ UNCHANGED <<queue, local>>
       \/ status[on[w]] \notin Claimable /\ Return(w, {"none"})
          /\ UNCHANGED delivery
    /\ UNCHANGED <<batch, expired, effects, plan, cancel, faults>>

\* The batch statuses in the WHERE clause of markBatchProcessing become this.
Processing == IF batch \in {"SUCCEEDED", "CANCELLED"} THEN batch ELSE "PROCESSING"

markBatchProcessing(w) ==
    /\ pc[w] = "begin"
    /\ Goto(w, "prepare")
    /\ batch' = Processing
    /\ UNCHANGED <<delivery, expired, effects, queue, local, plan,
                   cancel, faults>>

\* classifyPreProviderFailure: what comes of a recipient that was not sent to.
NotSent == {"RETRYABLE", "TERMINAL"}

\* The connection is read, the Message-ID saved, the mail rendered.  Each can
\* fail for now (no connection, a failed call) or for good (invalid input).
Prepare(w) ==
    /\ pc[w] = "prepare"
    /\ \E step \in {"send"} \cup NotSent : Goto(w, step)
    /\ UNCHANGED <<delivery, batch, expired, effects, queue, local, plan, cancel, faults>>

\* NodemailerEmailTransport refuses before it talks to the provider.
SendRefused(w) ==
    /\ pc[w] = "send"
    /\ \E step \in NotSent : Goto(w, step)
    /\ UNCHANGED <<delivery, batch, expired, effects, queue, local, plan, cancel, faults>>

\* Mutant: an error that leaves the outcome open counts as a success.
SendAssumesSuccess(w) ==
    /\ pc[w] = "send"
    /\ attempts' = [attempts EXCEPT ![on[w]] = IF @ < 2 THEN @ + 1 ELSE @]
    /\ Goto(w, IF on[w] \in Credentials THEN "apply" ELSE "markSent")
    /\ accepted' \in {accepted, accepted \cup {on[w]}}
    /\ UNCHANGED <<delivery, batch, expired, applied, queue, local, plan, cancel, faults>>

\* transport.sendMail: accepted, rejected, or an error that tells neither.
Send(w) ==
    /\ pc[w] = "send"
    /\ attempts' = [attempts EXCEPT ![on[w]] = IF @ < 2 THEN @ + 1 ELSE @]
    /\ \/ /\ Goto(w, IF on[w] \in Credentials THEN "apply" ELSE "markSent")
          /\ accepted' = accepted \cup {on[w]}
       \/ /\ Goto(w, "TERMINAL")
          /\ UNCHANGED accepted
       \/ /\ Goto(w, "UNKNOWN")
          /\ accepted' \in {accepted, accepted \cup {on[w]}}
    /\ UNCHANGED <<delivery, batch, expired, applied, queue, local, plan, cancel, faults>>

\* updateUserCredential and revokeUserSessions.
Apply(w) ==
    /\ pc[w] = "apply"
    /\ applied' = applied \cup {on[w]}
    /\ Goto(w, "markSent")
    /\ UNCHANGED <<delivery, batch, expired, attempts, accepted, queue,
                   local, plan, cancel, faults>>

\* The write that closes the attempt: markRecipientSent, markRecipientFailed
\* or the conditional markRecipientCancelled.
Closes(w) ==
    \/ pc[w] = "markSent" /\ Write(on[w], "SENT")
    \/ pc[w] \in Writes /\ Write(on[w], pc[w])
    \/ /\ pc[w] = "cancelled"
       /\ IF status[on[w]] \in {"QUEUED", "SENDING"}
          THEN Write(on[w], "CANCELLED") ELSE UNCHANGED delivery

\* It is followed by refreshBatchStatus and what the use case does after it.
Afterwards(step) ==
    CASE step = "markSent" -> "sent"
      [] step = "RETRYABLE" -> "throw"
      [] OTHER -> "return"

Close(w) ==
    /\ Closes(w)
    /\ after' = [after EXCEPT ![w] = Afterwards(pc[w])]
    /\ Goto(w, "refresh")
    /\ UNCHANGED <<batch, expired, effects, queue, on, counted, plan, cancel, faults>>

\* refreshBatchStatus counts the recipients (the counts are one step here).
CountedStatus ==
    LET In(S) == {r \in Recipients : status[r] \in S}
    IN  CASE In({"QUEUED", "SENDING"}) # {} -> "PROCESSING"
          [] In({"SENT"}) = Recipients -> "SUCCEEDED"
          [] In({"QUEUED", "SENDING"}) = {} /\ In({"SENT"}) \notin {{}, Recipients}
               -> "PARTIAL_FAILED"
          [] OTHER -> "FAILED"

Done(a) ==
    IF a = Reconciler
    THEN Goto(a, "idle") /\ UNCHANGED <<queue, local>>
    ELSE Return(a, IF after[a] = "throw" THEN Thrown ELSE {"none"})

\* It reads the batch and leaves a cancelled one alone, ...
Refresh(a) ==
    /\ pc[a] = "refresh"
    /\ \/ batch = "CANCELLED" /\ Done(a)
       \/ batch # "CANCELLED" /\ Goto(a, "count") /\ UNCHANGED <<queue, local>>
    /\ UNCHANGED <<delivery, batch, expired, effects, plan, cancel, faults>>

Count(a) ==
    /\ pc[a] = "count"
    /\ counted' = [counted EXCEPT ![a] = CountedStatus]
    /\ Goto(a, "write")
    /\ UNCHANGED <<delivery, batch, expired, effects, queue, on, after, plan,
                   cancel, faults>>

\* ... and writes what it computed, whatever happened in between.
WriteBatch(a) ==
    /\ pc[a] = "write"
    /\ batch' = counted[a]
    /\ Done(a)
    /\ UNCHANGED <<delivery, expired, effects, plan, cancel, faults>>

(***************************************************************************)
(* Failures of a worker's calls.  Inside the try block a failure before    *)
(* the transport is retryable (Prepare), one after it is quarantined;      *)
(* outside, it is thrown.  The failed write may have been applied.         *)
(***************************************************************************)
CallFails(w) ==
    /\ pc[w] \notin {"idle", "prepare", "send"}
    /\ Fault
    /\ UNCHANGED delivery \/ (pc[w] = "claim" /\ Claims(on[w])) \/ Closes(w)
    /\ \/ UNCHANGED batch
       \/ pc[w] = "begin" /\ batch' = Processing
       \/ pc[w] = "write" /\ batch' = counted[w]
    /\ UNCHANGED applied \/ (pc[w] = "apply" /\ applied' = applied \cup {on[w]})
    /\ IF pc[w] \in {"apply", "markSent"} \/ after[w] = "sent"
       THEN /\ Goto(w, "UNKNOWN")
            /\ after' = [after EXCEPT ![w] = "return"]
            /\ UNCHANGED <<queue, on, counted>>
       ELSE Return(w, Thrown)
    /\ UNCHANGED <<expired, attempts, accepted, plan, cancel>>

WorkerCrash(w) ==
    /\ pc[w] # "idle"
    /\ Fault
    /\ Goto(w, "idle")
    /\ after' = [after EXCEPT ![w] = "return"]
    /\ counted' = [counted EXCEPT ![w] = "QUEUED"]
    /\ UNCHANGED <<delivery, batch, expired, effects, queue, on, plan, cancel>>

(***************************************************************************)
(* BullMQ                                                                  *)
(***************************************************************************)
Stall(r) ==
    /\ job[r] = "active"
    /\ MayStall \/ pc[runner[r]] = "idle" \/ on[runner[r]] # r
    /\ job' \in {[job EXCEPT ![r] = "waiting"], [job EXCEPT ![r] = "none"]}
    /\ runner' = [runner EXCEPT ![r] = None]
    /\ UNCHANGED <<delivery, batch, expired, effects, pc, local, plan, cancel, faults>>

RedisLoss ==
    /\ Fault
    /\ job' = [r \in Recipients |-> "none"]
    /\ runner' = [r \in Recipients |-> None]
    /\ UNCHANGED <<delivery, batch, expired, effects, pc, local, plan, cancel>>

(***************************************************************************)
(* SchoolEmailDeliveryReconciliationService.  Its three lists (stale       *)
(* SENDING rows, expired rows, open rows) exclude each other row by row,   *)
(* so one listing stands for them; out is the set of recipients whose      *)
(* tenant or user is inactive when the rows are read.                      *)
(***************************************************************************)
\* Mutant: a stale attempt is scheduled for a retry.
ListedForRetry(r, out) ==
    CASE batch # "CANCELLED" /\ status[r] = "SENDING" /\ r \in stale -> "RETRYABLE"
      [] batch # "CANCELLED" /\ status[r] \in Claimable ->
            IF r \in out \/ expired THEN "TERMINAL" ELSE "ensure"
      [] OTHER -> "none"

\* Mutant: stale attempts are not listed.
ListedWithoutStale(r, out) ==
    IF batch # "CANCELLED" /\ status[r] \in Claimable
    THEN IF r \in out \/ expired THEN "TERMINAL" ELSE "ensure"
    ELSE "none"

Listed(r, out) ==
    CASE batch = "CANCELLED" -> "none"
      [] batch # "CANCELLED" /\ status[r] = "SENDING" /\ r \in stale ->
            IF r \in out THEN "TERMINAL" ELSE "UNKNOWN"
      [] batch # "CANCELLED" /\ status[r] \in Claimable ->
            IF r \in out \/ expired THEN "TERMINAL" ELSE "ensure"
      [] OTHER -> "none"

List ==
    /\ pc[Reconciler] = "idle"
    /\ \A r \in Recipients : plan[r] = "none"
    /\ \E out \in SUBSET Recipients :
          plan' = [r \in Recipients |-> Listed(r, out)]
    /\ UNCHANGED <<delivery, batch, expired, effects, queue, pc, local, cancel,
                   faults>>

\* terminalizeCandidate, or ensureJobFromPersistedTruth.
Treat(r) ==
    /\ pc[Reconciler] = "idle"
    /\ plan[r] # "none"
    /\ plan' = [plan EXCEPT ![r] = "none"]
    /\ \/ /\ plan[r] = "ensure"
          /\ job' = [job EXCEPT ![r] = QueueAdd(@)]
          /\ UNCHANGED <<delivery, pc>>
       \/ /\ plan[r] \in Writes
          /\ Write(r, plan[r])
          /\ Goto(Reconciler, "refresh")
          /\ UNCHANGED job
    /\ UNCHANGED <<batch, expired, effects, runner, local, cancel,
                   faults>>

\* A failed call or a crash ends the round.
ReconcileAborts ==
    /\ pc[Reconciler] # "idle" \/ \E r \in Recipients : plan[r] # "none"
    /\ Fault
    /\ Goto(Reconciler, "idle")
    /\ plan' = [r \in Recipients |-> "none"]
    /\ UNCHANGED <<delivery, batch, expired, effects, queue, local, cancel>>

(***************************************************************************)
(* Time and the world.                                                     *)
(***************************************************************************)
LeasePasses(r) ==
    /\ status[r] = "SENDING"
    /\ stale' = stale \cup {r}
    /\ UNCHANGED <<status, batch, expired, effects, queue, pc, local,
                   plan, cancel, faults>>

WindowPasses ==
    /\ expired' = TRUE
    /\ UNCHANGED <<delivery, batch, effects, queue, pc,
                   local, plan, cancel, faults>>

WorkerStep(w) ==
    \/ Claim(w) \/ markBatchProcessing(w) \/ Prepare(w) \/ SendRefused(w)
    \/ Send(w) \/ Apply(w) \/ Close(w) \/ Refresh(w) \/ Count(w) \/ WriteBatch(w)
ReconcilerStep ==
    \/ List \/ \E r \in Recipients : Treat(r)
    \/ Refresh(Reconciler) \/ Count(Reconciler) \/ WriteBatch(Reconciler)
CancelStep == CancelBatch \/ CancelRecipients

Next ==
    \/ \E r \in Recipients : Stall(r) \/ LeasePasses(r)
    \/ \E w \in Workers, r \in Recipients : Run(w, r)
    \/ \E w \in Workers : WorkerStep(w) \/ CallFails(w) \/ WorkerCrash(w)
    \/ ReconcilerStep \/ ReconcileAborts \/ RedisLoss \/ WindowPasses
    \/ CancelChecks \/ CancelStep

(***************************************************************************)
(* Running workers and requests proceed, leases and the window pass, the   *)
(* scheduler's repeat job keeps the reconciler running, and a job that     *)
(* always throws uses up its three attempts.                               *)
(***************************************************************************)
LastAttemptEnds(r) ==
    \E w \in Workers : on[w] = r /\ (Refresh(w) \/ WriteBatch(w)) /\ job'[r] = "none"

Fairness ==
    /\ \A w \in Workers : WF_vars(WorkerStep(w))
    /\ WF_vars(ReconcilerStep) /\ WF_vars(CancelStep) /\ WF_vars(WindowPasses)
    /\ \A r \in Recipients :
          /\ WF_vars(LeasePasses(r)) /\ WF_vars(Stall(r))
          /\ WF_vars(\E w \in Workers : Run(w, r))
          /\ SF_vars(LastAttemptEnds(r))

Spec == Init /\ [][Next]_vars
FairSpec == Spec /\ Fairness

-----------------------------------------------------------------------------
TypeOK ==
    /\ status \in [Recipients -> Statuses]
    /\ batch \in BatchStatuses
    /\ stale \in SUBSET Recipients /\ expired \in BOOLEAN
    /\ attempts \in [Recipients -> 0..2]
    /\ accepted \in SUBSET Recipients /\ applied \in SUBSET Recipients
    /\ job \in [Recipients -> {"none", "waiting", "active"}]
    /\ runner \in [Recipients -> Workers \cup {None}]
    /\ pc \in [Actors -> Steps] /\ on \in [Actors -> Recipients]
    /\ after \in [Actors -> Afters] /\ counted \in [Actors -> BatchStatuses]
    /\ plan \in [Recipients -> Decisions]
    /\ cancel \in {"none", "batch", "recipients", "done"}
    /\ faults \in 0..MaxFaults

\* The provider is called at most once for a recipient, whatever crashes,
\* stalls, lost answers, Redis losses and stale reconciler decisions there are.
NoSecondSend == \A r \in Recipients : attempts[r] <= 1

\* A batch reported as succeeded had every recipient's mail accepted by the
\* provider, and every temporary password in one of them is in force.
SucceededMeansDelivered ==
    batch = "SUCCEEDED" => accepted = Recipients /\ Credentials \subseteq applied

\* What the batch promises whoever ordered it: one attempt per recipient, no new
\* password without its mail, no success that was not delivered (SendOnce).
Promise == INSTANCE SendOnce WITH calls <- attempts,
                                  reported <- (batch = "SUCCEEDED")

\* Every recipient ends sent, failed for good, quarantined or cancelled, or its
\* batch is cancelled and nobody owes it anything.
EveryRecipientSettles ==
    <>[](\A r \in Recipients : \/ status[r] \notin Claimable \cup {"SENDING"}
                               \/ batch = "CANCELLED")

=============================================================================
