----------------------------- MODULE PushDelivery -----------------------------
(***************************************************************************)
(* The communication-notification-push queue: one delivery, an attempt per *)
(* device token, the core workers that dispatch to the push provider and   *)
(* the reconciler that requeues or closes the delivery.                    *)
(* (src/src/modules/communication)                                         *)
(*                                                                         *)
(* Nothing is claimed before the provider is called: delivery is at least  *)
(* once.  Instead every result is written by compare and set, against the  *)
(* states of the attempt and of the delivery that were read just before.   *)
(*                                                                         *)
(* Each database or provider round trip is one step; the reads that open   *)
(* recordAttemptResult are one step, because a delivery never returns to a *)
(* state it has left, so the later compare notices any change in between.  *)
(***************************************************************************)
EXTENDS BullJobs, Naturals

CONSTANTS
    Tokens,      \* the recipient's device tokens
    RetryCodes,  \* retryable provider error codes
    Workers,     \* core worker instances
    Reconciler,  \* the process that runs the reconcile job
    None,        \* no worker, no token
    MayStall,    \* TRUE: a live worker may lose its BullMQ job lock
    MaxFaults    \* bound on failed calls, crashes and Redis losses

Final == {"SENT", "FAILED", "SKIPPED"}

ASSUME ReconcilerAssumption == Reconciler \notin Workers
ASSUME NoneAssumption == None \notin Workers \cup Tokens
ASSUME RetryCodesAssumption ==
    RetryCodes \cap ({"none", "PENDING", "REMAINS"} \cup Final) = {}
ASSUME MayStallAssumption == MayStall \in BOOLEAN
ASSUME MaxFaultsAssumption == MaxFaults \in Nat

VARIABLES
    delivery,    \* delivery status; REMAINS is PENDING with the error code that
                 \* says retryable attempts remain
    attempt,     \* status of each token's attempt; a retryable failure is its code
    surface,     \* FALSE: the recipient's type has no app to push to
    expired,     \* TRUE: the delivery is older than the recovery window
    ineligible,  \* TRUE: tenant or recipient may no longer be served
    accepted,    \* history: the tokens whose push the provider took
    overlapped,  \* history: two workers have processed the delivery at once
    job, runner, \* live queue job, if any, and the worker BullMQ gave it to
    pc,          \* each actor's next round trip
    closing,     \* the actors that run terminalizeRecovery
    batch,       \* the tokens an actor still means to dispatch to
    todo,        \* the results an actor has yet to record
    item, seenAttempt, seenDelivery,  \* what its compare and set is about
    verdict,     \* the delivery status it will write
    faults

Actors == Workers \cup {Reconciler}
Results == [Tokens -> {"none"} \cup Final \cup RetryCodes]
NoResults == [t \in Tokens |-> "none"]

rows == <<delivery, attempt>>
world == <<surface, expired, ineligible>>
history == <<accepted, overlapped>>
queue == <<job, runner>>
seen == <<item, seenAttempt, seenDelivery>>
local == <<closing, batch, todo, seen, verdict>>
vars == <<rows, world, history, queue, pc, local, faults>>

Steps == {"idle", "requeue", "close", "fenceA", "ensure", "list", "relist", "fenceB",
          "send", "record", "swap", "aggregate", "look", "conclude"}

\* Mutant: only a failure or a skip is an outcome.
isProcessableUnlessFailed(s) == s \notin {"none", "FAILED", "SKIPPED"}

\* isProcessableCommunicationPushState, of a delivery or of an attempt.
isProcessable(s) == s \in {"PENDING", "REMAINS"} \cup RetryCodes

Init ==
    /\ delivery = "PENDING"
    /\ attempt = [t \in Tokens |-> "none"]
    /\ surface \in BOOLEAN
    /\ expired = FALSE /\ ineligible = FALSE
    /\ accepted = {} /\ overlapped = FALSE
    /\ job = "none" /\ runner = None
    /\ pc = [a \in Actors |-> "idle"]
    /\ closing = {}
    /\ batch = [a \in Actors |-> {}]
    /\ todo = [a \in Actors |-> NoResults]
    /\ item = [a \in Actors |-> None]
    /\ seenAttempt = [a \in Actors |-> "none"]
    /\ seenDelivery = [a \in Actors |-> "PENDING"]
    /\ verdict = [a \in Actors |-> "PENDING"]
    /\ faults = 0

Fault == faults < MaxFaults /\ faults' = faults + 1
Goto(a, step) == pc' = [pc EXCEPT ![a] = step]

\* The actor's locals are gone.
Forget(a) ==
    /\ Goto(a, "idle")
    /\ closing' = closing \ {a}
    /\ batch' = [batch EXCEPT ![a] = {}]
    /\ todo' = [todo EXCEPT ![a] = NoResults]
    /\ item' = [item EXCEPT ![a] = None]
    /\ seenAttempt' = [seenAttempt EXCEPT ![a] = "none"]
    /\ seenDelivery' = [seenDelivery EXCEPT ![a] = "PENDING"]
    /\ verdict' = [verdict EXCEPT ![a] = "PENDING"]

\* A thrown job is retried, or has used up its attempts.
Thrown == {"waiting", "none"}

\* The call ends; BullMQ moves the job of a worker that still has it.
Return(a, outcomes) ==
    /\ Forget(a)
    /\ IF runner = a THEN job' \in outcomes /\ runner' = None
       ELSE UNCHANGED queue

(***************************************************************************)
(* CommunicationNotificationPushDeliveryService.processDelivery            *)
(***************************************************************************)
\* A worker takes the job and reads the delivery.
Run(w) ==
    /\ pc[w] = "idle" /\ job = "waiting"
    /\ IF ~isProcessable(delivery)
       THEN job' = "none" /\ UNCHANGED <<runner, overlapped, pc, closing, verdict>>
       ELSE /\ job' = "active" /\ runner' = w
            /\ overlapped' = (overlapped \/ \E v \in Workers \ {w} : pc[v] # "idle")
            /\ \/ /\ expired
                  /\ Goto(w, "close")
                  /\ closing' = closing \cup {w} /\ UNCHANGED verdict
               \/ /\ ~expired /\ ~surface
                  /\ Goto(w, "look")
                  /\ verdict' = [verdict EXCEPT ![w] = "SKIPPED"] /\ UNCHANGED closing
               \/ /\ ~expired /\ surface
                  /\ Goto(w, "fenceA")
                  /\ UNCHANGED <<closing, verdict>>
    /\ UNCHANGED <<rows, world, accepted, batch, todo, seen, faults>>

\* checkDispatchEligibility, before preparation and again before dispatch.
Fence(w) ==
    /\ pc[w] \in {"fenceA", "fenceB"}
    /\ \/ /\ ~isProcessable(delivery)
          /\ Return(w, {"none"})
       \/ /\ isProcessable(delivery) /\ ineligible
          /\ Goto(w, "close")
          /\ closing' = closing \cup {w}
          /\ batch' = [batch EXCEPT ![w] = {}]
          /\ UNCHANGED <<queue, todo, seen, verdict>>
       \/ /\ isProcessable(delivery) /\ ~ineligible
          /\ Goto(w, IF pc[w] = "fenceA" THEN "ensure" ELSE "send")
          /\ UNCHANGED <<queue, local>>
    /\ UNCHANGED <<rows, world, history, faults>>

\* ensurePendingAttempts: one statement inserts the attempts that are missing,
\* provided the delivery is still open.
Ensured(tokens) ==
    [t \in Tokens |-> IF t \in tokens /\ attempt[t] = "none" /\ isProcessable(delivery)
                      THEN "PENDING" ELSE attempt[t]]

\* The active tokens are read: devices register and unregister at any time.
Ensure(w) ==
    /\ pc[w] = "ensure"
    /\ \E active \in SUBSET Tokens :
          /\ batch' = [batch EXCEPT ![w] = active]
          /\ attempt' = Ensured(active)
    /\ Goto(w, "list")
    /\ UNCHANGED <<delivery, world, history, queue, closing, todo, seen, verdict, faults>>

\* Where an actor goes with these results to record and tokens to dispatch to.
After(results, tokens) ==
    IF results # NoResults THEN "record"
    ELSE IF tokens # {} THEN "relist" ELSE "aggregate"

Fails(tokens) == [t \in Tokens |-> IF t \in tokens THEN "FAILED" ELSE "none"]

\* Without devices the delivery is skipped; otherwise tokens that need no push
\* are left out and those that cannot be decrypted have failed.
List(w) ==
    /\ pc[w] = "list"
    /\ LET wanted == {t \in batch[w] : attempt[t] = "none" \/ isProcessable(attempt[t])}
       IN  IF batch[w] = {} /\ attempt = NoResults
           THEN /\ Goto(w, "look")
                /\ verdict' = [verdict EXCEPT ![w] = "SKIPPED"]
                /\ UNCHANGED <<batch, todo>>
           ELSE \E bad \in SUBSET wanted :
                /\ batch' = [batch EXCEPT ![w] = wanted \ bad]
                /\ todo' = [todo EXCEPT ![w] = Fails(bad)]
                /\ Goto(w, After(Fails(bad), wanted \ bad))
                /\ UNCHANGED verdict
    /\ UNCHANGED <<rows, world, history, queue, closing, seen, faults>>

\* The attempts are read again: what has an outcome by now is not dispatched.
Relist(w) ==
    /\ pc[w] = "relist"
    /\ LET open == {t \in batch[w] : isProcessable(attempt[t])}
       IN  /\ batch' = [batch EXCEPT ![w] = open]
           /\ Goto(w, IF open = {} THEN "aggregate" ELSE "fenceB")
    /\ UNCHANGED <<rows, world, history, queue, closing, todo, seen, verdict, faults>>

\* firebasePushProvider.sendBatch: a result for every token.  A retryable code
\* does not tell whether the provider took the push.
Send(w) ==
    /\ pc[w] = "send"
    /\ \E results \in Results :
          /\ \A t \in Tokens : results[t] # "none" <=> t \in batch[w]
          /\ todo' = [todo EXCEPT ![w] = results]
          /\ \E unclear \in SUBSET {t \in batch[w] : results[t] \in RetryCodes} :
                accepted' = accepted \cup unclear
                                     \cup {t \in batch[w] : results[t] = "SENT"}
    /\ batch' = [batch EXCEPT ![w] = {}]
    /\ Goto(w, "record")
    /\ UNCHANGED <<rows, world, overlapped, queue, closing, seen, verdict, faults>>

(***************************************************************************)
(* recordAttemptResult                                                     *)
(***************************************************************************)
Recorded(a, t) ==
    LET rest == [todo[a] EXCEPT ![t] = "none"]
    IN  /\ todo' = [todo EXCEPT ![a] = rest]
        /\ Goto(a, After(rest, batch[a]))

\* Reads the delivery, makes sure that there is an attempt, and reads it.
Record(a, t) ==
    /\ pc[a] = "record" /\ todo[a][t] # "none"
    /\ attempt' = Ensured({t})
    /\ IF isProcessable(delivery) /\ isProcessable(attempt'[t])
       THEN /\ Goto(a, "swap")
            /\ item' = [item EXCEPT ![a] = t]
            /\ seenAttempt' = [seenAttempt EXCEPT ![a] = attempt'[t]]
            /\ seenDelivery' = [seenDelivery EXCEPT ![a] = delivery]
            /\ UNCHANGED todo
       ELSE Recorded(a, t) /\ UNCHANGED seen
    /\ UNCHANGED <<delivery, world, history, queue, closing, batch, verdict, faults>>

\* Mutant: the update names the attempt only.
SwappedAnyway(a) == [attempt EXCEPT ![item[a]] = todo[a][item[a]]]

\* The conditional update, which changes nothing when either has moved.
Swapped(a) ==
    IF attempt[item[a]] = seenAttempt[a] /\ delivery = seenDelivery[a]
    THEN [attempt EXCEPT ![item[a]] = todo[a][item[a]]]
    ELSE attempt

Swap(a) ==
    /\ pc[a] = "swap"
    /\ attempt' = Swapped(a)
    /\ Recorded(a, item[a])
    /\ item' = [item EXCEPT ![a] = None]
    /\ seenAttempt' = [seenAttempt EXCEPT ![a] = "none"]
    /\ seenDelivery' = [seenDelivery EXCEPT ![a] = "PENDING"]
    /\ UNCHANGED <<delivery, world, history, queue, closing, batch, verdict, faults>>

(***************************************************************************)
(* The aggregate and updateDeliveryStatus                                  *)
(***************************************************************************)
With(S) == {t \in Tokens : attempt[t] \in S}

\* Mutant: what did not fail was sent.
resolveAttemptAggregateOptimistic ==
    IF \E t \in Tokens : isProcessable(attempt[t]) THEN "REMAINS"
    ELSE IF With({"FAILED"}) = {} THEN "SENT" ELSE "FAILED"

\* Mutant: a delivery with retryable attempts takes over the code of one.
resolveAttemptAggregateCode ==
    IF \E t \in Tokens : attempt[t] \in RetryCodes
    THEN CHOOSE c \in RetryCodes : With({c}) # {}
    ELSE IF With({"PENDING"}) # {} THEN "REMAINS"
    ELSE IF With({"SENT"}) # {} THEN "SENT" ELSE "FAILED"

resolveAttemptAggregate ==
    IF \E t \in Tokens : isProcessable(attempt[t]) THEN "REMAINS"
    ELSE IF With({"SENT"}) # {} THEN "SENT"
    ELSE IF With({"FAILED"}) = {} THEN "SKIPPED"
    ELSE "FAILED"

\* terminalizeRecovery does not care for attempts that are still open.
terminalStatus ==
    IF With({"SENT"}) # {} THEN "SENT"
    ELSE IF With({"SKIPPED"}) # {} /\ With({"FAILED"} \cup RetryCodes) = {} THEN "SKIPPED"
    ELSE "FAILED"

Aggregate(a) ==
    /\ pc[a] = "aggregate"
    /\ verdict' = [verdict EXCEPT ![a] = IF a \in closing THEN terminalStatus
                                         ELSE resolveAttemptAggregate]
    /\ Goto(a, "look")
    /\ UNCHANGED <<rows, world, history, queue, closing, batch, todo, seen, faults>>

Look(a) ==
    /\ pc[a] = "look"
    /\ IF isProcessable(delivery)
       THEN /\ Goto(a, "conclude")
            /\ seenDelivery' = [seenDelivery EXCEPT ![a] = delivery]
            /\ UNCHANGED <<queue, closing, batch, todo, item, seenAttempt, verdict>>
       ELSE Return(a, {"none"})
    /\ UNCHANGED <<rows, world, history, faults>>

\* updateMany on the status that was read.
Concluded(a) == IF delivery = seenDelivery[a] THEN verdict[a] ELSE delivery

\* A delivery written as pending makes the job throw; one that somebody else
\* has moved does not.
Conclude(a) ==
    /\ pc[a] = "conclude"
    /\ delivery' = Concluded(a)
    /\ Return(a, IF delivery = seenDelivery[a] /\ verdict[a] = "REMAINS"
                 THEN Thrown ELSE {"none"})
    /\ UNCHANGED <<attempt, world, history, faults>>

(***************************************************************************)
(* terminalizeRecovery: every open attempt of the listed ones has failed.  *)
(***************************************************************************)
Close(a) ==
    /\ pc[a] = "close"
    /\ LET results == Fails({t \in Tokens : isProcessable(attempt[t])})
       IN  /\ todo' = [todo EXCEPT ![a] = results]
           /\ Goto(a, After(results, {}))
    /\ UNCHANGED <<rows, world, history, queue, closing, batch, seen, verdict, faults>>

(***************************************************************************)
(* CommunicationNotificationPushReconciliationService.  The list knows     *)
(* less than the fences about eligibility, so that an ineligible delivery  *)
(* may be requeued as well.                                                *)
(***************************************************************************)
\* Mutant: expired deliveries are not listed.
ListedUnexpired == isProcessable(delivery) /\ ~expired

\* listPushRecoveryCandidates
Listed == isProcessable(delivery)

Reconcile ==
    /\ pc[Reconciler] = "idle"
    /\ Listed
    /\ \/ /\ expired \/ ineligible
          /\ Goto(Reconciler, "close")
          /\ closing' = closing \cup {Reconciler}
       \/ /\ ~expired
          /\ Goto(Reconciler, "requeue")
          /\ UNCHANGED closing
    /\ UNCHANGED <<rows, world, history, queue, batch, todo, seen, verdict, faults>>

\* ensureJobFromPersistedTruth
Requeue ==
    /\ pc[Reconciler] = "requeue"
    /\ job' = QueueAdd(job)
    /\ Goto(Reconciler, "idle")
    /\ UNCHANGED <<rows, world, history, runner, local, faults>>

(***************************************************************************)
(* The generation of the notification, which created the delivery and may  *)
(* run again.                                                              *)
(***************************************************************************)
\* ensurePushDeliveriesInTransaction: a preference that is off by now skips the
\* delivery, decided or not, unless it was sent.
Regenerate ==
    /\ delivery \notin {"SENT", "SKIPPED"}
    /\ delivery' = "SKIPPED"
    /\ UNCHANGED <<attempt, world, history, queue, pc, local, faults>>

\* enqueuePushDeliveriesSafely: the delivery may have moved since it was listed,
\* and a failure is only logged.
Enqueue ==
    /\ job = "none"
    /\ job' = QueueAdd(job)
    /\ UNCHANGED <<rows, world, history, runner, pc, local, faults>>

(***************************************************************************)
(* Failures.  A rejected call ends the job or the round; the write it was  *)
(* about may have been applied.                                            *)
(***************************************************************************)
CallFails(a) ==
    /\ pc[a] # "idle"
    /\ Fault
    /\ \/ UNCHANGED <<rows, accepted>>
       \/ /\ pc[a] = "ensure"
          /\ \E active \in SUBSET Tokens : attempt' = Ensured(active)
          /\ UNCHANGED <<delivery, accepted>>
       \/ /\ pc[a] = "send"
          /\ \E some \in SUBSET batch[a] : accepted' = accepted \cup some
          /\ UNCHANGED rows
       \/ pc[a] = "swap" /\ attempt' = Swapped(a) /\ UNCHANGED <<delivery, accepted>>
       \/ pc[a] = "conclude" /\ delivery' = Concluded(a)
          /\ UNCHANGED <<attempt, accepted>>
    /\ Return(a, Thrown)
    /\ UNCHANGED <<world, overlapped>>

Crash(a) ==
    /\ pc[a] # "idle"
    /\ Fault
    /\ Forget(a)
    /\ UNCHANGED <<rows, world, history, queue>>

RedisLoss ==
    /\ Fault
    /\ job' = "none" /\ runner' = None
    /\ UNCHANGED <<rows, world, history, pc, local>>

\* The job lock is not renewed: the worker is gone, or it is only slow.
Stall ==
    /\ job = "active"
    /\ MayStall \/ pc[runner] = "idle"
    /\ job' \in Thrown /\ runner' = None
    /\ UNCHANGED <<rows, world, history, pc, local, faults>>

WindowPasses ==
    /\ ~expired /\ expired' = TRUE
    /\ UNCHANGED <<rows, surface, ineligible, history, queue, pc, local, faults>>

BecomesIneligible ==
    /\ ~ineligible /\ ineligible' = TRUE
    /\ UNCHANGED <<rows, surface, expired, history, queue, pc, local, faults>>

ResultStep(a) ==
    \/ Close(a) \/ \E t \in Tokens : Record(a, t)
    \/ Swap(a) \/ Aggregate(a) \/ Look(a) \/ Conclude(a)
WorkerStep(w) ==
    \/ Run(w) \/ Fence(w) \/ Ensure(w) \/ List(w) \/ Relist(w) \/ Send(w)
    \/ ResultStep(w)
ReconcilerStep == Reconcile \/ Requeue \/ ResultStep(Reconciler)

Next ==
    \/ \E w \in Workers : WorkerStep(w)
    \/ ReconcilerStep
    \/ Regenerate \/ Enqueue
    \/ \E a \in Actors : CallFails(a) \/ Crash(a)
    \/ RedisLoss \/ Stall \/ WindowPasses \/ BecomesIneligible

\* Time passes and the scheduler's repeat job keeps the reconciler running;
\* nothing is asked of the workers.
Fairness == WF_vars(ReconcilerStep) /\ WF_vars(WindowPasses)

Spec == Init /\ [][Next]_vars
FairSpec == Spec /\ Fairness

-----------------------------------------------------------------------------
TypeOK ==
    /\ delivery \in {"PENDING", "REMAINS"} \cup Final
    /\ attempt \in [Tokens -> {"none", "PENDING"} \cup Final \cup RetryCodes]
    /\ surface \in BOOLEAN /\ expired \in BOOLEAN /\ ineligible \in BOOLEAN
    /\ accepted \in SUBSET Tokens /\ overlapped \in BOOLEAN
    /\ job \in {"none", "waiting", "active"}
    /\ runner \in Workers \cup {None}
    /\ pc \in [Actors -> Steps]
    /\ closing \in SUBSET Actors
    /\ batch \in [Actors -> SUBSET Tokens]
    /\ todo \in [Actors -> Results]
    /\ item \in [Actors -> Tokens \cup {None}]
    /\ seenAttempt \in [Actors -> {"none", "PENDING"} \cup RetryCodes]
    /\ seenDelivery \in [Actors -> {"PENDING", "REMAINS"}]
    /\ verdict \in [Actors -> {"PENDING", "REMAINS"} \cup Final]
    /\ faults \in 0..MaxFaults

\* The outcome of an attempt or of a delivery is never revised, whoever else
\* holds results about it: not by a second worker whose answer comes late, not
\* by a reconciler that closes what has been sent meanwhile.  The exception is
\* a failed delivery, which counts as skipped once push has been turned off.
OutcomesAreFinal ==
    [][/\ delivery \in Final => \/ delivery' = delivery
                                \/ delivery = "FAILED" /\ delivery' = "SKIPPED"
       /\ \A t \in Tokens : attempt[t] \in Final => attempt'[t] = attempt[t]]_vars

\* A delivery reported as sent has an attempt that was sent, and the provider
\* accepted the push of every attempt that is recorded as sent.
SentMeansAccepted ==
    /\ delivery = "SENT" => With({"SENT"}) # {}
    /\ With({"SENT"}) \subseteq accepted

\* Unless two workers were let loose on the delivery at the same time, no push
\* goes to a token whose push is recorded as sent: not after a crash between
\* provider and database, a retry, a lost queue or a reconciler's interference.
KnownSentIsNotResent ==
    ~overlapped =>
        \A w \in Workers : pc[w] = "send" => batch[w] \cap With({"SENT"}) = {}

\* The delivery is decided in the end, even if no worker ever runs.
DeliveryIsDecided == <>(delivery \in Final)

=============================================================================
