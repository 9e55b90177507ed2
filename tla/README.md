# Moazez backend: specification of its concurrent core

The backend is a multi-tenant NestJS application over PostgreSQL. Most of its
request handlers run one transaction and are easy. What is hard is the work that
outlives a request: jobs in a Redis that may forget everything, run by workers that
stall, crash or are run twice, repaired by reconcilers that rebuild the queue from
database rows (`adr/ADR-0009-critical-job-recovery-and-reconciliation.md`); objects
in a store that must agree with rows; handlers that read in one query and write in
a later one; and processes that shut down while sockets and Redis come and go. This
directory specifies that work in TLA+, model-checks it with TLC and proves its main
properties with TLAPS.

## 1. Inventory

| component | state it keeps | operations | hard behaviour |
|---|---|---|---|
| persisted-truth queue (`infrastructure/queue/bullmq.service.ts`) | one job per deterministic id, a replacement lock per id | `addJob`, `ensureJobFromPersistedTruth` | check, remove and add are separate Redis commands; the lock may expire under its holder; lost answers |
| repeat schedules (same file) | desired and active registrations, the shared restoration flight, connection status | `registerRepeatJob`, restoration, ready/close events, shutdown | events between awaits; a Redis that comes back empty |
| import validation (`modules/files/imports`) | `import_jobs` row, uploaded object, job | create, claim, validate, reconcile | unconditional updates next to one conditional claim; leases |
| school email delivery (`modules/settings/email/delivery`) | recipient and batch rows, jobs, temporary passwords | create, process, cancel, reconcile | a provider that must not be called twice and may not answer; batch status recomputed concurrently |
| push delivery (`modules/communication`) | delivery row, one attempt per device, job | process with two fences, record, aggregate, terminalize, reconcile, regenerate | no claim; compare and set on two rows; late results |
| learning media uploads (`modules/files/uploads`, `modules/academics/curriculum`) | session row under CHECK constraints, staging and final object, references, one cleanup job per target | create, sign, complete, verify, cancel, attach, discover, clean up | rows and objects out of step; URLs that outlive sessions; unanswered commits; workers that lost their job |
| dismissal requests (`modules/dismissal`, `modules/parent-app/smart-pickup`) | request status, its events, two unique indexes | create, status, arrival, deliver, cancel, expire | read and write are separate; retried creations; expiry against everybody |
| realtime and graceful shutdown (`infrastructure/realtime`, `bootstrap`) | lifecycle state, leases, sockets, Redis adapter generation, presence sets | admit, connect, authenticate, register, refresh, replace the adapter, drain, close | awaits between check and use; waits that wait for each other; Redis outages |
| branding logo cleanup (`modules/settings/branding`) | cleanup rows | replace, delete | deletion of an object in use again |
| announcement notification generation (`modules/communication`) | notifications, deliveries | generate | idempotence under retries |
| student bulk registration (`modules/students`) | batches, items | start, execute, resume | two executors |
| rewards and XP (`modules/reinforcement`) | stock, ledger | request, approve, fulfil | concurrent approvals |
| sessions (`modules/iam/auth`) | sessions, tokens | login, refresh, revoke | revocation against refresh |
| academics, grades, homework, attendance, admissions, portals, dashboards, platform, configuration | rows | reads and single-transaction writes | little of their own |

The components meet in four places. Every queue is filled by a request through
`addJob` and repaired by a reconciler through `ensureJobFromPersistedTruth`; each
reconciler is itself a repeat job of the Maintenance Scheduler; and every worker
run is a BullMQ job that may be given to a second worker when its lock is not
renewed. So the queue module states what the three delivery modules assume of it
(a required row gets its job), and the schedule module states what they assume of
time (the reconciler runs again and again). Media sessions and lesson content meet
in one row: the claim of a cleanup and the attachment of a file lock it, and what
lesson content may rely on is `MediaLifecycle`; what a school may rely on when it
sends mail is `SendOnce`.

What makes each of them correct is, in short: the queue never loses accepted work;
schedules come back; a claim is exclusive and every import settles; the email
provider is called at most once and a succeeded batch was delivered; push outcomes
are final, true, and not repeated knowingly; a file in use is kept and an abandoned
one is deleted; a student has one active pickup request, a retried call finds its
own, and every request ends; a process closes only when it is quiet, and does close.
`PROJECT.json` lists the hazards, each
at its line, with the properties that would catch them.

## 2. Modules

| module | models | state and actions |
|---|---|---|
| `BullJobs` | BullMQ as the code uses it (external) | operators on one job slot |
| `PersistedTruthQueue` | `addJob`, `ensureJobFromPersistedTruth` | `job` and `lock` in Redis, `pc` per caller; one action per Redis command, plus lost commands, lost answers, crashes, lock expiry, Redis loss and the worker's side of the job |
| `RepeatSchedules` | registration and restoration of repeat jobs | `desired`, `active`, `flight`, `conn` are the service's fields; an action is the code between two awaits |
| `ImportValidation` | create, process and reconcile of imports | the row (`FAILED` split by recovery classification), ages as saturating clocks, `pc` per worker, the reconciler's list as `plan` |
| `SendOnce` | what the email delivery promises the school (abstract) | `calls`, `accepted`, `applied`, `reported`; one attempt per recipient, a report only of what is done |
| `EmailDelivery` | processing, cancellation and reconciliation of one batch; implements `SendOnce` | recipient status (`FAILED` split by failure reason), batch status, provider effects as history |
| `PushDelivery` | processing and reconciliation of one delivery | attempts and delivery as compared by the updates, `pc` per actor |
| `MediaLifecycle` | what the media subsystem promises lesson content (abstract) | `phase`, `uses`; ready once, withdrawn only when unused |
| `MediaUploads` | one upload session end to end; implements `MediaLifecycle` | `row` with its CHECK constraints, `staging` and `final` object, `refs`, requests and workers in flight, `job` per target |
| `DismissalRequests` | creation, handling and expiry of pickup requests | `status`, `events` (the milestones on record), `call` per create call, `op` what an actor read and will write, `expirer` the rest of a run |
| `RealtimeLifecycle` | one API process: admission, sockets, adapter, presence, shutdown | `shutdown`, `socket`, `commands`, `adapter`, `recovery`, `stop`, `cleanup`, `local`, `store`, `redis` |
| `MCPushDelivery` | | symmetry set for TLC |
| `*_proofs` | | theorems and proofs |

One step is one database, Redis, storage or provider round trip, because other
processes run between two of them. Transactions and single SQL statements are one
step. Deliberate abstractions:

* a job slot in the delivery modules holds a live job or none: a finished job is as
  good as none to `ensureJobFromPersistedTruth` (that is what
  `PersistedTruthQueue` is about), and a delayed one is a waiting one. A thrown job
  is retried or has used up its attempts, as a free choice;
* email: `PENDING` recipients are folded into `QUEUED`; the seven counts of
  `refreshBatchStatus` are one step between the read of the batch and its write;
* push: the reads that open `recordAttemptResult` are one step. A delivery never
  returns to a state it has left, so the comparison in the update that follows
  notices whatever happened between those reads. The reconciler's list knows less
  about eligibility than the fences do, so it may requeue an ineligible delivery.
  Devices register and unregister freely: each run of a worker sees any subset;
* media: a repository method is one transaction (they lock the row `FOR UPDATE`)
  and commits only if the row's CHECK constraints hold, with SQL's NULL semantics; a
  refused update rolls back. The replacement protocol of the cleanup queue is the one
  `PersistedTruthQueue` studies, so discovery and enqueueing are one step here. What
  verification finds out about a file is one verdict. Sessions share nothing, so one
  session is the system. A PUT is assumed to take effect at once, before its URL
  expires: a store that compares the expiry only when an upload begins could let a
  slow one land after the staging object was deleted, and `StagingStaysDeleted` does
  not speak of such a store;
* dismissal: who may do what (settings, gates, assignments, geofence, pickup codes)
  is left out; a call those checks refuse simply stops. Of a request's events only
  the milestones on the way to a handover are kept. The notifications made with them
  are left out: a parent gets one only if the account is active at that moment, so
  the notices a parent has seen say little about the request. A request is named by
  the call that made it;
* realtime: the code between two awaits is one step; the presence store serialises
  its operations; the readiness check looks at the drain before it pings, so it may
  replace the adapter after the drain began. A connection may be refused, by a
  failing join or presence setting too, up to its registration;
* an error code, a failure reason and an outcome are one value; texts, metadata,
  timestamps other than ages, audit and logs are left out.

Failures are actions of their own, bounded by `MaxFaults` (`MaxTimeouts` for add
commands): a failed call may or may not have had its effect, a crash loses an
actor's locals, and a lost Redis loses jobs and locks. `MayStall` allows a *live*
worker to lose its job, as often as it likes.

## 3. Runs

| run | instance | shows |
|---|---|---|
| `queue` | 1 job, 3 callers, 2 faults (212k states) | `AcceptedWorkSurvives`, `LockOnlyFreedByOwner` and `OneReplacer` with callers that sleep past the lock, and `RequiredWorkIsDone` |
| `schedules` | 3 schedules, 3 faults, 2 timeouts (89k) | `ActiveIsReal`, `ClosedIsQuiet`, `RestoredUnlessTimedOut` |
| `imports` | 1 import, 2 workers, lease 2, window 3, 1 fault (303k) | `ClaimExcludes`, `EveryImportSettles` |
| `email` | 1 credential recipient, 2 workers, 1 fault (841k) | `NoSecondSend`, `SucceededMeansDelivered`, `EveryRecipientSettles` |
| `push_safety` | 1 device, 2 workers, live stalls, 1 fault (2.3M) | `OutcomesAreFinal`, `SentMeansAccepted`, `KnownSentIsNotResent` |
| `push_devices` | 2 devices, 1 worker, 1 fault (1.1M) | `DeliveryIsDecided` for devices whose pushes end differently; the invariants of `push_safety` are proved for any number of devices |
| `media` | 1 session, 1 creator, 1 completer, 2 workers, 1 reference, clock to 3, 2 faults (475k) | `StagingStaysDeleted`, `ReadyHasItsObject`, `ReferencedIsKept`, `EndedStaysEnded`, `ClosedIsCleaned`, and that the whole implements `MediaLifecycle` |
| `media_recovery` (violation) | clock to 2, 3 faults, no unanswered commits | contract lock:658 "no automatic object deletion occurs": a recovery worker that lost its job lock deletes the object of a session that was recovered, completed again and attached |
| `dismissal` | 2 create calls, 2 students, 1 key, 1 actor, a batch of 2, 1 request whose expiry fails each time, 1 fault (155k) | `OneActivePerStudent`, `AnswerIsTheCallersOwn`, `OneRequestPerKey`, `HandoverIsOnRecord`, `ExpiryEndsActiveOnly`, `EveryRequestEnds` |
| `dismissal_final` (violation) | 1 student, 2 actors | `docs/dismissal-fe-contract-v1.md:47` terminal statuses: a write decided from an earlier read takes one back |
| `realtime` | 2 sockets, 1 request, 2 outages, 3 adapters (633k) | `CloseIsQuiet`, `OneAdapterGeneration`, `ShutdownEnds`, `PresenceIsRestored` |
| `realtime_ghost` (violation) | 2 sockets, no outages | sprint-29c closeout:148 "The final socket disconnect emits offline": a client that leaves while it is authenticated is registered afterwards and stays present |

Why the bounds are enough: items (jobs, imports, recipients of different batches,
deliveries) share no state, so one is the general case. Several matter only where a
delivery, a batch of mails or an expiry run takes them together: `push_devices` has
two devices and `dismissal` two requests in an expiry run; the run `email` has one
recipient, because two take longer than a run may, and what it cannot show of a batch of several
(`SucceededMeansDelivered`, `NoSecondSend`) is proved for any number. Two workers and a
reconciler give every overlap of an owner, an intruder and an observer; the queue
takes three callers because a lock can pass from a sleeper to a successor while a
third one looks. Lease 2 and window 3 put a tick before, on and after each
boundary. The media clock has a tick for each boundary a session can meet after its
URL (lifetime 1), its expiry (2) and the retention of a ready file (1); no fault
strikes so late that the clock could not show its cleanup. Two faults reach the recovery of a failed
finalization with a second failure inside it. A dismissal batch of two, one of which
fails each time, tells a run that skips a failed candidate from one that stops
there; a list longer than a batch is not among the instances. One actor races the calls and the expiry job, and the
proofs cover any number of them. One fault on top of unlimited stalls reaches every error path in every
interleaving; the proofs remove the bound for the safety properties. Deadlock is
checked except where work ends: a service that has shut down, a batch that has
settled, a session or a request that has ended, a clock at its bound.

Every property of a passing run comes with a mutant in `PROJECT.json`: a version of
one definition with a plausible bug (a dropped NX, a plain DEL, a lease not
compared, an unconditional update) under which TLC finds the property violated.

### Fairness

* Workers, requests and calls that have begun take their next step (weak fairness):
  the event loop and command timeouts guarantee it. A crash is an explicit step.
* The reconciler runs again and again, clocks advance, leases and windows pass,
  locks expire. The first rests on the repeat schedules, which is why
  `RestoredUnlessTimedOut` matters: after an add that timed out it would fail.
* Queue: `Ensure` is strongly fair per job (the reconciler visits every row in each
  round) and work is not poison, `SF(RunSucceeds)`: a job that runs infinitely often
  succeeds once. Without it no queue finishes anything.
* Email: a job that always throws uses up its three attempts (`LastAttemptEnds`),
  and stalls are those of dead workers: a live worker that loses its job lock for
  ever would keep a recipient open for ever.
* Push: nothing at all is asked of the workers, the reconciler alone decides.
* Media: time passes, discovery comes again (its repeat schedule) and a worker slot
  takes waiting jobs and carries on with the one it has. Nothing is asked of
  clients or requests.
* Dismissal: time passes, the expiry job runs each minute and takes its candidates
  one after the other, and a handler that has read goes on to its write. Nothing is
  asked of the requests in `Stuck`: their expiry never succeeds, and
  `EveryRequestEnds` is about the others, as long as `Stuck` leaves room in a batch.
* Realtime: a handler's next await returns, the refresh timer fires, the shutdown
  takes its next step and Redis comes back. The shutdown timeout (`ExitNonZero`) is
  not relied upon: the drain ends by itself.

## 4. Proofs

All theorems hold for every value of the constants under the named assumptions of
the modules: distinct model values, a Boolean `MayStall`, natural bounds and
`0 < Lease < Window`; for push, error codes distinct from outcomes.

| module | theorem | argument |
|---|---|---|
| `PersistedTruthQueue_proofs` | `TypeCorrect` | |
| | `WorkSurvives` | `AcceptedWorkSurvives` is inductive once the job in a replacer's hands is named in it |
| | `ReplacementIsExclusive` | `SectionOwnsLock`: who is in the section of a job owns its lock, unless a lock expired under a holder |
| | `LocksAreFreedByOwners` | `LockMoves`: a lock is taken when free, freed by the release of the token that is in it, or lost with Redis or by expiry |
| `RepeatSchedules_proofs` | `TypeCorrect` | needs that an adding flight has a schedule |
| | `ActiveSchedulesAreReal`, `ClosedServiceIsQuiet` | nothing is active without a connection, because Redis may be replaced unnoticed while there is none; the shutdown flag is up once the connection is closed |
| | `RestingMeansRestored`, `OneFlightPerRegistration` | `RestInv`: a flight that found the connection unusable was started by a registration, which fails with it, and registered calls are desired; so a flight that ends without a failure leaves nothing behind. It is the safety behind `RestoredUnlessTimedOut` |
| `ImportValidation_proofs` | `TypeCorrect` | |
| | `ClaimIsExclusive` | `ClaimIsVisible`: an unbroken claim shows in the row, with the age the holder's clock shows |
| | `OutcomeIsFinalForLaterReads` | `LeftAlone`: the import is settled and nobody is past the read that would notice; no step ends this or changes the status |
| `EmailDelivery_proofs` | `TypeCorrect` | |
| | `AtMostOneSend` | `OneOwner`: a claimable recipient has no owner and no attempt, an owner is unique and has not called the provider |
| | `SuccessIsDelivery` | `DeliveredInv`: what a refresh counted as succeeded, and will write, was delivered with its password in force, and deliveries are not undone |
| | `ImplementsSendOnce` | the refinement: `EffectMoves` lists the steps that call the provider, apply a password or write the batch; `OneOwner` makes the first call the only one, `DeliveredInv` makes a report true |
| | `RecordIsFinalForLaterReads` | `LeftAlone` as for imports; `SentIsRefreshing` says where a worker is after it wrote its result |
| `PushDelivery_proofs` | `TypeCorrect` | |
| | `OutcomesStay` | the rows are written in four ways only, and each compares with an open state (lemma `Writes`) |
| | `DecidedIsFrozen` | of these ways, those that write attempts ask for an open delivery |
| | `ReportsAreTrue` | `AcceptedInv`: a result held as sent was accepted, a verdict of sent has a sent attempt |
| | `NoResend` | `ResendInv`: without overlap one worker is at work, the reconciler holds no sent result, and what was selected stays unsent up to the dispatch |
| `MediaUploads_proofs` | `TypeCorrect` | lemma `RowMoves` lists every way in which a step writes the row; the other proofs are by cases on it |
| | `EndedSessionsStay` | each way of writing asks for an open, verifying or ready row, or keeps the status (`FinishedStatus`) |
| | `LifecycleIsImplemented` | the refinement: `PhaseMoves` and `FileMoves` map each way of writing to a step of `MediaLifecycle` or a stutter; needs `FinalHeld`, that a worker about to finish a final cleanup holds a claim nobody can take away |
| | `ReferencesAreKept` | `KeptInv` adds that an absent row has no file; a claim asks for no references (`PhaseMoves`), and `FinalHeld` keeps a late finish off a row that got references |
| | `DeletedStagingStays` | `StagingInv`: the row's latest URL bounds every URL handed out, eligibility is not before it, and a claim not before eligibility, so at deletion no URL is alive |
| | `ReadyObjectsExist` | `ObjectInv`, from three facts: a job runs on one worker (`JobsAreExclusive`), a session has one verifier and no recovery beside it (`VerifierIsAlone`), and a recovery that deletes finds the row in its pending reason (`RecoveryIsPending`, `ReasonInv`). All hold while no worker outlived its job and no commit went unanswered (`doubt`) |
| | `ReferencedObjectsAreRetained` | follows with `ReferencesAreKept`: outside `doubt`, what `media_recovery` refutes is true |
| `DismissalRequests_proofs` | `TypeCorrect`, `AtMostOneActive`, `KeysAreIdempotent` | every way to become active or to be inserted passes the index |
| | `AnswersAreOwn` | calls keep their student and key, requests never disappear |
| | `HandoversAreOnRecord` | `RecordInv`: the events of a request keep ahead of its status, and of the decisions handlers hold about it: each milestone is on record with those before it; a stale write repeats one and removes none |
| | `ExpirySparesEnded` | the candidate is read again under its lock |
| | `EndedIsFinalForLaterReads` | `Settled`: ended, and no handler holds a decision about it; a handler that reads an ended request stops. `MadeOnce` keeps a create call from making its request again |
| `RealtimeLifecycle_proofs` | `TypeCorrect` | |
| | `NoSocketIsLeftBehind` | `ConnectionsKept`: a connected socket was connected before on the same adapter, or was just admitted to the current one |
| | `ClosesQuietly` | `Stages`: what holds at each stage of the stop; work only shrinks once the drain has begun (no lease is given out any more) |
| | `GhostsComeFromLateRegistrations` | `Owned`: the presence service owns only sockets whose registration is over, and those were identified, so that their disconnect starts a cleanup; `GhostMoves` finds one step that still makes a ghost |

Every safety invariant and action property that a passing run checks is stated by
one of these theorems. Theorems that no run checks say how far a property or a
counterexample reaches: the three "later reads" theorems, the "retained" and the "late registrations"
theorem show that what the runs `media_recovery`, `dismissal_final` and
`realtime_ghost` find, and the overwritten outcomes of section 5, need the named
earlier read, lost lock or late registration and nothing else does it. Each was
checked with TLC on the instance of its component's run before it was proved; the
refinement of `SendOnce` also with two recipients.

Only model-checked: everything about liveness and fairness, which is outside what
TLAPS proves here, and the three violations, which are counterexamples. Two facts
one might expect were refuted by TLC and are not claimed: a decided push delivery
may keep open attempts, and a failed or skipped one may have a sent attempt.

## 5. What is not modelled

Of the queue service: readiness probes, worker construction, log deduplication and
stream settlement at shutdown. Of email: targeting, templates and read endpoints;
the creating requests are the initial state. Of push: the generation of
notifications, except that it may run again and skip or enqueue a delivery. Of
dismissal: settings, gates, assignments, pickup codes and tokens, and escalation,
which appends an event and leaves the status alone, audit records and notifications.
Of realtime: typing, rooms and published events, the presence of other processes, the
management server, and the queue workers' part of the drain (it runs beside the
wait for admitted work; `RepeatSchedules` has the queue service's own
shutdown). The other
components of section 1 are not modelled yet (planned below) or not at all where
they only read or write in one transaction: academics, grades, homework, attendance
and the portals are large, but they are queries, presenters and single transactions,
and the deployment and CI scripts are outside the running system. This is why the
mapped share of the repository's lines is small.

Hazards without a property are marked with a note in `PROJECT.json`. The models
reach them, but the code does not avoid them, or nothing the models observe depends
on it: a restoration that fails on a live connection is not repeated; a commit of
`finalize` that goes unanswered leaves a ready file without its object; a session
stays `VERIFYING` after a crash (the repository has an incident procedure); and the
re-check after authentication only closes one of the two ways to register a socket
that has gone. Three more have a property that covers part of them, and the note
says which: an import validated but recorded as failed settles all the same, an
overtaken count never reports a false success but may leave a batch `PROCESSING`,
and overlapping workers may dispatch a push twice but record it truthfully. A refresh
that overwrites a cancelled batch and a claim decided by a classification read
earlier are reached as well and contradict no promise of the repository. Outside the
models are two escalations that both write their event, a pickup code lost with its
answer, and candidates whose expiry always fails and which fill a whole batch, so
that younger ones are never listed.

Four observations about ADR-0009 follow from the models without a run of their own:

* line 40, "Waiting, active, delayed, and prioritized jobs are preserved": the state
  check and the removal are two commands and creation takes no lock, so a job
  created in between can be removed (it is put back, `AcceptedWorkSurvives`);
* line 46, "serially restores missing definitions": an add that times out on a live
  connection ends the restoration, and nothing repeats it (the exception in
  `RestoredUnlessTimedOut`);
* line 79, "automatic retry and reconciliation are prohibited": a stalled worker's
  late failure makes a quarantined recipient retryable (`NoSecondSend` holds);
* line 86, "already-known successful effects remain preserved": the reconciler's
  unconditional update overwrites an import that completed after it was listed.

## 6. Plan

Done: queue, schedules, imports, email, push, media with its abstract lifecycle,
dismissal, realtime with shutdown, each with its theorems; every safety property of
the runs proved; email with its abstract promise.

1. `LogoCleanup`: deletion of replaced logos; nothing in use is deleted.
2. `NotificationGeneration`, composed with `PushDelivery`: one notification and one
   delivery per recipient under retries.
3. `BulkRegistration`, `RewardRedemption`, `Sessions` as far as they have state.
4. An abstract specification of push delivery in the manner of `SendOnce`: decided
   once, sent only if accepted, with resends only where workers overlap.

## 7. Running

    tlc -workers 2 -config PersistedTruthQueue.cfg PersistedTruthQueue
    tlc -workers 2 -config MediaUploads.cfg MediaUploads
    tlc -workers 2 -config PushDelivery.cfg MCPushDelivery
    tlapm PushDelivery_proofs.tla

`PROJECT.json` names the module and the configuration of every run.
