----------------------------- MODULE MediaUploads -----------------------------
(***************************************************************************)
(* One learning-media upload session: its database row, its staging and     *)
(* final objects, the lesson-content references to its file, the requests   *)
(* that create, complete and cancel it and the cleanup workers that delete  *)
(* its objects.  Sessions share nothing, so one session is the system.      *)
(*                                                                         *)
(* A row transaction is atomic (every repository method locks the row FOR   *)
(* UPDATE); it commits only if the CHECK constraints of the table hold.     *)
(* Calls to the object store, and the gaps between transactions, interleave.*)
(***************************************************************************)
EXTENDS Integers, BullJobs

CONSTANTS
  Creators,     \* concurrent POST /uploads requests for the same client request id
  Completers,   \* concurrent completion (or legacy verification) requests
  Workers,      \* cleanup worker slots
  SessionTtl, UrlTtl, Retention, StaleClaim,  \* durations, in clock ticks
  MayMiscommit, \* a transaction may commit although its caller sees an error
  MayStall,     \* a worker may outlive the lock of its job
  MaxClock, MaxFaults, MaxRefs                \* bounds of the model

ASSUME DurationsAssumption ==
  /\ SessionTtl \in Nat \ {0} /\ UrlTtl \in Nat \ {0}
  /\ Retention \in Nat \ {0} /\ StaleClaim \in Nat \ {0}

ASSUME BoundsAssumption ==
  /\ MaxClock \in Nat /\ MaxFaults \in Nat /\ MaxRefs \in Nat
  /\ MayMiscommit \in BOOLEAN /\ MayStall \in BOOLEAN

VARIABLES
  clock,
  row,       \* the file_upload_sessions row and the deletedAt of its file
  staging,   \* the staging object
  final,     \* whether the final object exists
  refs,      \* live lesson-content items that reference the file
  urlExpiry, \* when the last upload URL handed to a client expires
  creator, completer, worker,  \* the requests and workers in flight
  job,       \* the cleanup job of each target
  faults,    \* how many faults have happened
  doubt      \* a worker outlived its job lock, or a commit went unanswered

rowVars == <<row, refs>>
objects == <<staging, final>>
requests == <<creator, completer>>
cleanup == <<worker, job>>
history == <<faults, doubt>>
vars == <<clock, row, staging, final, refs, urlExpiry, creator, completer,
          worker, job, faults, doubt>>

-----------------------------------------------------------------------------
\* An unset timestamp.  It is below every time, which makes Later maximumDate.
None == -1
Time == Nat \cup {None}

Later(a, b) == IF a >= b THEN a ELSE b

Open == {"CREATED", "UPLOADING"}
Closed == {"FAILED", "CANCELLED", "EXPIRED"}
Statuses == Open \cup Closed
              \cup {"ABSENT", "VERIFYING", "READY", "PURGED", "LEGACY"}

Reasons == {"none", "signing_failed", "finalization_cleanup_pending", "rejected"}
Targets == {"staging", "final", "finalization-recovery"}

Row == [status : Statuses, staged : BOOLEAN, reason : Reasons,
        file : {"none", "live", "deleted"}, expiresAt : Time, latestUrl : Time,
        stagingEligible : Time, stagingClaimed : Time, stagingDeleted : Time,
        finalEligible : Time, finalClaimed : Time, finalDeleted : Time]

NoStagingCleanup(r) == /\ r.stagingEligible = None
                       /\ r.stagingClaimed = None
                       /\ r.stagingDeleted = None

NoFinalCleanup(r) == /\ r.finalEligible = None
                     /\ r.finalClaimed = None
                     /\ r.finalDeleted = None

\* Claim and deletion evidence come in order, and not before eligibility.
EvidenceCheck(r) ==
  /\ r.stagingClaimed # None =>
       r.stagingEligible # None /\ r.stagingClaimed >= r.stagingEligible
  /\ r.stagingDeleted # None =>
       r.stagingClaimed # None /\ r.stagingDeleted >= r.stagingClaimed
  /\ r.finalClaimed # None =>
       r.finalEligible # None /\ r.finalClaimed >= r.finalEligible
  /\ r.finalDeleted # None =>
       r.finalClaimed # None /\ r.finalDeleted >= r.finalClaimed
  /\ r.stagingEligible # None =>
       /\ r.status \in Closed \cup {"READY", "PURGED"}
       /\ r.stagingEligible >= r.latestUrl

OpenCheck(r) ==
  r.status \in Open =>
    /\ r.staged /\ r.file = "none" /\ r.reason = "none"
    /\ (r.status = "UPLOADING") <=> (r.latestUrl # None)
    /\ NoStagingCleanup(r) /\ NoFinalCleanup(r)

VerifyingCheck(r) ==
  r.status = "VERIFYING" =>
    /\ r.staged <=> (r.file = "none")
    /\ r.staged => r.latestUrl # None
    /\ NoStagingCleanup(r) /\ r.finalDeleted = None
    /\ \/ r.reason = "none" /\ r.finalEligible = None /\ r.finalClaimed = None
       \/ /\ r.reason = "finalization_cleanup_pending"
          /\ r.staged /\ r.finalEligible # None

ReadyCheck(r) ==
  r.status = "READY" =>
    /\ r.file # "none" /\ r.reason = "none" /\ r.finalDeleted = None
    /\ IF r.staged THEN r.stagingEligible # None /\ r.latestUrl # None
                   ELSE NoStagingCleanup(r)

ClosedCheck(r) ==
  r.status \in Closed =>
    /\ NoFinalCleanup(r)
    /\ (r.status = "FAILED") <=> (r.reason # "none")
    /\ IF r.staged THEN r.file = "none" /\ r.stagingEligible # None
                   ELSE /\ r.status = "FAILED" /\ r.file # "none"
                        /\ NoStagingCleanup(r)

PurgedCheck(r) ==
  r.status = "PURGED" =>
    /\ r.file # "none" /\ r.reason = "none"
    /\ r.finalClaimed # None /\ r.finalDeleted # None
    /\ IF r.staged THEN r.stagingDeleted # None ELSE NoStagingCleanup(r)

LegacyCheck(r) ==
  r.status = "LEGACY" =>
    /\ ~r.staged /\ r.file # "none" /\ r.reason = "none"
    /\ r.latestUrl = None /\ NoStagingCleanup(r) /\ NoFinalCleanup(r)

\* The CHECK constraints: an update that would break one fails, and rolls back.
\* A comparison with NULL is not false, so the equation of final eligibility and
\* completion time does not ask for either.
RowChecks(r) ==
  /\ EvidenceCheck(r) /\ OpenCheck(r) /\ VerifyingCheck(r) /\ ReadyCheck(r)
  /\ ClosedCheck(r) /\ PurgedCheck(r) /\ LegacyCheck(r)

-----------------------------------------------------------------------------
AbsentRow ==
  [status |-> "ABSENT", staged |-> TRUE, reason |-> "none", file |-> "none",
   expiresAt |-> None, latestUrl |-> None,
   stagingEligible |-> None, stagingClaimed |-> None, stagingDeleted |-> None,
   finalEligible |-> None, finalClaimed |-> None, finalDeleted |-> None]

\* Rows the migration writes for files that content referenced before sessions.
LegacyRow == [AbsentRow EXCEPT !.status = "LEGACY", !.staged = FALSE,
                               !.file = "live", !.expiresAt = 0]

IdleCreator == [at |-> "idle", url |-> None]
IdleCompleter == [at |-> "idle", latest |-> None]
IdleWorker == [at |-> "idle", target |-> "staging", now |-> 0, owns |-> FALSE]

TypeOK ==
  /\ clock \in Nat /\ row \in Row /\ refs \in Nat /\ urlExpiry \in Time
  /\ staging \in {"none", "good", "bad"} /\ final \in BOOLEAN
  /\ creator \in [Creators -> [at : {"idle", "sign", "resign", "persist",
                                     "signingFailed"}, url : Time]]
  /\ completer \in [Completers -> [at : {"idle", "verify", "finalize",
                       "markFailed", "deleteFinal", "release", "markPending"},
                                   latest : Time]]
  /\ worker \in [Workers -> [at : {"idle", "claim", "delete", "finish"},
                             target : Targets, now : Nat, owns : BOOLEAN]]
  /\ job \in [Targets -> {"none", "waiting", "active", "completed", "failed"}]
  /\ faults \in Nat /\ doubt \in BOOLEAN

Init ==
  /\ clock = 0 /\ urlExpiry = None /\ staging = "none"
  /\ \/ row = AbsentRow /\ final = FALSE /\ refs = 0
     \/ row = LegacyRow /\ final \in BOOLEAN /\ refs \in 0..MaxRefs
  /\ creator = [c \in Creators |-> IdleCreator]
  /\ completer = [k \in Completers |-> IdleCompleter]
  /\ worker = [w \in Workers |-> IdleWorker]
  /\ job = [t \in Targets |-> "none"]
  /\ faults = 0 /\ doubt = FALSE

\* The caller of a step that may fail sees an error: one fault of the budget.
\* None strikes so late that the clock could not show its cleanup.
Fault == /\ faults < MaxFaults /\ clock + StaleClaim < MaxClock
         /\ faults' = faults + 1

\* A transaction that writes r commits and answers, or commits unanswered.
Commits(r) == RowChecks(r) /\ row' = r /\ UNCHANGED history

Miscommits(r) == /\ MayMiscommit /\ Fault /\ doubt' = TRUE
                 /\ RowChecks(r) /\ row' = r

\* It rolls back: a CHECK refuses r, or the database does not serve it.
RollsBack(r) == /\ UNCHANGED <<row, doubt>>
                /\ \/ ~RowChecks(r) /\ UNCHANGED faults
                   \/ Fault

Tick == /\ clock < MaxClock
        /\ clock' = clock + 1
        /\ UNCHANGED <<row, staging, final, refs, urlExpiry, creator, completer,
                       worker, job, faults, doubt>>

-----------------------------------------------------------------------------
(* Creating an upload: intent, signature, capability. *)

Creator(c, at, url) == creator' = [creator EXCEPT ![c] = [at |-> at, url |-> url]]

\* createOrFindIntent inserts the row.
CreateIntent(c) ==
  /\ creator[c].at = "idle" /\ row.status = "ABSENT"
  /\ row' = [AbsentRow EXCEPT !.status = "CREATED",
                              !.expiresAt = clock + SessionTtl]
  /\ Creator(c, "sign", None)
  /\ UNCHANGED <<clock, objects, refs, urlExpiry, completer, cleanup, history>>

\* A replay of the request finds it (also after losing the insert race, P2002).
\* A row in any other status, or past its expiry, is answered without a write.
FindIntent(c) ==
  /\ creator[c].at = "idle"
  /\ row.status \in Open /\ row.expiresAt > clock
  /\ Creator(c, IF row.status = "CREATED" THEN "sign" ELSE "resign", None)
  /\ UNCHANGED <<clock, rowVars, objects, urlExpiry, completer, cleanup, history>>

SignUrl(c) ==
  /\ creator[c].at \in {"sign", "resign"} /\ clock + UrlTtl <= MaxClock
  /\ Creator(c, "persist", clock + UrlTtl)
  /\ UNCHANGED <<clock, rowVars, objects, urlExpiry, completer, cleanup, history>>

SignFails(c) ==
  /\ creator[c].at \in {"sign", "resign"} /\ Fault
  /\ Creator(c, IF creator[c].at = "sign" THEN "signingFailed" ELSE "idle", None)
  /\ UNCHANGED <<clock, rowVars, objects, urlExpiry, completer, cleanup, doubt>>

\* Mutant: the failure is recorded on a session that has moved on.
SigningFailedAnyway ==
  [row EXCEPT !.status = "FAILED", !.reason = "signing_failed",
              !.stagingEligible = clock]

SigningFailed ==
  IF row.status = "CREATED"
  THEN [row EXCEPT !.status = "FAILED", !.reason = "signing_failed",
                   !.stagingEligible = clock]
  ELSE row

MarkSigningFailed(c) ==
  /\ creator[c].at = "signingFailed"
  /\ Commits(SigningFailed) \/ Miscommits(SigningFailed) \/ RollsBack(SigningFailed)
  /\ Creator(c, "idle", None)
  /\ UNCHANGED <<clock, objects, refs, urlExpiry, completer, cleanup>>

\* persistUploadUrlCapability: the row remembers the latest expiry before any
\* client can hold the URL.
WithCapability(url) ==
  LET latest == Later(url, row.latestUrl)
      expired == row.expiresAt <= clock
  IN CASE row.status \in Open /\ expired ->
            [row EXCEPT !.status = "EXPIRED", !.latestUrl = latest,
                        !.stagingEligible = Later(clock, latest)]
       [] row.status \in Open /\ ~expired ->
            [row EXCEPT !.status = "UPLOADING", !.latestUrl = latest]
       [] row.status = "FAILED" /\ row.reason = "signing_failed" /\ ~expired ->
            [row EXCEPT !.latestUrl = latest,
                        !.stagingEligible = Later(row.stagingEligible, latest)]
       [] OTHER -> row

\* Mutant: the URL is handed out whatever has become of the session.
PersistUrlAnyway(c) ==
  LET url == creator[c].url
      new == WithCapability(url)
  IN /\ creator[c].at = "persist"
     /\ Creator(c, "idle", None)
     /\ \/ Commits(new) /\ urlExpiry' = Later(url, urlExpiry)
        \/ (Miscommits(new) \/ RollsBack(new)) /\ UNCHANGED urlExpiry
     /\ UNCHANGED <<clock, objects, refs, completer, cleanup>>

\* Only an answer that reads UPLOADING carries the URL to the client.
PersistUrl(c) ==
  LET url == creator[c].url
      new == WithCapability(url)
  IN /\ creator[c].at = "persist"
     /\ Creator(c, "idle", None)
     /\ \/ /\ Commits(new)
           /\ urlExpiry' = IF new.status = "UPLOADING" THEN Later(url, urlExpiry)
                                                       ELSE urlExpiry
        \/ (Miscommits(new) \/ RollsBack(new)) /\ UNCHANGED urlExpiry
     /\ UNCHANGED <<clock, objects, refs, completer, cleanup>>

\* The client may PUT while a URL it holds has not expired, whatever the row says.
\* Assumed of the store: an object is there at once or not at all.  A store that
\* compares the expiry only when an upload begins could let a slow one land later.
ClientPut ==
  /\ clock < urlExpiry
  /\ staging' \in {"good", "bad"}
  /\ UNCHANGED <<clock, rowVars, final, urlExpiry, requests, cleanup, history>>

Cancel ==
  /\ row.status \in Open
  /\ row' = [row EXCEPT !.status = "CANCELLED",
                        !.stagingEligible = Later(clock, row.latestUrl)]
  /\ UNCHANGED <<clock, refs, objects, urlExpiry, requests, cleanup, history>>

-----------------------------------------------------------------------------
(* Completing an upload, and verifying a legacy file. *)

Completer(k, at) == completer' = [completer EXCEPT ![k].at = at]

ExpiredRow == [row EXCEPT !.status = "EXPIRED",
                          !.stagingEligible = Later(clock, row.latestUrl)]

\* claimVerification: past the expiry it closes the session ...
CompleteExpired(k) ==
  /\ completer[k].at = "idle"
  /\ row.status \in Open /\ row.expiresAt <= clock
  /\ row' = ExpiredRow
  /\ UNCHANGED <<clock, refs, objects, urlExpiry, requests, cleanup, history>>

\* ... otherwise it takes an UPLOADING row, and remembers what it read.
ClaimVerification(k) ==
  /\ completer[k].at = "idle"
  /\ row.status = "UPLOADING" /\ row.expiresAt > clock
  /\ row' = [row EXCEPT !.status = "VERIFYING"]
  /\ completer' = [completer EXCEPT ![k] = [at |-> "verify",
                                            latest |-> row.latestUrl]]
  /\ UNCHANGED <<clock, refs, objects, urlExpiry, creator, cleanup, history>>

ClaimLegacyVerification(k) ==
  /\ completer[k].at = "idle"
  /\ row.status = "LEGACY" /\ row.file = "live"
  /\ row' = [row EXCEPT !.status = "VERIFYING"]
  /\ completer' = [completer EXCEPT ![k] = [at |-> "verify", latest |-> None]]
  /\ UNCHANGED <<clock, refs, objects, urlExpiry, creator, cleanup, history>>

\* The object under verification: the staged one, or the legacy final one.
SourceIsGood == IF row.staged THEN staging = "good" ELSE final

\* verifyAndStoreFinal (verifyExistingFinal stores nothing).
VerifySucceeds(k) ==
  /\ completer[k].at = "verify" /\ SourceIsGood
  /\ final' = TRUE
  /\ Completer(k, "finalize")
  /\ UNCHANGED <<clock, rowVars, staging, urlExpiry, creator, cleanup, history>>

\* A MediaVerificationError: no object, a wrong size, unacceptable content.
VerifyRejects(k) ==
  /\ completer[k].at = "verify"
  /\ row.staged => staging # "good"
  /\ Completer(k, "markFailed")
  /\ UNCHANGED <<clock, rowVars, objects, urlExpiry, creator, cleanup, history>>

\* Where a failed step sends the request: only a staged upload has a final
\* object of its own making to delete.
AfterFailure == IF row.staged THEN "deleteFinal" ELSE "release"

\* An infrastructure error, perhaps after saveObject stored the final object.
VerifyBreaks(k) ==
  /\ completer[k].at = "verify" /\ Fault
  /\ \/ UNCHANGED final
     \/ row.staged /\ staging = "good" /\ final' = TRUE
  /\ Completer(k, AfterFailure)
  /\ UNCHANGED <<clock, rowVars, staging, urlExpiry, creator, cleanup, doubt>>

ReadyRow(k) ==
  [row EXCEPT !.status = "READY", !.reason = "none", !.file = "live",
              !.stagingEligible = completer[k].latest,
              !.finalEligible = clock + Retention,
              !.finalClaimed = None, !.finalDeleted = None]

\* The state conflict and the missing legacy file are exceptions of finalize.
Finalizable == /\ row.status = "VERIFYING"
               /\ row.file # "deleted"

Finalize(k) ==
  /\ completer[k].at = "finalize"
  /\ \/ Finalizable /\ Commits(ReadyRow(k)) /\ Completer(k, "idle")
     \/ Finalizable /\ Miscommits(ReadyRow(k)) /\ Completer(k, AfterFailure)
     \/ RollsBack(ReadyRow(k)) /\ Completer(k, AfterFailure)
     \/ /\ ~Finalizable
        /\ UNCHANGED <<row, history>> /\ Completer(k, AfterFailure)
  /\ UNCHANGED <<clock, refs, objects, urlExpiry, creator, cleanup>>

FailedRow ==
  IF row.status = "VERIFYING"
  THEN [row EXCEPT !.status = "FAILED", !.reason = "rejected",
                   !.stagingEligible = row.latestUrl]
  ELSE row

MarkFailed(k) ==
  /\ completer[k].at = "markFailed"
  /\ \/ Commits(FailedRow) /\ Completer(k, "idle")
     \/ (Miscommits(FailedRow) \/ RollsBack(FailedRow)) /\ Completer(k, AfterFailure)
  /\ UNCHANGED <<clock, refs, objects, urlExpiry, creator, cleanup>>

\* releaseAfterInfrastructureFailure: first the object, whatever became of the row.
DeleteFinal(k) ==
  /\ completer[k].at = "deleteFinal"
  /\ \/ final' = FALSE /\ Completer(k, "release") /\ UNCHANGED faults
     \/ final' \in {final, FALSE} /\ Completer(k, "markPending") /\ Fault
  /\ UNCHANGED <<clock, rowVars, staging, urlExpiry, creator, cleanup, doubt>>

ReleasedRow ==
  IF row.status = "VERIFYING"
  THEN [row EXCEPT !.status = IF row.staged THEN "UPLOADING" ELSE "LEGACY",
                   !.reason = "none"]
  ELSE row

\* The legacy path swallows a failed release; the staged one falls back.
ReleaseVerification(k) ==
  /\ completer[k].at = "release"
  /\ \/ Commits(ReleasedRow) /\ Completer(k, "idle")
     \/ /\ Miscommits(ReleasedRow) \/ RollsBack(ReleasedRow)
        /\ Completer(k, IF row.staged THEN "markPending" ELSE "idle")
  /\ UNCHANGED <<clock, refs, objects, urlExpiry, creator, cleanup>>

PendingRow ==
  IF row.status = "VERIFYING"
  THEN [row EXCEPT !.reason = "finalization_cleanup_pending",
                   !.finalEligible = clock]
  ELSE row

MarkFinalCleanupPending(k) ==
  /\ completer[k].at = "markPending"
  /\ Commits(PendingRow) \/ Miscommits(PendingRow) \/ RollsBack(PendingRow)
  /\ Completer(k, "idle")
  /\ UNCHANGED <<clock, refs, objects, urlExpiry, creator, cleanup>>

\* The process dies under a request; what it had committed stays.
RequestDies ==
  /\ Fault
  /\ \/ /\ \E c \in Creators : creator[c].at # "idle" /\ Creator(c, "idle", None)
        /\ UNCHANGED completer
     \/ /\ \E k \in Completers : completer[k].at # "idle" /\ Completer(k, "idle")
        /\ UNCHANGED creator
  /\ UNCHANGED <<clock, rowVars, objects, urlExpiry, cleanup, doubt>>

-----------------------------------------------------------------------------
(* Lesson content. *)

\* Mutant: a file of the time before sessions is taken without verification.
AttachUnverified ==
  /\ row.status \in {"READY", "LEGACY"} /\ row.finalClaimed = None /\ row.file = "live"
  /\ refs < MaxRefs
  /\ refs' = refs + 1
  /\ UNCHANGED <<clock, row, objects, urlExpiry, requests, cleanup, history>>

\* lockReadyLearningMediaFile and the insert of the item, in one transaction.
Attach ==
  /\ row.status = "READY" /\ row.finalClaimed = None /\ row.file = "live"
  /\ refs < MaxRefs
  /\ refs' = refs + 1
  /\ UNCHANGED <<clock, row, objects, urlExpiry, requests, cleanup, history>>

\* Mutant: the removal of an item that is already gone counts again.
DetachTwice ==
  /\ row.status = "READY"
  /\ refs' = refs - 1
  /\ UNCHANGED <<clock, row, objects, urlExpiry, requests, cleanup, history>>

Detach ==
  /\ refs > 0
  /\ refs' = refs - 1
  /\ UNCHANGED <<clock, row, objects, urlExpiry, requests, cleanup, history>>

-----------------------------------------------------------------------------
(* Cleanup: discovery, and one job per target. *)

Unclaimed(claimedAt) == claimedAt = None \/ claimedAt < clock - StaleClaim

Candidate(r, t) ==
  IF t = "staging"
  THEN /\ r.stagingEligible # None /\ r.stagingEligible <= clock
       /\ r.stagingDeleted = None /\ Unclaimed(r.stagingClaimed)
  ELSE /\ r.finalEligible # None /\ r.finalEligible <= clock
       /\ r.finalDeleted = None /\ Unclaimed(r.finalClaimed)
       /\ IF t = "final" THEN r.status = "READY"
          ELSE /\ r.status = "VERIFYING"
               /\ r.reason = "finalization_cleanup_pending"

\* Mutant: a finished job keeps its deterministic id.
EnqueuedOnce(s) == QueueAdd(s)

\* A live job is left alone; a finished one is replaced.
Enqueued(s) == IF s \in FINISHED_JOB_STATES THEN "waiting" ELSE QueueAdd(s)

\* discoverAndEnqueue: expireAbandonedSessions, then the candidates, by one clock.
DiscoverAndEnqueue ==
  LET r == IF row.status \in Open /\ row.expiresAt <= clock THEN ExpiredRow ELSE row
  IN /\ row' = r
     /\ job' = [t \in Targets |-> IF Candidate(r, t) THEN Enqueued(job[t])
                                                     ELSE job[t]]
     /\ <<row, job>>' # <<row, job>>
     /\ UNCHANGED <<clock, refs, objects, urlExpiry, requests, worker, history>>

\* What a worker's end does to its job: nothing once the job has changed hands.
JobBecomes(w, s) ==
  job' = IF worker[w].owns THEN [job EXCEPT ![worker[w].target] = s] ELSE job

StartJob(w, t) ==
  /\ worker[w].at = "idle" /\ job[t] = "waiting"
  /\ job' = [job EXCEPT ![t] = "active"]
  /\ worker' = [worker EXCEPT ![w] = [at |-> "claim", target |-> t,
                                      now |-> clock, owns |-> TRUE]]
  /\ UNCHANGED <<clock, rowVars, objects, urlExpiry, requests, history>>

\* Mutant: the claim does not look for lesson content that uses the file.
ClaimableWhileReferenced(t, now) ==
  IF t = "staging"
  THEN /\ row.staged /\ row.stagingEligible # None
       /\ row.stagingEligible <= now /\ row.stagingDeleted = None
  ELSE /\ row.finalEligible # None /\ row.finalEligible <= now
       /\ row.finalDeleted = None
       /\ IF t = "final"
          THEN /\ row.status = "READY"
               /\ row.staged => row.stagingDeleted # None
               /\ row.file = "live"
          ELSE /\ row.status = "VERIFYING"
               /\ row.reason = "finalization_cleanup_pending"

\* claimCleanup with allowExistingClaim: an earlier claim is no obstacle.
Claimable(t, now) ==
  IF t = "staging"
  THEN /\ row.staged /\ row.stagingEligible # None
       /\ row.stagingEligible <= now /\ row.stagingDeleted = None
  ELSE /\ row.finalEligible # None /\ row.finalEligible <= now
       /\ row.finalDeleted = None
       /\ IF t = "final"
          THEN /\ row.status = "READY"
               /\ row.staged => row.stagingDeleted # None
               /\ row.file = "live" /\ refs = 0
          ELSE /\ row.status = "VERIFYING"
               /\ row.reason = "finalization_cleanup_pending"

ClaimedRow(t, now) == IF t = "staging" THEN [row EXCEPT !.stagingClaimed = now]
                                       ELSE [row EXCEPT !.finalClaimed = now]

WorkerAt(w, at) == worker' = [worker EXCEPT ![w].at = at]

WorkerEnds(w) == worker' = [worker EXCEPT ![w] = IdleWorker]

\* The processor throws: the job is retried, or its attempts are used up.
AttemptFails(w) == WorkerEnds(w) /\ \E s \in {"waiting", "failed"} : JobBecomes(w, s)

ClaimCleanup(w) ==
  LET t == worker[w].target
      new == ClaimedRow(t, worker[w].now)
  IN /\ worker[w].at = "claim"
     /\ \/ /\ ~Claimable(t, worker[w].now)
           /\ WorkerEnds(w) /\ JobBecomes(w, "completed")
           /\ UNCHANGED <<row, history>>
        \/ /\ Claimable(t, worker[w].now)
           /\ \/ Commits(new) /\ WorkerAt(w, "delete") /\ UNCHANGED job
              \/ (Miscommits(new) \/ RollsBack(new)) /\ AttemptFails(w)
     /\ UNCHANGED <<clock, refs, objects, urlExpiry, requests>>

\* Mutant: every cleanup deletes the final object as well.
DeleteBothObjects(w) ==
  /\ worker[w].at = "delete"
  /\ staging' = "none" /\ final' = FALSE
  /\ WorkerAt(w, "finish")
  /\ UNCHANGED <<clock, rowVars, urlExpiry, requests, job, history>>

\* deleteObjectAndConfirmAbsent on the object the claim was about.
DeleteObject(w) ==
  /\ worker[w].at = "delete"
  /\ IF worker[w].target = "staging" THEN staging' = "none" /\ UNCHANGED final
                                     ELSE final' = FALSE /\ UNCHANGED staging
  /\ WorkerAt(w, "finish")
  /\ UNCHANGED <<clock, rowVars, urlExpiry, requests, job, history>>

\* The row finishCleanup writes: by the status it finds, not the one claimed.
FinishedRow(t, now) ==
  LET purged == [row EXCEPT !.status = "PURGED", !.file = "deleted"]
      recovered == [row EXCEPT !.status = "UPLOADING", !.reason = "none"]
      forgotten(r) == [r EXCEPT !.finalEligible = None, !.finalClaimed = None,
                                !.finalDeleted = None]
      pending == /\ row.status = "VERIFYING"
                 /\ row.reason = "finalization_cleanup_pending"
      ready == row.status = "READY" /\ row.file # "none"
  IN CASE t = "staging" -> [row EXCEPT !.stagingDeleted = now]
       [] t = "final" -> [(IF ready THEN purged ELSE row) EXCEPT !.finalDeleted = now]
       [] OTHER -> forgotten(IF ready THEN purged
                             ELSE IF pending THEN recovered ELSE row)

FinishCleanup(w) ==
  LET new == FinishedRow(worker[w].target, worker[w].now)
  IN /\ worker[w].at = "finish"
     /\ \/ Commits(new) /\ WorkerEnds(w) /\ JobBecomes(w, "completed")
        \/ (Miscommits(new) \/ RollsBack(new)) /\ AttemptFails(w)
     /\ UNCHANGED <<clock, refs, objects, urlExpiry, requests>>

\* The worker dies, or a call to the store throws, between two transactions.
WorkerFails(w) ==
  /\ worker[w].at # "idle" /\ Fault
  /\ AttemptFails(w)
  /\ UNCHANGED <<clock, rowVars, objects, urlExpiry, requests, doubt>>

\* The job's lock expires under a slow worker; the job is handed out again.
JobStalls(w) ==
  /\ MayStall /\ worker[w].at # "idle" /\ worker[w].owns /\ Fault
  /\ worker' = [worker EXCEPT ![w].owns = FALSE]
  /\ job' = [job EXCEPT ![worker[w].target] = "waiting"]
  /\ doubt' = TRUE
  /\ UNCHANGED <<clock, rowVars, objects, urlExpiry, requests>>

-----------------------------------------------------------------------------
CreateSteps(c) == \/ CreateIntent(c) \/ FindIntent(c) \/ SignUrl(c) \/ SignFails(c)
                  \/ MarkSigningFailed(c) \/ PersistUrl(c)

CompleteSteps(k) ==
  \/ CompleteExpired(k) \/ ClaimVerification(k) \/ ClaimLegacyVerification(k)
  \/ VerifySucceeds(k) \/ VerifyRejects(k) \/ VerifyBreaks(k) \/ Finalize(k)
  \/ MarkFailed(k) \/ DeleteFinal(k) \/ ReleaseVerification(k)
  \/ MarkFinalCleanupPending(k)

CleanupSteps(w) == \/ \E t \in Targets : StartJob(w, t)
                   \/ ClaimCleanup(w) \/ DeleteObject(w) \/ FinishCleanup(w)
                   \/ WorkerFails(w) \/ JobStalls(w)

Next ==
  \/ \E c \in Creators : CreateSteps(c)
  \/ \E k \in Completers : CompleteSteps(k)
  \/ \E w \in Workers : CleanupSteps(w)
  \/ Tick \/ ClientPut \/ Cancel \/ RequestDies \/ Attach \/ Detach
  \/ DiscoverAndEnqueue

Spec == Init /\ [][Next]_vars

\* Time passes, the repeat schedule keeps discovery coming, and a worker slot
\* takes waiting jobs and carries on with the one it holds.
CleanupProgress(w) == \/ \E t \in Targets : StartJob(w, t)
                      \/ ClaimCleanup(w) \/ DeleteObject(w) \/ FinishCleanup(w)

FairSpec == /\ Spec
            /\ WF_vars(Tick) /\ WF_vars(DiscoverAndEnqueue)
            /\ \A w \in Workers : WF_vars(CleanupProgress(w))

-----------------------------------------------------------------------------
\* Once the row records the staging object as deleted no upload can bring it
\* back: a URL handed out late by a concurrent create, or a PUT racing the
\* cleanup worker, would leave an object nothing ever deletes again.
StagingStaysDeleted == row.stagingDeleted # None => staging = "none"

\* The stored file of a READY session exists until a final cleanup claims it,
\* unless a worker outlived its job lock or a commit went unanswered: a request
\* that fails after verification deletes only what nobody can have been given.
ReadyHasItsObject ==
  row.status = "READY" /\ row.finalClaimed = None /\ ~doubt => final

\* Lesson content never references a file that is withdrawn or about to be:
\* claimCleanup and lockReadyLearningMediaFile exclude each other on the row.
ReferencedIsKept ==
  refs > 0 => row.file = "live" /\ ~(row.status = "READY" /\ row.finalClaimed # None)

\* A closed or purged session is never reopened by a late request or worker.
EndedStaysEnded ==
  [][row.status \in Closed \cup {"PURGED"} => row'.status = row.status]_vars

\* The staging object of a session that was rejected, cancelled or abandoned is
\* deleted in the end, whatever attempts, workers or jobs are lost on the way.
ClosedIsCleaned == row.status \in Closed /\ row.staged ~> row.stagingDeleted # None

\* What the retention rule of the upload contract says of a file that lesson
\* content uses: no automatic deletion removes its object.  It fails when a
\* recovery worker that lost its job lock deletes what a second completion stored.
ReferencedObjectRetained == row.status = "READY" /\ refs > 0 => final

-----------------------------------------------------------------------------
\* The medium as lesson content sees it: withdrawn from the claim on.
Phase == CASE row.status = "READY" /\ row.finalClaimed = None -> "ready"
           [] row.status = "PURGED" -> "withdrawn"
           [] row.status = "READY" /\ row.finalClaimed # None -> "withdrawn"
           [] row.status \in Closed -> "closed"
           [] OTHER -> "preparing"

Lifecycle == INSTANCE MediaLifecycle WITH phase <- Phase, uses <- refs

\* The sessions, objects and jobs implement the lifecycle promised to content.
ImplementsLifecycle == Lifecycle!Spec
=============================================================================
