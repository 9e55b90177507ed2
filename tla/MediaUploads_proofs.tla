-------------------------- MODULE MediaUploads_proofs --------------------------
(***************************************************************************)
(* For any number of requests, workers and faults and any durations: an      *)
(* upload that ended stays ended, a deleted staging object stays deleted, a  *)
(* ready file has its object, lesson content only references files that are  *)
(* kept, and the sessions implement MediaLifecycle.                          *)
(***************************************************************************)
EXTENDS MediaUploads, TLAPS

USE DEF rowVars, objects, requests, cleanup, history

\* maximumDate answers one of its arguments, and the later one.
LEMMA LaterIs ==
  ASSUME NEW a \in Time, NEW b \in Time
  PROVE  /\ Later(a, b) \in Time /\ Later(a, b) >= a /\ Later(a, b) >= b
         /\ (a \in Nat \/ b \in Nat) => Later(a, b) \in Nat
BY DEF Later, Time, None

LEMMA InitialStatus ==
  /\ AbsentRow.status = "ABSENT" /\ AbsentRow.file = "none"
  /\ LegacyRow.status = "LEGACY" /\ LegacyRow.file = "live"
  /\ \A r \in {AbsentRow, LegacyRow} :
       /\ r.latestUrl = None /\ r.stagingEligible = None /\ r.stagingDeleted = None
       /\ r.reason = "none"
BY DEF AbsentRow, LegacyRow

LEMMA InitialRows == AbsentRow \in Row /\ LegacyRow \in Row
<1> USE DEF Row, Statuses, Reasons
<1>1. None \in Time /\ 0 \in Time
  BY DEF Time, None
<1>2. AbsentRow \in Row
  BY <1>1 DEF AbsentRow
<1>3. LegacyRow \in Row
  BY <1>1, <1>2 DEF LegacyRow
<1> QED
  BY <1>2, <1>3

\* Every row a transaction computes is a row.
LEMMA RowTypes ==
  ASSUME TypeOK
  PROVE  /\ [AbsentRow EXCEPT !.status = "CREATED", !.expiresAt = clock + SessionTtl] \in Row
         /\ SigningFailed \in Row /\ ExpiredRow \in Row
         /\ [row EXCEPT !.status = "CANCELLED",
                        !.stagingEligible = Later(clock, row.latestUrl)] \in Row
         /\ [row EXCEPT !.status = "VERIFYING"] \in Row
         /\ FailedRow \in Row /\ ReleasedRow \in Row /\ PendingRow \in Row
<1> USE DEF TypeOK, Row, Statuses, Open, Closed, Reasons
<1>1. clock \in Time /\ clock + SessionTtl \in Time
  BY DurationsAssumption DEF Time
<1>2. Later(clock, row.latestUrl) \in Time
  BY <1>1, LaterIs
<1>3. [AbsentRow EXCEPT !.status = "CREATED", !.expiresAt = clock + SessionTtl] \in Row
  BY <1>1, InitialRows
<1>4. SigningFailed \in Row
  BY <1>1 DEF SigningFailed
<1>5. ExpiredRow \in Row
  BY <1>2 DEF ExpiredRow
<1>6. [row EXCEPT !.status = "CANCELLED",
                  !.stagingEligible = Later(clock, row.latestUrl)] \in Row
  BY <1>2
<1>7. [row EXCEPT !.status = "VERIFYING"] \in Row
  OBVIOUS
<1>8. FailedRow \in Row /\ ReleasedRow \in Row /\ PendingRow \in Row
  BY <1>1 DEF FailedRow, ReleasedRow, PendingRow
<1> QED
  BY <1>3, <1>4, <1>5, <1>6, <1>7, <1>8

LEMMA CapabilityTypes ==
  ASSUME TypeOK, NEW url \in Time
  PROVE  WithCapability(url) \in Row
<1> USE DEF TypeOK, Row, Statuses, Open, Closed, Reasons
<1>1. /\ clock \in Time /\ Later(url, row.latestUrl) \in Time
      /\ Later(clock, Later(url, row.latestUrl)) \in Time
      /\ Later(row.stagingEligible, Later(url, row.latestUrl)) \in Time
  BY LaterIs DEF Time
<1> QED
  BY <1>1 DEF WithCapability

LEMMA CompletedTypes ==
  ASSUME TypeOK, NEW k \in Completers
  PROVE  ReadyRow(k) \in Row
<1>1. clock + Retention \in Time /\ completer[k].latest \in Time /\ None \in Time
  BY DurationsAssumption DEF TypeOK, Time, None
<1> QED
  BY <1>1 DEF ReadyRow, TypeOK, Row, Statuses, Reasons

LEMMA CleanedTypes ==
  ASSUME TypeOK, NEW t \in Targets, NEW now \in Nat
  PROVE  ClaimedRow(t, now) \in Row /\ FinishedRow(t, now) \in Row
<1>1. now \in Time /\ None \in Time
  BY DEF Time, None
<1>2. ClaimedRow(t, now) \in Row
  BY <1>1 DEF ClaimedRow, TypeOK, Row
<1>3. FinishedRow(t, now) \in Row
  BY <1>1 DEF FinishedRow, TypeOK, Row, Statuses, Open, Reasons
<1> QED
  BY <1>2, <1>3

-----------------------------------------------------------------------------
\* A transaction that writes r and whose CHECKs hold.
Writes(r) == row' = r /\ RowChecks(r)

\* Every way in which a step may write the row.
RowMove ==
  \/ UNCHANGED row
  \/ /\ row.status = "ABSENT"
     /\ row' = [AbsentRow EXCEPT !.status = "CREATED", !.expiresAt = clock + SessionTtl]
  \/ /\ row.status \in Open
     /\ row' = [row EXCEPT !.status = "CANCELLED",
                           !.stagingEligible = Later(clock, row.latestUrl)]
  \/ row.status \in Open /\ row' = ExpiredRow
  \/ row.status \in {"UPLOADING", "LEGACY"} /\ row' = [row EXCEPT !.status = "VERIFYING"]
  \/ Writes(SigningFailed) \/ Writes(FailedRow) \/ Writes(ReleasedRow) \/ Writes(PendingRow)
  \/ \E c \in Creators : creator[c].at = "persist" /\ Writes(WithCapability(creator[c].url))
  \/ \E k \in Completers : /\ completer[k].at = "finalize"
                           /\ Finalizable /\ Writes(ReadyRow(k))
  \/ \E w \in Workers : /\ worker[w].at = "claim"
                        /\ Claimable(worker[w].target, worker[w].now)
                        /\ Writes(ClaimedRow(worker[w].target, worker[w].now))
  \/ \E w \in Workers : /\ worker[w].at = "finish"
                        /\ Writes(FinishedRow(worker[w].target, worker[w].now))

LEMMA RowMoves ==
  ASSUME [Next]_vars
  PROVE  RowMove
<1> USE DEF RowMove, Writes, Commits, Miscommits, RollsBack
<1>1. ASSUME NEW c \in Creators, CreateSteps(c) PROVE RowMove
  BY <1>1 DEF CreateSteps, CreateIntent, FindIntent, SignUrl, SignFails,
     MarkSigningFailed, PersistUrl
<1>2. ASSUME NEW k \in Completers, CompleteSteps(k) PROVE RowMove
  BY <1>2 DEF CompleteSteps, CompleteExpired, ClaimVerification,
     ClaimLegacyVerification, VerifySucceeds, VerifyRejects, VerifyBreaks, Finalize,
     MarkFailed, DeleteFinal, ReleaseVerification, MarkFinalCleanupPending
<1>3. ASSUME NEW w \in Workers, CleanupSteps(w) PROVE RowMove
  BY <1>3 DEF CleanupSteps, StartJob, ClaimCleanup, DeleteObject, FinishCleanup,
     WorkerFails, JobStalls
<1>4. CASE Tick \/ ClientPut \/ Cancel \/ RequestDies \/ Attach \/ Detach
  BY <1>4 DEF Tick, ClientPut, Cancel, RequestDies, Attach, Detach
<1>5. CASE DiscoverAndEnqueue
  BY <1>5 DEF DiscoverAndEnqueue
<1>6. CASE UNCHANGED vars
  BY <1>6 DEF vars
<1> QED
  BY <1>1, <1>2, <1>3, <1>4, <1>5, <1>6 DEF Next

\* The steps of the three kinds of actors, by what they do to their own state.
LEMMA HistoryMoves ==
  ASSUME [Next]_vars
  PROVE  /\ faults' = faults \/ faults' = faults + 1
         /\ doubt' = doubt \/ doubt' = TRUE
<1> USE DEF Fault, Commits, Miscommits, RollsBack
<1>1. ASSUME NEW c \in Creators, CreateSteps(c)
      PROVE  /\ faults' = faults \/ faults' = faults + 1
             /\ doubt' = doubt \/ doubt' = TRUE
  BY <1>1 DEF CreateSteps, CreateIntent, FindIntent, SignUrl, SignFails,
     MarkSigningFailed, PersistUrl
<1>2. ASSUME NEW k \in Completers, CompleteSteps(k)
      PROVE  /\ faults' = faults \/ faults' = faults + 1
             /\ doubt' = doubt \/ doubt' = TRUE
  BY <1>2 DEF CompleteSteps, CompleteExpired, ClaimVerification,
     ClaimLegacyVerification, VerifySucceeds, VerifyRejects, VerifyBreaks, Finalize,
     MarkFailed, DeleteFinal, ReleaseVerification, MarkFinalCleanupPending
<1>3. ASSUME NEW w \in Workers, CleanupSteps(w)
      PROVE  /\ faults' = faults \/ faults' = faults + 1
             /\ doubt' = doubt \/ doubt' = TRUE
  BY <1>3 DEF CleanupSteps, StartJob, ClaimCleanup, DeleteObject, FinishCleanup,
     WorkerFails, JobStalls
<1>4. CASE \/ Tick \/ ClientPut \/ Cancel \/ RequestDies \/ Attach \/ Detach
           \/ DiscoverAndEnqueue \/ UNCHANGED vars
  BY <1>4 DEF Tick, ClientPut, Cancel, RequestDies, Attach, Detach,
     DiscoverAndEnqueue, vars
<1> QED
  BY <1>1, <1>2, <1>3, <1>4 DEF Next

CompleterSteps == {"idle", "verify", "finalize", "markFailed", "deleteFinal",
                   "release", "markPending"}

LEMMA CompleterMoves ==
  ASSUME NEW k \in Completers, CompleteSteps(k)
  PROVE  \/ UNCHANGED completer
         \/ \E at \in CompleterSteps : Completer(k, at)
         \/ \E u \in {None, row.latestUrl} :
              completer' = [completer EXCEPT ![k] = [at |-> "verify", latest |-> u]]
<1>1. AfterFailure \in CompleterSteps
  BY DEF AfterFailure, CompleterSteps
<1> QED
  BY <1>1 DEF CompleteSteps, CompleteExpired, ClaimVerification,
     ClaimLegacyVerification, VerifySucceeds, VerifyRejects, VerifyBreaks, Finalize,
     MarkFailed, DeleteFinal, ReleaseVerification, MarkFinalCleanupPending, CompleterSteps

LEMMA WorkerMoves ==
  ASSUME NEW w \in Workers, CleanupSteps(w)
  PROVE  \/ WorkerEnds(w)
         \/ \E at \in {"delete", "finish"} : WorkerAt(w, at)
         \/ worker' = [worker EXCEPT ![w].owns = FALSE]
         \/ \E t \in Targets : worker' = [worker EXCEPT ![w] =
              [at |-> "claim", target |-> t, now |-> clock, owns |-> TRUE]]
BY DEF CleanupSteps, StartJob, ClaimCleanup, DeleteObject, FinishCleanup,
   WorkerFails, JobStalls, AttemptFails

\* Type correctness of every variable, the base of the other proofs.
THEOREM TypeCorrect == Spec => []TypeOK
<1>1. Init => TypeOK
  <2> SUFFICES ASSUME Init PROVE TypeOK
    OBVIOUS
  <2>1. row \in Row
    BY InitialRows DEF Init
  <2>2. /\ creator \in [Creators -> [at : {"idle", "sign", "resign", "persist",
                                           "signingFailed"}, url : Time]]
        /\ completer \in [Completers -> [at : {"idle", "verify", "finalize",
                             "markFailed", "deleteFinal", "release", "markPending"},
                                         latest : Time]]
        /\ worker \in [Workers -> [at : {"idle", "claim", "delete", "finish"},
                                   target : Targets, now : Nat, owns : BOOLEAN]]
    BY DEF Init, IdleCreator, IdleCompleter, IdleWorker, Time, None, Targets
  <2>3. /\ clock \in Nat /\ refs \in Nat /\ urlExpiry \in Time /\ faults \in Nat
        /\ staging \in {"none", "good", "bad"}
        /\ job \in [Targets -> {"none", "waiting", "active", "completed", "failed"}]
    BY BoundsAssumption DEF Init, Time
  <2>4. final \in BOOLEAN /\ doubt \in BOOLEAN
    BY ZenonT(30) DEF Init
  <2> QED
    BY <2>1, <2>2, <2>3, <2>4 DEF TypeOK
<1>2. TypeOK /\ [Next]_vars => TypeOK'
  <2> SUFFICES ASSUME TypeOK, [Next]_vars PROVE TypeOK'
    OBVIOUS
  <2>1. row' \in Row
    <3>1. \A c \in Creators : WithCapability(creator[c].url) \in Row
      BY CapabilityTypes DEF TypeOK
    <3>2. \A w \in Workers :
            /\ ClaimedRow(worker[w].target, worker[w].now) \in Row
            /\ FinishedRow(worker[w].target, worker[w].now) \in Row
      BY CleanedTypes DEF TypeOK
    <3>3. row \in Row
      BY DEF TypeOK
    <3> QED
      BY <3>1, <3>2, <3>3, RowMoves, RowTypes, CompletedTypes DEF RowMove, Writes
  <2> USE DEF TypeOK
  <2>2. clock \in Time /\ None \in Time /\ row.latestUrl \in Time
    BY DEF Time, None, Row
  <2>3. faults' \in Nat
    <3>1. faults' = faults \/ faults' = faults + 1
      BY HistoryMoves, Zenon
    <3> QED
      BY <3>1
  <2>4. doubt' \in BOOLEAN
    <3>1. doubt \in BOOLEAN
      OBVIOUS
    <3> QED
      BY <3>1, HistoryMoves, ZenonT(20)
  <2>5. ASSUME NEW c \in Creators, CreateSteps(c) PROVE TypeOK'
    <3>1. clock + UrlTtl \in Time
      BY DurationsAssumption DEF Time
    <3>2. Later(creator[c].url, urlExpiry) \in Time
      BY LaterIs
    <3>3. creator' \in [Creators -> [at : {"idle", "sign", "resign", "persist",
                                           "signingFailed"}, url : Time]]
      BY <2>2, <2>5, <3>1 DEF CreateSteps, CreateIntent, FindIntent, SignUrl, SignFails,
         MarkSigningFailed, PersistUrl, Creator
    <3>4. urlExpiry' \in Time
      BY <2>5, <3>2 DEF CreateSteps, CreateIntent, FindIntent, SignUrl, SignFails,
         MarkSigningFailed, PersistUrl
    <3>5. UNCHANGED <<clock, refs, objects, completer, cleanup>>
      BY <2>5 DEF CreateSteps, CreateIntent, FindIntent, SignUrl, SignFails,
         MarkSigningFailed, PersistUrl
    <3> QED
      BY <2>1, <2>3, <2>4, <3>3, <3>4, <3>5
  <2>6. ASSUME NEW k \in Completers, CompleteSteps(k) PROVE TypeOK'
    <3>1. completer' \in [Completers -> [at : {"idle", "verify", "finalize",
                             "markFailed", "deleteFinal", "release", "markPending"},
                                         latest : Time]]
      BY <2>2, <2>6, CompleterMoves DEF Completer, CompleterSteps
    <3>2. final' \in BOOLEAN
      BY <2>6 DEF CompleteSteps, CompleteExpired, ClaimVerification,
         ClaimLegacyVerification, VerifySucceeds, VerifyRejects, VerifyBreaks, Finalize,
         MarkFailed, DeleteFinal, ReleaseVerification, MarkFinalCleanupPending
    <3>3. UNCHANGED <<clock, refs, staging, urlExpiry, creator, cleanup>>
      BY <2>6 DEF CompleteSteps, CompleteExpired, ClaimVerification,
         ClaimLegacyVerification, VerifySucceeds, VerifyRejects, VerifyBreaks, Finalize,
         MarkFailed, DeleteFinal, ReleaseVerification, MarkFinalCleanupPending
    <3> QED
      BY <2>1, <2>3, <2>4, <3>1, <3>2, <3>3
  <2>7. ASSUME NEW w \in Workers, CleanupSteps(w) PROVE TypeOK'
    <3>1. worker' \in [Workers -> [at : {"idle", "claim", "delete", "finish"},
                                   target : Targets, now : Nat, owns : BOOLEAN]]
      <4> DEFINE Slot == [at : {"idle", "claim", "delete", "finish"},
                          target : Targets, now : Nat, owns : BOOLEAN]
      <4>1. worker \in [Workers -> Slot] /\ worker[w] \in Slot
        OBVIOUS
      <4>2. CASE WorkerEnds(w)
        <5>1. IdleWorker \in Slot
          BY DEF IdleWorker, Targets
        <5> QED
          BY <4>1, <4>2, <5>1 DEF WorkerEnds
      <4>3. ASSUME NEW at \in {"delete", "finish"}, WorkerAt(w, at)
            PROVE  worker' \in [Workers -> Slot]
        <5>1. [worker[w] EXCEPT !.at = at] \in Slot
          BY <4>1
        <5> QED
          BY <4>1, <4>3, <5>1 DEF WorkerAt
      <4>4. CASE worker' = [worker EXCEPT ![w].owns = FALSE]
        <5>1. [worker[w] EXCEPT !.owns = FALSE] \in Slot
          BY <4>1
        <5> QED
          BY <4>1, <4>4, <5>1
      <4>5. ASSUME NEW t \in Targets,
                   worker' = [worker EXCEPT ![w] =
                     [at |-> "claim", target |-> t, now |-> clock, owns |-> TRUE]]
            PROVE  worker' \in [Workers -> Slot]
        <5>1. [at |-> "claim", target |-> t, now |-> clock, owns |-> TRUE] \in Slot
          OBVIOUS
        <5> QED
          BY <4>1, <4>5, <5>1
      <4> QED
        BY <2>7, <4>2, <4>3, <4>4, <4>5, WorkerMoves
    <3>2. job' \in [Targets -> {"none", "waiting", "active", "completed", "failed"}]
      BY <2>7 DEF CleanupSteps, StartJob, ClaimCleanup, DeleteObject, FinishCleanup,
         WorkerFails, JobStalls, AttemptFails, JobBecomes
    <3>3. staging' \in {"none", "good", "bad"}
      BY <2>7 DEF CleanupSteps, StartJob, ClaimCleanup, DeleteObject, FinishCleanup,
         WorkerFails, JobStalls
    <3>4. final' \in BOOLEAN
      BY <2>7 DEF CleanupSteps, StartJob, ClaimCleanup, DeleteObject, FinishCleanup,
         WorkerFails, JobStalls
    <3>5. UNCHANGED <<clock, refs, urlExpiry, requests>>
      BY <2>7 DEF CleanupSteps, StartJob, ClaimCleanup, DeleteObject, FinishCleanup,
         WorkerFails, JobStalls
    <3> QED
      BY <2>1, <2>3, <2>4, <3>1, <3>2, <3>3, <3>4, <3>5
  <2>8. CASE Tick \/ ClientPut \/ Cancel \/ Attach \/ Detach
    BY <2>1, <2>8 DEF Tick, ClientPut, Cancel, Attach, Detach
  <2>9. CASE RequestDies
    <3>1. /\ creator' \in [Creators -> [at : {"idle", "sign", "resign", "persist",
                                              "signingFailed"}, url : Time]]
          /\ completer' \in [Completers -> [at : {"idle", "verify", "finalize",
                               "markFailed", "deleteFinal", "release", "markPending"},
                                            latest : Time]]
      BY <2>2, <2>9 DEF RequestDies, Creator, Completer
    <3> QED
      BY <2>1, <2>3, <2>9, <3>1 DEF RequestDies
  <2>10. CASE DiscoverAndEnqueue
    <3>1. job' \in [Targets -> {"none", "waiting", "active", "completed", "failed"}]
      BY <2>10 DEF DiscoverAndEnqueue, Enqueued, QueueAdd
    <3> QED
      BY <2>1, <2>10, <3>1 DEF DiscoverAndEnqueue
  <2>11. CASE UNCHANGED vars
    BY <2>11 DEF vars
  <2> QED
    BY <2>5, <2>6, <2>7, <2>8, <2>9, <2>10, <2>11 DEF Next
<1> QED
  BY <1>1, <1>2, PTL DEF Spec

-----------------------------------------------------------------------------
\* No way of writing the row reopens a session that ended.
LEMMA EndedMoves ==
  ASSUME TypeOK, RowMove, row.status \in Closed \cup {"PURGED"}
  PROVE  row'.status = row.status
<1> USE DEF Closed, Open
<1>1. ASSUME NEW url, row' = WithCapability(url) PROVE row'.status = row.status
  BY <1>1 DEF WithCapability, TypeOK, Row
<1>2. ASSUME NEW t, NEW now, row' = ClaimedRow(t, now) \/ row' = FinishedRow(t, now)
      PROVE  row'.status = row.status
  BY <1>2 DEF ClaimedRow, FinishedRow, TypeOK, Row
<1> QED
  BY <1>1, <1>2 DEF RowMove, Writes, SigningFailed, FailedRow, ReleasedRow,
     PendingRow, Finalizable, TypeOK, Row

\* However late a request or a worker comes, it does not reopen a session that
\* was rejected, cancelled or abandoned, or whose file was purged.
THEOREM EndedSessionsStay == Spec => EndedStaysEnded
<1>1. TypeOK /\ [Next]_vars =>
        [row.status \in Closed \cup {"PURGED"} => row'.status = row.status]_vars
  BY EndedMoves, RowMoves
<1> QED
  BY <1>1, TypeCorrect, PTL DEF Spec, EndedStaysEnded

-----------------------------------------------------------------------------
\* A final cleanup has claimed the file, or is through with it.
Held(r) == \/ r.status = "PURGED"
           \/ r.status = "READY" /\ r.finalClaimed # None

\* A late recovery cannot touch a READY or PURGED row: the CHECKs refuse it.
LEMMA LateRecovery ==
  ASSUME TypeOK, NEW now \in Nat, RowChecks(FinishedRow("finalization-recovery", now))
  PROVE  row.status \notin {"READY", "PURGED"}
<1>1. /\ FinishedRow("finalization-recovery", now).finalDeleted = None
      /\ FinishedRow("finalization-recovery", now).finalClaimed = None
  BY DEF FinishedRow, TypeOK, Row
<1>2. /\ row.status = "PURGED" \/ (row.status = "READY" /\ row.file # "none") =>
           FinishedRow("finalization-recovery", now).status = "PURGED"
      /\ row.status = "READY" /\ row.file = "none" =>
           /\ FinishedRow("finalization-recovery", now).status = "READY"
           /\ FinishedRow("finalization-recovery", now).file = "none"
  BY DEF FinishedRow, TypeOK, Row
<1> QED
  BY <1>1, <1>2 DEF RowChecks, ReadyCheck, PurgedCheck

\* What a transaction of finishCleanup leaves of the status.
LEMMA FinishedStatus ==
  ASSUME TypeOK, NEW t \in Targets, NEW now \in Nat, RowChecks(FinishedRow(t, now))
  PROVE  /\ FinishedRow(t, now).status # row.status =>
              \/ /\ t = "final" /\ row.status = "READY"
                 /\ FinishedRow(t, now).status = "PURGED"
              \/ /\ t = "finalization-recovery" /\ row.status = "VERIFYING"
                 /\ FinishedRow(t, now).status = "UPLOADING"
         /\ row.status \in {"READY", "PURGED"} =>
              FinishedRow(t, now).finalClaimed = row.finalClaimed
         /\ FinishedRow(t, now).file # row.file =>
              t = "final" /\ row.status = "READY"
<1>1. CASE t = "staging"
  BY <1>1 DEF FinishedRow, TypeOK, Row
<1>2. CASE t = "final"
  BY <1>2 DEF FinishedRow, TypeOK, Row
<1>3. CASE t = "finalization-recovery"
  <2>1. row.status \notin {"READY", "PURGED"}
    BY <1>3, LateRecovery
  <2> QED
    BY <1>3, <2>1 DEF FinishedRow, TypeOK, Row
<1> QED
  BY <1>1, <1>2, <1>3 DEF Targets

LEMMA HeldStays ==
  ASSUME TypeOK, RowMove, Held(row)
  PROVE  Held(row')
<1> USE DEF Held
<1>1. CASE UNCHANGED row
  BY <1>1
<1>2. CASE Writes(SigningFailed) \/ Writes(FailedRow) \/ Writes(ReleasedRow) \/ Writes(PendingRow)
  BY <1>2 DEF Writes, SigningFailed, FailedRow, ReleasedRow, PendingRow
<1>3. ASSUME NEW url, Writes(WithCapability(url)) PROVE Held(row')
  BY <1>3 DEF Writes, WithCapability, Open
<1>4. ASSUME NEW w \in Workers, Claimable(worker[w].target, worker[w].now),
             Writes(ClaimedRow(worker[w].target, worker[w].now))
      PROVE  Held(row')
  <2>1. worker[w].target \in Targets /\ worker[w].now # None
    BY DEF TypeOK, None
  <2> QED
    BY <1>4, <2>1 DEF Writes, ClaimedRow, Claimable, Targets, TypeOK, Row
<1>5. ASSUME NEW w \in Workers, Writes(FinishedRow(worker[w].target, worker[w].now))
      PROVE  Held(row')
  <2>1. worker[w].target \in Targets /\ worker[w].now \in Nat
    BY DEF TypeOK
  <2> QED
    BY <1>5, <2>1, FinishedStatus DEF Writes
<1>6. \A k \in Completers : ~(Finalizable /\ Writes(ReadyRow(k)))
  BY DEF Finalizable
<1> QED
  BY <1>1, <1>2, <1>3, <1>4, <1>5, <1>6 DEF RowMove, Open

\* A worker past the claim of a final cleanup holds the file.
FinalHeld ==
  \A w \in Workers :
    worker[w].at \in {"delete", "finish"} /\ worker[w].target = "final" => Held(row)

LEMMA FinalHeldInvariant == Spec => []FinalHeld
<1>1. Init => FinalHeld
  BY DEF Init, FinalHeld, IdleWorker
<1>2. TypeOK /\ FinalHeld /\ [Next]_vars => FinalHeld'
  <2> SUFFICES ASSUME TypeOK, FinalHeld, [Next]_vars, NEW v \in Workers,
                      (worker[v].at \in {"delete", "finish"})', (worker[v].target = "final")'
               PROVE  Held(row')
    BY DEF FinalHeld, Held
  <2>1. CASE worker[v].at \in {"delete", "finish"} /\ worker[v].target = "final"
    BY <2>1, HeldStays, RowMoves DEF FinalHeld
  <2>2. CASE ~(worker[v].at \in {"delete", "finish"} /\ worker[v].target = "final")
    <3>1. PICK w \in Workers : CleanupSteps(w)
      BY <2>2 DEF Next, vars, CreateSteps, CreateIntent, FindIntent, SignUrl, SignFails,
         MarkSigningFailed, PersistUrl, CompleteSteps, CompleteExpired, ClaimVerification,
         ClaimLegacyVerification, VerifySucceeds, VerifyRejects, VerifyBreaks, Finalize,
         MarkFailed, DeleteFinal, ReleaseVerification, MarkFinalCleanupPending, Tick,
         ClientPut, Cancel, RequestDies, Attach, Detach, DiscoverAndEnqueue
    <3>2. ClaimCleanup(w) /\ w = v /\ Claimable("final", worker[v].now)
          /\ row' = ClaimedRow("final", worker[v].now)
      BY <2>2, <3>1 DEF CleanupSteps, StartJob, ClaimCleanup, DeleteObject, FinishCleanup,
         WorkerFails, JobStalls, AttemptFails, WorkerEnds, WorkerAt, IdleWorker, Commits,
         TypeOK
    <3>3. worker[v].now # None
      BY DEF TypeOK, None
    <3> QED
      BY <3>2, <3>3 DEF Held, Claimable, ClaimedRow, TypeOK, Row
  <2> QED
    BY <2>1, <2>2
<1> QED
  BY <1>1, <1>2, TypeCorrect, PTL DEF Spec

-----------------------------------------------------------------------------
\* Only lesson content counts references, and it leaves the row alone.
LEMMA RefsMoves ==
  ASSUME [Next]_vars
  PROVE  refs' = refs \/ (row' = row /\ (Attach \/ Detach))
<1>1. ASSUME NEW c \in Creators, CreateSteps(c) PROVE refs' = refs
  BY <1>1 DEF CreateSteps, CreateIntent, FindIntent, SignUrl, SignFails,
     MarkSigningFailed, PersistUrl
<1>2. ASSUME NEW k \in Completers, CompleteSteps(k) PROVE refs' = refs
  BY <1>2 DEF CompleteSteps, CompleteExpired, ClaimVerification,
     ClaimLegacyVerification, VerifySucceeds, VerifyRejects, VerifyBreaks, Finalize,
     MarkFailed, DeleteFinal, ReleaseVerification, MarkFinalCleanupPending
<1>3. ASSUME NEW w \in Workers, CleanupSteps(w) PROVE refs' = refs
  BY <1>3 DEF CleanupSteps, StartJob, ClaimCleanup, DeleteObject, FinishCleanup,
     WorkerFails, JobStalls
<1>4. CASE Tick \/ ClientPut \/ Cancel \/ RequestDies \/ DiscoverAndEnqueue \/ UNCHANGED vars
  BY <1>4 DEF Tick, ClientPut, Cancel, RequestDies, DiscoverAndEnqueue, vars
<1>5. CASE Attach \/ Detach
  BY <1>5 DEF Attach, Detach
<1> QED
  BY <1>1, <1>2, <1>3, <1>4, <1>5 DEF Next

\* Every way in which a step may move the medium, as lesson content sees it.
LEMMA PhaseMoves ==
  ASSUME TypeOK, FinalHeld, RowMove
  PROVE  \/ Phase' = Phase
         \/ Phase = "preparing" /\ Phase' = "closed"
         \/ Phase = "preparing" /\ Phase' = "ready" /\ row'.file = "live"
         \/ Phase = "ready" /\ Phase' = "withdrawn" /\ refs = 0
<1> DEFINE Moves == \/ Phase' = Phase
                    \/ Phase = "preparing" /\ Phase' = "closed"
                    \/ Phase = "preparing" /\ Phase' = "ready" /\ row'.file = "live"
                    \/ Phase = "ready" /\ Phase' = "withdrawn" /\ refs = 0
<1> USE DEF Phase, Closed, Open
<1>1. CASE UNCHANGED row
  BY <1>1
<1>2. CASE \/ /\ row.status = "ABSENT"
              /\ row' = [AbsentRow EXCEPT !.status = "CREATED",
                                          !.expiresAt = clock + SessionTtl]
           \/ /\ row.status \in Open
              /\ row' = [row EXCEPT !.status = "CANCELLED",
                                    !.stagingEligible = Later(clock, row.latestUrl)]
           \/ row.status \in Open /\ row' = ExpiredRow
           \/ /\ row.status \in {"UPLOADING", "LEGACY"}
              /\ row' = [row EXCEPT !.status = "VERIFYING"]
  BY <1>2 DEF ExpiredRow, AbsentRow, TypeOK, Row
<1>3. CASE Writes(SigningFailed) \/ Writes(FailedRow) \/ Writes(ReleasedRow) \/ Writes(PendingRow)
  BY <1>3 DEF Writes, SigningFailed, FailedRow, ReleasedRow, PendingRow, TypeOK, Row
<1>4. ASSUME NEW url, Writes(WithCapability(url)) PROVE Moves
  BY <1>4 DEF Writes, WithCapability, TypeOK, Row
<1>5. ASSUME NEW k \in Completers, Finalizable, Writes(ReadyRow(k)) PROVE Moves
  BY <1>5 DEF Finalizable, Writes, ReadyRow, TypeOK, Row
<1>6. ASSUME NEW w \in Workers, Claimable(worker[w].target, worker[w].now),
             Writes(ClaimedRow(worker[w].target, worker[w].now))
      PROVE  Moves
  <2>1. worker[w].target \in Targets /\ worker[w].now # None
    BY DEF TypeOK, None
  <2> QED
    BY <1>6, <2>1 DEF Writes, ClaimedRow, Claimable, Targets, TypeOK, Row
<1>7. ASSUME NEW w \in Workers, worker[w].at = "finish",
             Writes(FinishedRow(worker[w].target, worker[w].now))
      PROVE  Moves
  <2>1. worker[w].target \in Targets /\ worker[w].now \in Nat
    BY DEF TypeOK
  <2>2. worker[w].target = "final" => Held(row)
    BY <1>7 DEF FinalHeld
  <2> QED
    BY <1>7, <2>1, <2>2, FinishedStatus DEF Writes, Held
<1> QED
  BY <1>1, <1>2, <1>3, <1>4, <1>5, <1>6, <1>7 DEF RowMove

\* The sessions, their objects, jobs, retries and lost workers implement the
\* lifecycle of MediaLifecycle: ready once, withdrawn only when unreferenced.
THEOREM LifecycleIsImplemented == Spec => ImplementsLifecycle
<1>1. Init => Lifecycle!Init
  <2> SUFFICES ASSUME Init PROVE Lifecycle!Init
    OBVIOUS
  <2>1. row.status \in {"ABSENT", "LEGACY"} /\ refs \in Nat
    BY InitialStatus, BoundsAssumption DEF Init
  <2> QED
    BY <2>1 DEF Lifecycle!Init, Phase, Closed
<1>2. TypeOK /\ FinalHeld /\ [Next]_vars => [Lifecycle!Next]_(Lifecycle!vars)
  <2> SUFFICES ASSUME TypeOK, FinalHeld, [Next]_vars
               PROVE  [Lifecycle!Next]_(Lifecycle!vars)
    OBVIOUS
  <2> USE DEF Lifecycle!Next, Lifecycle!vars
  <2>1. CASE refs' = refs
    <3>1. \/ Phase' = Phase
          \/ Phase = "preparing" /\ Phase' = "closed"
          \/ Phase = "preparing" /\ Phase' = "ready"
          \/ Phase = "ready" /\ Phase' = "withdrawn" /\ refs = 0
      BY PhaseMoves, RowMoves
    <3> QED
      BY <2>1, <3>1 DEF Lifecycle!BecomeReady, Lifecycle!Close, Lifecycle!Withdraw
  <2>2. CASE row' = row /\ Attach
    <3>1. Phase' = Phase
      BY <2>2 DEF Phase
    <3>2. Phase = "ready"
      BY <2>2 DEF Attach, Phase, Closed
    <3> QED
      BY <2>2, <3>1, <3>2 DEF Attach, Lifecycle!Attach
  <2>3. CASE row' = row /\ Detach
    <3>1. Phase' = Phase
      BY <2>3 DEF Phase
    <3> QED
      BY <2>3, <3>1 DEF Detach, Lifecycle!Detach
  <2> QED
    BY <2>1, <2>2, <2>3, RefsMoves
<1> QED
  BY <1>1, <1>2, TypeCorrect, FinalHeldInvariant, PTL
     DEF Spec, ImplementsLifecycle, Lifecycle!Spec

\* The file goes only when a final cleanup has claimed it.
LEMMA FileMoves ==
  ASSUME TypeOK, FinalHeld, RowMove
  PROVE  /\ row'.status = "ABSENT" => row.status = "ABSENT" /\ row'.file = row.file
         /\ row'.file # row.file =>
              \/ row'.file = "live" \/ row.status = "ABSENT"
              \/ row.status = "READY" /\ row.finalClaimed # None
<1> DEFINE Moves == /\ row'.status = "ABSENT" => row.status = "ABSENT" /\ row'.file = row.file
                    /\ row'.file # row.file =>
                         \/ row'.file = "live" \/ row.status = "ABSENT"
                         \/ row.status = "READY" /\ row.finalClaimed # None
<1>1. CASE UNCHANGED row
  BY <1>1
<1>2. CASE \/ /\ row.status = "ABSENT"
              /\ row' = [AbsentRow EXCEPT !.status = "CREATED",
                                          !.expiresAt = clock + SessionTtl]
           \/ /\ row.status \in Open
              /\ row' = [row EXCEPT !.status = "CANCELLED",
                                    !.stagingEligible = Later(clock, row.latestUrl)]
           \/ row.status \in Open /\ row' = ExpiredRow
           \/ /\ row.status \in {"UPLOADING", "LEGACY"}
              /\ row' = [row EXCEPT !.status = "VERIFYING"]
  BY <1>2 DEF ExpiredRow, AbsentRow, TypeOK, Row
<1>3. CASE Writes(SigningFailed) \/ Writes(FailedRow) \/ Writes(ReleasedRow) \/ Writes(PendingRow)
  BY <1>3 DEF Writes, SigningFailed, FailedRow, ReleasedRow, PendingRow, TypeOK, Row
<1>4. ASSUME NEW url, Writes(WithCapability(url)) PROVE Moves
  BY <1>4 DEF Writes, WithCapability, Open, TypeOK, Row
<1>5. ASSUME NEW k \in Completers, Finalizable, Writes(ReadyRow(k)) PROVE Moves
  BY <1>5 DEF Finalizable, Writes, ReadyRow, TypeOK, Row
<1>6. ASSUME NEW w \in Workers, Claimable(worker[w].target, worker[w].now),
             Writes(ClaimedRow(worker[w].target, worker[w].now))
      PROVE  Moves
  BY <1>6 DEF Writes, ClaimedRow, Claimable, TypeOK, Row
<1>7. ASSUME NEW w \in Workers, worker[w].at = "finish",
             Writes(FinishedRow(worker[w].target, worker[w].now))
      PROVE  Moves
  <2>1. worker[w].target \in Targets /\ worker[w].now \in Nat
    BY DEF TypeOK
  <2>2. worker[w].target = "final" => Held(row)
    BY <1>7 DEF FinalHeld
  <2> QED
    BY <1>7, <2>1, <2>2, FinishedStatus DEF Writes, Held
<1> QED
  BY <1>1, <1>2, <1>3, <1>4, <1>5, <1>6, <1>7 DEF RowMove

\* Before the row exists there is no file.
KeptInv == /\ ReferencedIsKept
           /\ row.status = "ABSENT" => row.file = "none"

\* Whatever content, uploads and cleanup workers do in whatever order, content
\* references no file that is deleted or whose final cleanup has been claimed.
THEOREM ReferencesAreKept == Spec => []ReferencedIsKept
<1>1. Init => KeptInv
  BY InitialStatus, BoundsAssumption DEF Init, KeptInv, ReferencedIsKept
<1>2. TypeOK /\ FinalHeld /\ KeptInv /\ [Next]_vars => KeptInv'
  <2> SUFFICES ASSUME TypeOK, FinalHeld, KeptInv, [Next]_vars PROVE KeptInv'
    OBVIOUS
  <2>1. CASE refs' = refs
    <3>1. refs > 0 => ~(row'.status = "READY" /\ row'.finalClaimed # None)
      <4>1. Phase' = "withdrawn" => Phase = "withdrawn" \/ refs = 0
        BY PhaseMoves, RowMoves
      <4>2. Phase = "withdrawn" => refs = 0 \/ row.status = "PURGED"
        BY DEF Phase, KeptInv, ReferencedIsKept, TypeOK
      <4>3. row.status = "PURGED" => row'.status = "PURGED"
        BY EndedMoves, RowMoves
      <4>4. row'.status = "READY" /\ row'.finalClaimed # None => Phase' = "withdrawn"
        BY DEF Phase, Closed
      <4> QED
        BY <4>1, <4>2, <4>3, <4>4
    <3>2. refs > 0 => row'.file = "live"
      BY FileMoves, RowMoves DEF KeptInv, ReferencedIsKept
    <3> QED
      BY <2>1, <3>1, <3>2, FileMoves, RowMoves DEF KeptInv, ReferencedIsKept
  <2>2. CASE row' = row /\ Attach
    BY <2>2 DEF Attach, KeptInv, ReferencedIsKept
  <2>3. CASE row' = row /\ Detach
    BY <2>3 DEF Detach, KeptInv, ReferencedIsKept, TypeOK
  <2> QED
    BY <2>1, <2>2, <2>3, RefsMoves
<1>3. KeptInv => ReferencedIsKept
  BY DEF KeptInv
<1> QED
  BY <1>1, <1>2, <1>3, TypeCorrect, FinalHeldInvariant, PTL DEF Spec

-----------------------------------------------------------------------------
\* Only an ended or READY row is eligible for staging cleanup, and not before
\* the last upload URL it knows of expires.
Eligible(r) ==
  /\ r.status = "ABSENT" => r.latestUrl = None
  /\ r.stagingEligible # None => /\ r.status \in Closed \cup {"READY", "PURGED"}
                                 /\ r.latestUrl <= r.stagingEligible
  /\ r.stagingDeleted # None => r.stagingEligible # None

\* How a step moves the staging evidence of the row.
EvidenceMove ==
  /\ Eligible(row')
  /\ row.latestUrl <= row'.latestUrl
  /\ row.stagingEligible # None => row'.stagingEligible # None
  /\ row'.stagingDeleted # row.stagingDeleted =>
       \E w \in Workers : worker[w].at = "finish" /\ worker[w].target = "staging"

LEMMA EvidenceMoves ==
  ASSUME TypeOK, RowMove, Eligible(row)
  PROVE  EvidenceMove
<1>1. /\ row.latestUrl \in Time /\ row.stagingEligible \in Time
      /\ row.stagingDeleted \in Time /\ clock \in Time /\ row \in Row
  BY DEF TypeOK, Row, Time
<1>2. ASSUME NEW r, RowChecks(r) PROVE r.status # "ABSENT" => Eligible(r)
  <2>1. EvidenceCheck(r)
    BY <1>2 DEF RowChecks
  <2>2. r.stagingDeleted # None => r.stagingEligible # None
    BY <2>1 DEF EvidenceCheck
  <2>3. r.stagingEligible # None => /\ r.status \in Closed \cup {"READY", "PURGED"}
                                    /\ r.stagingEligible >= r.latestUrl
    BY <2>1 DEF EvidenceCheck
  <2> QED
    BY <2>2, <2>3 DEF Eligible
<1>3. CASE UNCHANGED row
  BY <1>1, <1>3 DEF EvidenceMove, Time, None
<1>4. CASE /\ row.status = "ABSENT"
           /\ row' = [AbsentRow EXCEPT !.status = "CREATED",
                                       !.expiresAt = clock + SessionTtl]
  <2>1. /\ row'.latestUrl = None /\ row'.stagingEligible = None
        /\ row'.stagingDeleted = None /\ row'.status = "CREATED"
    BY <1>4 DEF AbsentRow
  <2> QED
    BY <1>4, <2>1 DEF EvidenceMove, Eligible, Closed, None
<1>5. ASSUME row.status \in Open, NEW s \in {"CANCELLED", "EXPIRED"},
             row' = [row EXCEPT !.status = s, !.stagingEligible = Later(clock, row.latestUrl)]
      PROVE  EvidenceMove
  <2>1. /\ row'.status = s /\ row'.stagingEligible = Later(clock, row.latestUrl)
        /\ row'.latestUrl = row.latestUrl /\ row'.stagingDeleted = row.stagingDeleted
    BY <1>1, <1>5 DEF Row
  <2>2. Later(clock, row.latestUrl) \in Nat /\ Later(clock, row.latestUrl) >= row.latestUrl
    BY <1>1, LaterIs DEF TypeOK
  <2> QED
    BY <1>1, <1>5, <2>1, <2>2 DEF EvidenceMove, Eligible, Closed, Open, Time, None
<1>6. CASE /\ row.status \in {"UPLOADING", "LEGACY"}
           /\ row' = [row EXCEPT !.status = "VERIFYING"]
  <2>1. /\ row'.status = "VERIFYING" /\ row'.stagingEligible = row.stagingEligible
        /\ row'.latestUrl = row.latestUrl /\ row'.stagingDeleted = row.stagingDeleted
    BY <1>1, <1>6 DEF Row
  <2> QED
    BY <1>1, <1>6, <2>1 DEF EvidenceMove, Eligible, Closed, Time, None
<1>7. CASE Writes(SigningFailed) \/ Writes(FailedRow) \/ Writes(ReleasedRow) \/ Writes(PendingRow)
  <2>1. row' = row \/ Eligible(row')
    BY <1>2, <1>7 DEF Writes, SigningFailed, FailedRow, ReleasedRow, PendingRow, TypeOK, Row
  <2>2. /\ row'.latestUrl = row.latestUrl /\ row'.stagingDeleted = row.stagingDeleted
        /\ row.stagingEligible # None => row'.stagingEligible # None
    BY <1>1, <1>7 DEF Writes, SigningFailed, FailedRow, ReleasedRow, PendingRow, Row,
       Eligible, Closed, Time, None
  <2> QED
    BY <1>1, <2>1, <2>2 DEF EvidenceMove, Time, None
<1>8. ASSUME NEW c \in Creators, Writes(WithCapability(creator[c].url)) PROVE EvidenceMove
  <2> DEFINE url == creator[c].url
             latest == Later(url, row.latestUrl)
  <2>1. /\ latest \in Time /\ row.latestUrl <= latest
        /\ Later(clock, latest) \in Nat
        /\ Later(row.stagingEligible, latest) \in Time
        /\ row.stagingEligible <= Later(row.stagingEligible, latest)
    BY <1>1, LaterIs DEF TypeOK
  <2> HIDE DEF latest
  <2>2. row' = row \/ Eligible(row')
    BY <1>2, <1>8 DEF Writes, WithCapability, Open, TypeOK, Row
  <2>3. /\ row.latestUrl <= row'.latestUrl /\ row'.stagingDeleted = row.stagingDeleted
        /\ row.stagingEligible # None => row'.stagingEligible # None
    BY <1>1, <1>8, <2>1 DEF Writes, WithCapability, Row, Open, Time, None, latest
  <2> QED
    BY <1>1, <2>2, <2>3 DEF EvidenceMove
<1>9. ASSUME NEW k \in Completers, Finalizable, Writes(ReadyRow(k)) PROVE EvidenceMove
  <2>1. /\ row'.status = "READY" /\ row'.latestUrl = row.latestUrl
        /\ row'.stagingDeleted = row.stagingDeleted
    BY <1>1, <1>9 DEF Writes, ReadyRow, Row
  <2>2. row.stagingEligible = None
    BY <1>9 DEF Eligible, Finalizable, Closed
  <2> QED
    BY <1>1, <1>2, <1>9, <2>1, <2>2 DEF EvidenceMove, Writes, Time, None
<1>10. ASSUME NEW w \in Workers, Claimable(worker[w].target, worker[w].now),
              Writes(ClaimedRow(worker[w].target, worker[w].now))
       PROVE  EvidenceMove
  <2>1. /\ row'.status = row.status /\ row'.latestUrl = row.latestUrl
        /\ row'.stagingDeleted = row.stagingDeleted
        /\ row'.stagingEligible = row.stagingEligible
    BY <1>1, <1>10 DEF Writes, ClaimedRow, Row
  <2> QED
    BY <1>1, <2>1 DEF EvidenceMove, Eligible, Time, None
<1>11. ASSUME NEW w \in Workers, worker[w].at = "finish",
              Writes(FinishedRow(worker[w].target, worker[w].now))
       PROVE  EvidenceMove
  <2>1. worker[w].target \in Targets
    BY DEF TypeOK
  <2>2. /\ row'.latestUrl = row.latestUrl /\ row'.stagingEligible = row.stagingEligible
        /\ worker[w].target # "staging" => row'.stagingDeleted = row.stagingDeleted
        /\ row.status = "ABSENT" <=> row'.status = "ABSENT"
    BY <1>1, <1>11, <2>1 DEF Writes, FinishedRow, Targets, Row
  <2>3. Eligible(row')
    BY <1>2, <1>11, <2>2 DEF Writes, Eligible, RowChecks, EvidenceCheck
  <2> QED
    BY <1>1, <1>11, <2>2, <2>3 DEF EvidenceMove, Time, None
<1> QED
  BY <1>3, <1>4, <1>5, <1>6, <1>7, <1>8, <1>9, <1>10, <1>11 DEF RowMove, ExpiredRow

\* How the clock, the URLs in clients' hands and the staging object move.
LEMMA UploadMoves ==
  ASSUME [Next]_vars
  PROVE  /\ clock' = clock \/ clock' = clock + 1
         /\ \/ urlExpiry' = urlExpiry
            \/ \E c \in Creators : /\ row' = WithCapability(creator[c].url)
                                   /\ row'.status = "UPLOADING"
                                   /\ urlExpiry' = Later(creator[c].url, urlExpiry)
         /\ staging' = staging \/ staging' = "none" \/ (ClientPut /\ clock < urlExpiry)
<1> DEFINE Moves ==
         /\ clock' = clock \/ clock' = clock + 1
         /\ \/ urlExpiry' = urlExpiry
            \/ \E c \in Creators : /\ row' = WithCapability(creator[c].url)
                                   /\ row'.status = "UPLOADING"
                                   /\ urlExpiry' = Later(creator[c].url, urlExpiry)
         /\ staging' = staging \/ staging' = "none" \/ (ClientPut /\ clock < urlExpiry)
<1>1. ASSUME NEW c \in Creators, CreateSteps(c) PROVE Moves
  BY <1>1 DEF CreateSteps, CreateIntent, FindIntent, SignUrl, SignFails,
     MarkSigningFailed, PersistUrl, Commits
<1>2. ASSUME NEW k \in Completers, CompleteSteps(k) PROVE Moves
  BY <1>2 DEF CompleteSteps, CompleteExpired, ClaimVerification,
     ClaimLegacyVerification, VerifySucceeds, VerifyRejects, VerifyBreaks, Finalize,
     MarkFailed, DeleteFinal, ReleaseVerification, MarkFinalCleanupPending
<1>3. ASSUME NEW w \in Workers, CleanupSteps(w) PROVE Moves
  BY <1>3 DEF CleanupSteps, StartJob, ClaimCleanup, DeleteObject, FinishCleanup,
     WorkerFails, JobStalls
<1>4. CASE ClientPut
  BY <1>4 DEF ClientPut
<1>5. CASE \/ Tick \/ Cancel \/ RequestDies \/ Attach \/ Detach \/ DiscoverAndEnqueue
           \/ UNCHANGED vars
  BY <1>5 DEF Tick, Cancel, RequestDies, Attach, Detach, DiscoverAndEnqueue, vars
<1> QED
  BY <1>1, <1>2, <1>3, <1>4, <1>5 DEF Next

\* How a step brings a worker to the deletion of the staging object.
LEMMA StagingWorkerMoves ==
  ASSUME TypeOK, [Next]_vars, NEW v \in Workers
  PROVE  /\ (worker[v].now)' \in {0, clock, worker[v].now}
         /\ (worker[v].at = "finish" /\ worker[v].target = "staging")' =>
              \/ worker[v].at = "finish" /\ worker[v].target = "staging"
              \/ /\ worker[v].at = "delete" /\ worker[v].target = "staging"
                 /\ staging' = "none"
         /\ (worker[v].at = "delete" /\ worker[v].target = "staging")' =>
              \/ worker[v].at = "delete" /\ worker[v].target = "staging"
              \/ /\ Claimable("staging", worker[v].now)
                 /\ row' = ClaimedRow("staging", worker[v].now)
                 /\ UNCHANGED <<urlExpiry, clock>>
<1>1. CASE worker' = worker
  BY <1>1
<1>2. ASSUME NEW w \in Workers, CleanupSteps(w), w # v PROVE worker'[v] = worker[v]
  BY <1>2, WorkerMoves DEF WorkerEnds, WorkerAt, TypeOK
<1>3. ASSUME CleanupSteps(v)
      PROVE  /\ (worker[v].now)' \in {0, clock, worker[v].now}
             /\ (worker[v].at = "finish" /\ worker[v].target = "staging")' =>
                  \/ worker[v].at = "finish" /\ worker[v].target = "staging"
                  \/ /\ worker[v].at = "delete" /\ worker[v].target = "staging"
                     /\ staging' = "none"
             /\ (worker[v].at = "delete" /\ worker[v].target = "staging")' =>
                  \/ worker[v].at = "delete" /\ worker[v].target = "staging"
                  \/ /\ Claimable("staging", worker[v].now)
                     /\ row' = ClaimedRow("staging", worker[v].now)
                     /\ UNCHANGED <<urlExpiry, clock>>
  BY <1>3 DEF CleanupSteps, StartJob, ClaimCleanup, DeleteObject, FinishCleanup,
     WorkerFails, JobStalls, AttemptFails, WorkerEnds, WorkerAt, IdleWorker, Commits, TypeOK
<1>4. worker' = worker \/ \E w \in Workers : CleanupSteps(w)
  BY DEF Next, vars, CreateSteps, CreateIntent, FindIntent, SignUrl, SignFails,
     MarkSigningFailed, PersistUrl, CompleteSteps, CompleteExpired, ClaimVerification,
     ClaimLegacyVerification, VerifySucceeds, VerifyRejects, VerifyBreaks, Finalize,
     MarkFailed, DeleteFinal, ReleaseVerification, MarkFinalCleanupPending, Tick,
     ClientPut, Cancel, RequestDies, Attach, Detach, DiscoverAndEnqueue
<1> QED
  BY <1>1, <1>2, <1>3, <1>4

\* No URL in a client's hands outlives the eligibility of the staging object, so
\* from the claim of its cleanup on nobody can upload again.
StagingInv ==
  /\ Eligible(row)
  /\ urlExpiry <= row.latestUrl
  /\ row.stagingDeleted # None => urlExpiry <= clock /\ staging = "none"
  /\ \A w \in Workers :
       /\ worker[w].now <= clock
       /\ worker[w].at \in {"delete", "finish"} /\ worker[w].target = "staging" =>
            urlExpiry <= clock /\ row.stagingEligible # None
       /\ worker[w].at = "finish" /\ worker[w].target = "staging" => staging = "none"

\* However creations, uploads and cleanup interleave, a staging object that the
\* row records as deleted does not come back.
THEOREM DeletedStagingStays == Spec => []StagingStaysDeleted
<1>1. Init => StagingInv
  <2> SUFFICES ASSUME Init PROVE StagingInv
    OBVIOUS
  <2>1. /\ row.latestUrl = None /\ row.stagingEligible = None /\ row.stagingDeleted = None
    <3>1. row \in {AbsentRow, LegacyRow}
      BY DEF Init
    <3> QED
      BY <3>1, InitialStatus
  <2>2. \A w \in Workers : worker[w].now = 0 /\ worker[w].at = "idle"
    BY DEF Init, IdleWorker
  <2>3. urlExpiry = None /\ clock = 0
    BY DEF Init
  <2> QED
    BY <2>1, <2>2, <2>3 DEF StagingInv, Eligible, None
<1>2. TypeOK /\ StagingInv /\ TypeOK' /\ [Next]_vars => StagingInv'
  <2> SUFFICES ASSUME TypeOK, StagingInv, TypeOK', [Next]_vars PROVE StagingInv'
    OBVIOUS
  <2>1. EvidenceMove
    BY EvidenceMoves, RowMoves DEF StagingInv
  <2>2. /\ clock \in Nat /\ clock' \in Nat /\ clock <= clock'
        /\ urlExpiry \in Int /\ urlExpiry' \in Int
        /\ row.latestUrl \in Int /\ row'.latestUrl \in Int
    BY UploadMoves DEF TypeOK, Row, Time, None
  <2>3. urlExpiry' <= row'.latestUrl
    <3>1. CASE urlExpiry' = urlExpiry
      BY <2>1, <2>2, <3>1 DEF StagingInv, EvidenceMove
    <3>2. ASSUME NEW c \in Creators, row' = WithCapability(creator[c].url),
                 row'.status = "UPLOADING", urlExpiry' = Later(creator[c].url, urlExpiry)
          PROVE  urlExpiry' <= row'.latestUrl
      <4>1. row'.latestUrl = Later(creator[c].url, row.latestUrl)
        BY <3>2 DEF WithCapability, Open, TypeOK, Row
      <4>2. creator[c].url \in Int
        BY DEF TypeOK, Time, None
      <4> QED
        BY <2>2, <3>2, <4>1, <4>2 DEF StagingInv, Later
    <3> QED
      BY <3>1, <3>2, UploadMoves
  <2>4. row.stagingEligible # None => urlExpiry' = urlExpiry
    <3>1. ASSUME NEW url, row' = WithCapability(url), row'.status = "UPLOADING"
          PROVE  row.stagingEligible = None
      BY <3>1 DEF WithCapability, StagingInv, Eligible, Open, Closed, TypeOK, Row
    <3> QED
      BY <3>1, UploadMoves
  <2>5. \A w \in Workers : (worker[w].now <= clock)'
    <3>1. \A w \in Workers : worker[w].now \in Nat /\ worker[w].now <= clock
      BY DEF TypeOK, StagingInv
    <3>2. \A w \in Workers : (worker[w].now)' \in {0, clock, worker[w].now}
      BY StagingWorkerMoves
    <3> QED
      BY <2>2, <3>1, <3>2
  <2>6. ASSUME NEW w \in Workers,
               (worker[w].at \in {"delete", "finish"} /\ worker[w].target = "staging")'
        PROVE  urlExpiry' <= clock' /\ row'.stagingEligible # None
    <3>1. CASE worker[w].at \in {"delete", "finish"} /\ worker[w].target = "staging"
      BY <2>1, <2>2, <2>4, <3>1 DEF StagingInv, EvidenceMove
    <3>2. CASE /\ Claimable("staging", worker[w].now)
               /\ UNCHANGED <<urlExpiry, clock>>
      <4>1. /\ row.stagingEligible # None /\ row.stagingEligible <= worker[w].now
            /\ row.stagingEligible \in Int /\ worker[w].now \in Int
        BY <3>2 DEF Claimable, TypeOK, Row, Time, None
      <4> QED
        BY <2>1, <2>2, <3>2, <4>1 DEF StagingInv, Eligible, EvidenceMove
    <3> QED
      BY <2>6, <3>1, <3>2, StagingWorkerMoves
  <2>7. ASSUME NEW w \in Workers,
               (worker[w].at = "finish" /\ worker[w].target = "staging")'
        PROVE  staging' = "none"
    <3>1. CASE worker[w].at = "finish" /\ worker[w].target = "staging"
      BY <2>2, <3>1, UploadMoves DEF StagingInv
    <3> QED
      BY <2>7, <3>1, StagingWorkerMoves
  <2>8. row'.stagingDeleted # None => urlExpiry' <= clock' /\ staging' = "none"
    <3>1. CASE row.stagingDeleted # None
      <4>1. row.stagingEligible # None /\ urlExpiry <= clock /\ staging = "none"
        BY <3>1 DEF StagingInv, Eligible
      <4> QED
        BY <2>2, <2>4, <4>1, UploadMoves
    <3>2. ASSUME NEW w \in Workers, worker[w].at = "finish", worker[w].target = "staging"
          PROVE  urlExpiry' <= clock' /\ staging' = "none"
      <4>1. row.stagingEligible # None /\ urlExpiry <= clock /\ staging = "none"
        BY <3>2 DEF StagingInv
      <4> QED
        BY <2>2, <2>4, <4>1, UploadMoves
    <3> QED
      BY <2>1, <3>1, <3>2 DEF EvidenceMove
  <2>9. Eligible(row)'
    BY <2>1 DEF EvidenceMove, Eligible
  <2> QED
    BY <2>3, <2>5, <2>6, <2>7, <2>8, <2>9 DEF StagingInv
<1>3. StagingInv => StagingStaysDeleted
  BY DEF StagingInv, StagingStaysDeleted
<1> QED
  BY <1>1, <1>2, <1>3, TypeCorrect, PTL DEF Spec

-----------------------------------------------------------------------------
\* What holds as long as no worker outlived its job and no commit went unanswered.

\* A job is run by one worker at most, and is active while it is run.
JobsAreExclusive ==
  \A v, w \in Workers :
    worker[v].at # "idle" =>
      /\ worker[v].owns /\ job[worker[v].target] = "active"
      /\ worker[w].at # "idle" /\ worker[w].target = worker[v].target => v = w

\* A request past claimVerification is the only one, and has the row to itself.
VerifierIsAlone ==
  \A k, l \in Completers :
    completer[k].at # "idle" =>
      /\ row.status = "VERIFYING" /\ row.reason = "none"
      /\ completer[l].at # "idle" => k = l
      /\ completer[k].at = "finalize" => final

\* A worker past the claim of a recovery finds the row as it claimed it.
RecoveryIsPending ==
  \A w \in Workers :
    worker[w].at \in {"delete", "finish"} /\ worker[w].target = "finalization-recovery" =>
      row.status = "VERIFYING" /\ row.reason = "finalization_cleanup_pending"

\* Open and legacy rows carry no failure reason.
ReasonInv == row.status \in Open \cup {"LEGACY"} => row.reason = "none"

ObjectInv ==
  /\ ReasonInv
  /\ ~doubt => JobsAreExclusive /\ VerifierIsAlone /\ RecoveryIsPending
  /\ ReadyHasItsObject

\* Where the requests of completers stand after a step that leaves no doubt.
VerifierMove ==
  \/ /\ UNCHANGED completer
     /\ row.status = "VERIFYING" =>
          \/ UNCHANGED row
          \/ \E w \in Workers :
               \/ row' = ClaimedRow(worker[w].target, worker[w].now)
               \/ row' = FinishedRow(worker[w].target, worker[w].now)
  \/ \E k \in Completers, u \in Time :
       /\ completer[k].at = "idle" /\ row.status \in {"UPLOADING", "LEGACY"}
       /\ row' = [row EXCEPT !.status = "VERIFYING"]
       /\ completer' = [completer EXCEPT ![k] = [at |-> "verify", latest |-> u]]
  \/ \E k \in Completers : completer[k].at # "idle" /\ Completer(k, "idle")
  \/ \E k \in Completers, at \in CompleterSteps :
       /\ completer[k].at # "idle" /\ Completer(k, at) /\ UNCHANGED row
       /\ at = "finalize" => final'

LEMMA VerifierMoves ==
  ASSUME TypeOK, [Next]_vars, ~doubt'
  PROVE  VerifierMove
<1> USE DEF VerifierMove, Commits, Miscommits, RollsBack
<1>1. ASSUME NEW c \in Creators, CreateSteps(c) PROVE VerifierMove
  BY <1>1 DEF CreateSteps, CreateIntent, FindIntent, SignUrl, SignFails,
     MarkSigningFailed, PersistUrl, SigningFailed, WithCapability, Open
<1>2. ASSUME NEW k \in Completers, CompleteSteps(k) PROVE VerifierMove
  <2>1. AfterFailure \in CompleterSteps \ {"finalize"}
    BY DEF AfterFailure, CompleterSteps
  <2>2. None \in Time /\ row.latestUrl \in Time
    BY DEF TypeOK, Row, Time, None
  <2>3. CASE CompleteExpired(k)
    BY <2>3 DEF CompleteExpired, Open
  <2>4. CASE ClaimVerification(k) \/ ClaimLegacyVerification(k)
    BY <2>2, <2>4 DEF ClaimVerification, ClaimLegacyVerification
  <2>5. CASE VerifySucceeds(k) \/ VerifyRejects(k) \/ VerifyBreaks(k)
    BY <2>1, <2>5 DEF VerifySucceeds, VerifyRejects, VerifyBreaks, CompleterSteps
  <2>6. CASE Finalize(k)
    BY <2>1, <2>6 DEF Finalize
  <2>7. CASE MarkFailed(k)
    BY <2>1, <2>7 DEF MarkFailed
  <2>8. CASE DeleteFinal(k)
    BY <2>8 DEF DeleteFinal, CompleterSteps
  <2>9. CASE ReleaseVerification(k) \/ MarkFinalCleanupPending(k)
    BY <2>9 DEF ReleaseVerification, MarkFinalCleanupPending, CompleterSteps
  <2> QED
    BY <1>2, <2>3, <2>4, <2>5, <2>6, <2>7, <2>8, <2>9 DEF CompleteSteps
<1>3. ASSUME NEW w \in Workers, CleanupSteps(w) PROVE VerifierMove
  BY <1>3 DEF CleanupSteps, StartJob, ClaimCleanup, DeleteObject, FinishCleanup,
     WorkerFails, JobStalls
<1>4. CASE RequestDies
  BY <1>4 DEF RequestDies
<1>5. CASE Tick \/ ClientPut \/ Cancel \/ Attach \/ Detach \/ DiscoverAndEnqueue \/ UNCHANGED vars
  BY <1>5 DEF Tick, ClientPut, Cancel, Attach, Detach, DiscoverAndEnqueue, vars, Open
<1> QED
  BY <1>1, <1>2, <1>3, <1>4, <1>5 DEF Next

\* Who may delete the final object.
LEMMA FinalMoves ==
  ASSUME [Next]_vars
  PROVE  \/ final' = final \/ final' = TRUE
         \/ \E k \in Completers : completer[k].at = "deleteFinal"
         \/ \E w \in Workers : worker[w].at = "delete" /\ worker[w].target # "staging"
<1> DEFINE Moves ==
         \/ final' = final \/ final' = TRUE
         \/ \E k \in Completers : completer[k].at = "deleteFinal"
         \/ \E w \in Workers : worker[w].at = "delete" /\ worker[w].target # "staging"
<1>1. ASSUME NEW c \in Creators, CreateSteps(c) PROVE final' = final
  BY <1>1 DEF CreateSteps, CreateIntent, FindIntent, SignUrl, SignFails,
     MarkSigningFailed, PersistUrl
<1>2. ASSUME NEW k \in Completers, CompleteSteps(k) PROVE Moves
  BY <1>2 DEF CompleteSteps, CompleteExpired, ClaimVerification,
     ClaimLegacyVerification, VerifySucceeds, VerifyRejects, VerifyBreaks, Finalize,
     MarkFailed, DeleteFinal, ReleaseVerification, MarkFinalCleanupPending
<1>3. ASSUME NEW w \in Workers, CleanupSteps(w) PROVE Moves
  BY <1>3 DEF CleanupSteps, StartJob, ClaimCleanup, DeleteObject, FinishCleanup,
     WorkerFails, JobStalls
<1>4. CASE \/ Tick \/ ClientPut \/ Cancel \/ RequestDies \/ Attach \/ Detach
           \/ DiscoverAndEnqueue \/ UNCHANGED vars
  BY <1>4 DEF Tick, ClientPut, Cancel, RequestDies, Attach, Detach,
     DiscoverAndEnqueue, vars
<1> QED
  BY <1>1, <1>2, <1>3, <1>4 DEF Next

\* A transaction of a cleanup worker leaves a row under verification alone, but
\* for the end of the recovery it was about.
LEMMA VerifyingStays ==
  ASSUME TypeOK, row.status = "VERIFYING", NEW t \in Targets, NEW now \in Nat
  PROVE  /\ ClaimedRow(t, now).status = "VERIFYING"
         /\ ClaimedRow(t, now).reason = row.reason
         /\ t # "finalization-recovery" \/ row.reason = "none" =>
              /\ FinishedRow(t, now).status = "VERIFYING"
              /\ FinishedRow(t, now).reason = row.reason
BY DEF ClaimedRow, FinishedRow, Targets, TypeOK, Row

LEMMA ReasonStays ==
  ASSUME TypeOK, ReasonInv, RowMove
  PROVE  ReasonInv'
<1> USE DEF ReasonInv, Open
<1>1. CASE UNCHANGED row
  BY <1>1
<1>2. ASSUME NEW r, Writes(r) PROVE ReasonInv'
  BY <1>2 DEF Writes, RowChecks, OpenCheck, LegacyCheck
<1>3. CASE \/ /\ row.status = "ABSENT"
              /\ row' = [AbsentRow EXCEPT !.status = "CREATED",
                                          !.expiresAt = clock + SessionTtl]
           \/ /\ row.status \in Open
              /\ row' = [row EXCEPT !.status = "CANCELLED",
                                    !.stagingEligible = Later(clock, row.latestUrl)]
           \/ row.status \in Open /\ row' = ExpiredRow
           \/ /\ row.status \in {"UPLOADING", "LEGACY"}
              /\ row' = [row EXCEPT !.status = "VERIFYING"]
  BY <1>3 DEF ExpiredRow, AbsentRow, TypeOK, Row
<1> QED
  BY <1>1, <1>2, <1>3 DEF RowMove

\* BullMQ hands a job to one worker at a time until a lock expires.
LEMMA JobsStayExclusive ==
  ASSUME TypeOK, JobsAreExclusive, [Next]_vars, ~doubt'
  PROVE  JobsAreExclusive'
<1> USE DEF JobsAreExclusive
<1>1. CASE UNCHANGED cleanup
  BY <1>1
<1>2. ASSUME NEW w \in Workers, CleanupSteps(w) PROVE JobsAreExclusive'
  <2> USE DEF TypeOK
  <2>1. ASSUME NEW t \in Targets, StartJob(w, t) PROVE JobsAreExclusive'
    BY <2>1 DEF StartJob
  <2>2. CASE \/ WorkerAt(w, "delete") /\ worker[w].at = "claim" /\ UNCHANGED job
             \/ WorkerAt(w, "finish") /\ worker[w].at = "delete" /\ UNCHANGED job
    <3>1. \A v \in Workers : /\ worker'[v].target = worker[v].target
                             /\ worker'[v].owns = worker[v].owns
                             /\ worker'[v].at = "idle" <=> worker[v].at = "idle"
      BY <2>2 DEF WorkerAt
    <3> QED
      BY <2>2, <3>1
  <2>3. ASSUME worker[w].at # "idle", WorkerEnds(w), NEW s, JobBecomes(w, s)
        PROVE  JobsAreExclusive'
    BY <2>3 DEF WorkerEnds, JobBecomes, IdleWorker
  <2>4. ~JobStalls(w)
    BY DEF JobStalls
  <2> QED
    BY <1>2, <2>1, <2>2, <2>3, <2>4 DEF CleanupSteps, ClaimCleanup, DeleteObject,
       FinishCleanup, WorkerFails, AttemptFails
<1>3. CASE DiscoverAndEnqueue
  BY <1>3 DEF DiscoverAndEnqueue, Enqueued, QueueAdd, FINISHED_JOB_STATES, TypeOK
<1> QED
  BY <1>1, <1>2, <1>3 DEF Next, vars, CreateSteps, CreateIntent, FindIntent, SignUrl,
     SignFails, MarkSigningFailed, PersistUrl, CompleteSteps, CompleteExpired,
     ClaimVerification, ClaimLegacyVerification, VerifySucceeds, VerifyRejects,
     VerifyBreaks, Finalize, MarkFailed, DeleteFinal, ReleaseVerification,
     MarkFinalCleanupPending, Tick, ClientPut, Cancel, RequestDies, Attach, Detach

LEMMA VerifierStaysAlone ==
  ASSUME TypeOK, FinalHeld, ObjectInv, ~doubt, [Next]_vars, ~doubt'
  PROVE  VerifierIsAlone'
<1>1. ReasonInv /\ VerifierIsAlone /\ RecoveryIsPending
  BY DEF ObjectInv
<1>2. ASSUME NEW k \in Completers, completer[k].at # "idle", NEW l \in Completers,
             completer[l].at = "finalize"
      PROVE  final'
  <2>1. row.status = "VERIFYING" /\ row.reason = "none" /\ final
    BY <1>1, <1>2 DEF VerifierIsAlone
  <2>2. \A m \in Completers : completer[m].at # "deleteFinal"
    BY <1>1, <1>2 DEF VerifierIsAlone
  <2>3. \A w \in Workers : worker[w].at = "delete" => worker[w].target = "staging"
    BY <1>1, <2>1 DEF RecoveryIsPending, FinalHeld, Held, TypeOK, Targets
  <2> QED
    BY <2>1, <2>2, <2>3, FinalMoves
<1>3. CASE /\ UNCHANGED completer
           /\ row.status = "VERIFYING" =>
                \/ UNCHANGED row
                \/ \E w \in Workers :
                     \/ row' = ClaimedRow(worker[w].target, worker[w].now)
                     \/ row' = FinishedRow(worker[w].target, worker[w].now)
  <2>1. \A w \in Workers : worker[w].target \in Targets /\ worker[w].now \in Nat
    BY DEF TypeOK
  <2>2. ASSUME NEW k \in Completers, completer[k].at # "idle"
        PROVE  row'.status = "VERIFYING" /\ row'.reason = "none"
    BY <1>1, <1>3, <2>1, <2>2, VerifyingStays DEF VerifierIsAlone
  <2> QED
    BY <1>1, <1>2, <1>3, <2>2 DEF VerifierIsAlone
<1>4. ASSUME NEW k \in Completers, NEW u \in Time,
             completer[k].at = "idle", row.status \in {"UPLOADING", "LEGACY"},
             row' = [row EXCEPT !.status = "VERIFYING"],
             completer' = [completer EXCEPT ![k] = [at |-> "verify", latest |-> u]]
      PROVE  VerifierIsAlone'
  <2>1. \A l \in Completers : completer[l].at = "idle"
    BY <1>1, <1>4 DEF VerifierIsAlone
  <2>2. row'.status = "VERIFYING" /\ row'.reason = "none"
    BY <1>1, <1>4 DEF ReasonInv, Open, TypeOK, Row
  <2> QED
    BY <1>4, <2>1, <2>2 DEF VerifierIsAlone, TypeOK
<1>5. ASSUME NEW k \in Completers, completer[k].at # "idle", Completer(k, "idle")
      PROVE  VerifierIsAlone'
  <2>1. \A l \in Completers : completer'[l].at = "idle"
    BY <1>1, <1>5 DEF VerifierIsAlone, Completer, TypeOK
  <2> QED
    BY <2>1 DEF VerifierIsAlone
<1>6. ASSUME NEW k \in Completers, NEW at \in CompleterSteps, completer[k].at # "idle",
             Completer(k, at), UNCHANGED row, at = "finalize" => final'
      PROVE  VerifierIsAlone'
  BY <1>1, <1>6 DEF VerifierIsAlone, Completer, TypeOK
<1> QED
  BY <1>3, <1>4, <1>5, <1>6, VerifierMoves DEF VerifierMove

\* How a step brings a worker past the claim of a recovery, or keeps it there.
LEMMA RecoveryMoves ==
  ASSUME TypeOK, [Next]_vars, NEW v \in Workers,
         (worker[v].at \in {"delete", "finish"})',
         (worker[v].target = "finalization-recovery")'
  PROVE  \/ /\ worker[v].at \in {"delete", "finish"}
            /\ worker[v].target = "finalization-recovery"
            /\ \A w \in Workers : FinishCleanup(w) => w # v
         \/ /\ Claimable("finalization-recovery", worker[v].now)
            /\ row' = ClaimedRow("finalization-recovery", worker[v].now)
<1>1. CASE worker' = worker
  <2>1. \A w \in Workers : FinishCleanup(w) => worker'[w].at # worker[w].at
    BY DEF FinishCleanup, WorkerEnds, AttemptFails, IdleWorker, TypeOK
  <2> QED
    BY <1>1, <2>1
<1>2. ASSUME NEW w \in Workers, CleanupSteps(w), w # v
      PROVE  worker'[v] = worker[v] /\ ~FinishCleanup(v)
  <2>1. worker'[v] = worker[v]
    BY <1>2, WorkerMoves DEF WorkerEnds, WorkerAt, TypeOK
  <2>2. FinishCleanup(v) => worker'[v].at # worker[v].at
    BY DEF FinishCleanup, WorkerEnds, AttemptFails, IdleWorker, TypeOK
  <2> QED
    BY <2>1, <2>2
<1>3. CASE CleanupSteps(v)
  BY <1>3 DEF CleanupSteps, StartJob, ClaimCleanup, DeleteObject, FinishCleanup,
     WorkerFails, JobStalls, AttemptFails, WorkerEnds, WorkerAt, IdleWorker, Commits, TypeOK
<1>4. worker' = worker \/ \E w \in Workers : CleanupSteps(w)
  BY DEF Next, vars, CreateSteps, CreateIntent, FindIntent, SignUrl, SignFails,
     MarkSigningFailed, PersistUrl, CompleteSteps, CompleteExpired, ClaimVerification,
     ClaimLegacyVerification, VerifySucceeds, VerifyRejects, VerifyBreaks, Finalize,
     MarkFailed, DeleteFinal, ReleaseVerification, MarkFinalCleanupPending, Tick,
     ClientPut, Cancel, RequestDies, Attach, Detach, DiscoverAndEnqueue
<1> QED
  BY <1>1, <1>2, <1>3, <1>4

\* Who may write a row whose recovery is pending.
LEMMA PendingMoves ==
  ASSUME TypeOK, VerifierIsAlone, [Next]_vars,
         row.status = "VERIFYING", row.reason = "finalization_cleanup_pending"
  PROVE  \/ UNCHANGED row
         \/ \E w \in Workers : row' = ClaimedRow(worker[w].target, worker[w].now)
         \/ \E w \in Workers : /\ FinishCleanup(w) /\ worker[w].at = "finish"
                               /\ row' = FinishedRow(worker[w].target, worker[w].now)
<1> DEFINE Moves ==
         \/ UNCHANGED row
         \/ \E w \in Workers : row' = ClaimedRow(worker[w].target, worker[w].now)
         \/ \E w \in Workers : /\ FinishCleanup(w) /\ worker[w].at = "finish"
                               /\ row' = FinishedRow(worker[w].target, worker[w].now)
<1> USE DEF Commits, Miscommits, RollsBack
<1>1. ASSUME NEW c \in Creators, CreateSteps(c) PROVE UNCHANGED row
  BY <1>1 DEF CreateSteps, CreateIntent, FindIntent, SignUrl, SignFails,
     MarkSigningFailed, PersistUrl, SigningFailed, WithCapability, Open
<1>2. ASSUME NEW k \in Completers, CompleteSteps(k) PROVE UNCHANGED row
  <2>1. completer[k].at = "idle"
    BY DEF VerifierIsAlone
  <2> QED
    BY <1>2, <2>1 DEF CompleteSteps, CompleteExpired, ClaimVerification,
       ClaimLegacyVerification, VerifySucceeds, VerifyRejects, VerifyBreaks, Finalize,
       MarkFailed, DeleteFinal, ReleaseVerification, MarkFinalCleanupPending, Open
<1>3. ASSUME NEW w \in Workers, CleanupSteps(w) PROVE Moves
  BY <1>3 DEF CleanupSteps, StartJob, ClaimCleanup, DeleteObject, FinishCleanup,
     WorkerFails, JobStalls
<1>4. CASE \/ Tick \/ ClientPut \/ Cancel \/ RequestDies \/ Attach \/ Detach
           \/ DiscoverAndEnqueue \/ UNCHANGED vars
  BY <1>4 DEF Tick, ClientPut, Cancel, RequestDies, Attach, Detach,
     DiscoverAndEnqueue, vars, Open
<1> QED
  BY <1>1, <1>2, <1>3, <1>4 DEF Next

LEMMA RecoveryStaysPending ==
  ASSUME TypeOK, ObjectInv, ~doubt, [Next]_vars
  PROVE  RecoveryIsPending'
<1> SUFFICES ASSUME NEW v \in Workers, (worker[v].at \in {"delete", "finish"})',
                    (worker[v].target = "finalization-recovery")'
             PROVE  row'.status = "VERIFYING" /\ row'.reason = "finalization_cleanup_pending"
  BY DEF RecoveryIsPending
<1>1. JobsAreExclusive /\ VerifierIsAlone /\ RecoveryIsPending
  BY DEF ObjectInv
<1>2. \A w \in Workers : worker[w].target \in Targets /\ worker[w].now \in Nat
  BY DEF TypeOK
<1>3. CASE /\ Claimable("finalization-recovery", worker[v].now)
           /\ row' = ClaimedRow("finalization-recovery", worker[v].now)
  BY <1>2, <1>3, VerifyingStays DEF Claimable, Targets
<1>4. CASE /\ worker[v].at \in {"delete", "finish"}
           /\ worker[v].target = "finalization-recovery"
           /\ \A w \in Workers : FinishCleanup(w) => w # v
  <2>1. row.status = "VERIFYING" /\ row.reason = "finalization_cleanup_pending"
    BY <1>1, <1>4 DEF RecoveryIsPending
  <2>2. ASSUME NEW w \in Workers, FinishCleanup(w), worker[w].at = "finish"
        PROVE  worker[w].target # "finalization-recovery"
    BY <1>1, <1>4, <2>2 DEF JobsAreExclusive
  <2> QED
    BY <1>1, <1>2, <2>1, <2>2, PendingMoves, VerifyingStays
<1> QED
  BY <1>3, <1>4, RecoveryMoves

\* The only way to become ready is the commit of a request that stored the object.
LEMMA ReadyMoves ==
  ASSUME TypeOK, RowMove, row'.status = "READY", row'.finalClaimed = None
  PROVE  \/ row.status = "READY" /\ row.finalClaimed = None
         \/ \E k \in Completers : completer[k].at = "finalize"
<1> DEFINE Before == \/ row.status = "READY" /\ row.finalClaimed = None
                     \/ \E k \in Completers : completer[k].at = "finalize"
<1>1. CASE UNCHANGED row
  BY <1>1
<1>2. CASE \/ /\ row.status = "ABSENT"
              /\ row' = [AbsentRow EXCEPT !.status = "CREATED",
                                          !.expiresAt = clock + SessionTtl]
           \/ /\ row.status \in Open
              /\ row' = [row EXCEPT !.status = "CANCELLED",
                                    !.stagingEligible = Later(clock, row.latestUrl)]
           \/ row.status \in Open /\ row' = ExpiredRow
           \/ /\ row.status \in {"UPLOADING", "LEGACY"}
              /\ row' = [row EXCEPT !.status = "VERIFYING"]
  BY <1>2 DEF ExpiredRow, AbsentRow, TypeOK, Row
<1>3. CASE Writes(SigningFailed) \/ Writes(FailedRow) \/ Writes(ReleasedRow) \/ Writes(PendingRow)
  BY <1>3 DEF Writes, SigningFailed, FailedRow, ReleasedRow, PendingRow, TypeOK, Row
<1>4. ASSUME NEW url, Writes(WithCapability(url)) PROVE Before
  BY <1>4 DEF Writes, WithCapability, Open, TypeOK, Row
<1>5. ASSUME NEW w \in Workers, Claimable(worker[w].target, worker[w].now),
             Writes(ClaimedRow(worker[w].target, worker[w].now))
      PROVE  Before
  <2>1. worker[w].now # None
    BY DEF TypeOK, None
  <2> QED
    BY <1>5, <2>1 DEF Writes, ClaimedRow, TypeOK, Row
<1>6. ASSUME NEW w \in Workers, Writes(FinishedRow(worker[w].target, worker[w].now))
      PROVE  Before
  <2>1. worker[w].target \in Targets /\ worker[w].now \in Nat
    BY DEF TypeOK
  <2> QED
    BY <1>6, <2>1, FinishedStatus DEF Writes
<1> QED
  BY <1>1, <1>2, <1>3, <1>4, <1>5, <1>6 DEF RowMove

\* A request that fails after verification, and the recovery of its remains,
\* delete only an object no READY session has: as long as no worker outlives its
\* job and every commit is answered, a stored file is there until it is claimed.
THEOREM ReadyObjectsExist == Spec => []ReadyHasItsObject
<1>1. Init => ObjectInv
  <2> SUFFICES ASSUME Init PROVE ObjectInv
    OBVIOUS
  <2>1. row.status \in {"ABSENT", "LEGACY"} /\ row.reason = "none"
    <3>1. row \in {AbsentRow, LegacyRow}
      BY DEF Init
    <3> QED
      BY <3>1, InitialStatus
  <2>2. /\ \A k \in Completers : completer[k].at = "idle"
        /\ \A w \in Workers : worker[w].at = "idle"
    BY DEF Init, IdleCompleter, IdleWorker
  <2> QED
    BY <2>1, <2>2 DEF ObjectInv, ReasonInv, JobsAreExclusive, VerifierIsAlone,
       RecoveryIsPending, ReadyHasItsObject
<1>2. TypeOK /\ FinalHeld /\ ObjectInv /\ [Next]_vars => ObjectInv'
  <2> SUFFICES ASSUME TypeOK, FinalHeld, ObjectInv, [Next]_vars PROVE ObjectInv'
    OBVIOUS
  <2>1. ReasonInv'
    BY ReasonStays, RowMoves DEF ObjectInv
  <2>2. ~doubt' => ~doubt
    BY HistoryMoves, ZenonT(20)
  <2>3. ~doubt' => (JobsAreExclusive /\ VerifierIsAlone /\ RecoveryIsPending)'
    BY <2>2, JobsStayExclusive, VerifierStaysAlone, RecoveryStaysPending DEF ObjectInv
  <2>4. ReadyHasItsObject'
    <3> SUFFICES ASSUME row'.status = "READY", row'.finalClaimed = None, ~doubt'
                 PROVE  final'
      BY DEF ReadyHasItsObject
    <3>1. VerifierIsAlone /\ RecoveryIsPending /\ ReadyHasItsObject /\ ~doubt
      BY <2>2 DEF ObjectInv
    <3>2. CASE row.status = "READY" /\ row.finalClaimed = None
      <4>1. final
        BY <3>1, <3>2 DEF ReadyHasItsObject
      <4>2. \A k \in Completers : completer[k].at # "deleteFinal"
        BY <3>1, <3>2 DEF VerifierIsAlone
      <4>3. \A w \in Workers : worker[w].at = "delete" => worker[w].target = "staging"
        BY <3>1, <3>2 DEF RecoveryIsPending, FinalHeld, Held, TypeOK, Targets
      <4> QED
        BY <4>1, <4>2, <4>3, FinalMoves
    <3>3. ASSUME NEW k \in Completers, completer[k].at = "finalize" PROVE final'
      <4>1. row.status = "VERIFYING" /\ row.reason = "none" /\ final
        BY <3>1, <3>3 DEF VerifierIsAlone
      <4>2. \A l \in Completers : completer[l].at # "deleteFinal"
        BY <3>1, <3>3 DEF VerifierIsAlone
      <4>3. \A w \in Workers : worker[w].at = "delete" => worker[w].target = "staging"
        BY <3>1, <4>1 DEF RecoveryIsPending, FinalHeld, Held, TypeOK, Targets
      <4> QED
        BY <4>1, <4>2, <4>3, FinalMoves
    <3> QED
      BY <3>2, <3>3, ReadyMoves, RowMoves
  <2> QED
    BY <2>1, <2>3, <2>4 DEF ObjectInv
<1>3. ObjectInv => ReadyHasItsObject
  BY DEF ObjectInv
<1> QED
  BY <1>1, <1>2, <1>3, TypeCorrect, FinalHeldInvariant, PTL DEF Spec

\* The retention rule of the upload contract, and the two things that can break
\* it: content keeps the object of every READY file it uses, unless a worker has
\* outlived its job lock or a commit has gone unanswered.
THEOREM ReferencedObjectsAreRetained ==
  Spec => [](~doubt => ReferencedObjectRetained)
<1>1. ReadyHasItsObject /\ ReferencedIsKept => (~doubt => ReferencedObjectRetained)
  BY DEF ReadyHasItsObject, ReferencedIsKept, ReferencedObjectRetained
<1> QED
  BY <1>1, ReadyObjectsExist, ReferencesAreKept, PTL

=============================================================================
