-------------------------- MODULE DismissalRequests --------------------------
(***************************************************************************)
(* The pickup requests of one school: parents create and cancel them, staff *)
(* call them, move them on and hand the child over, and a job that runs     *)
(* each minute expires the ones that waited too long.                       *)
(*                                                                         *)
(* Every handler reads the request, checks its status, and writes it by its *)
(* id alone in a later transaction; only the expiry re-reads the row under  *)
(* a lock.  A database transaction is one action, what a handler decides    *)
(* from an earlier read is kept in the handler's own state in between.      *)
(*                                                                         *)
(* Left out: the checks of a handler that can only refuse it and read       *)
(* nothing this model changes (school, window, geofence, ownership, staff   *)
(* visibility, pickup code and recipient, the gate of an idempotent retry); *)
(* the escalation, which appends an event and leaves the request alone; the *)
(* audit records; and the notifications, which nothing here reads: they are *)
(* made in the transaction of the event, for the parent only if the account *)
(* is active at that moment, for the staff by their assignments.            *)
(***************************************************************************)
EXTENDS Integers, FiniteSets

CONSTANTS
  Calls,      \* the parents' POST calls; a request is named by the call that made it
  Students,
  Keys,       \* client request ids, each with the parent that uses it
  NoKey,      \* a call without a client request id
  Actors,     \* staff members and parents who work on existing requests
  Expirers,   \* expiry workers
  Threshold,  \* expiryThresholdMinutes
  BatchSize,  \* candidates per expiry run
  Stuck,      \* the requests whose expiry transaction fails each time
  MaxClock, MaxFaults   \* bounds of the model

ASSUME ThresholdAssumption == Threshold \in Nat \ {0} /\ BatchSize \in Nat \ {0}
ASSUME BoundsAssumption == MaxClock \in Nat /\ MaxFaults \in Nat
ASSUME StuckAssumption == Stuck \subseteq Calls
ASSUME NoKeyAssumption == NoKey \notin Keys

VARIABLES
  status,      \* the status of each request, "none" before it is inserted
  events,      \* the milestones that the events of each request record
  requestedAt,
  call,        \* the create calls
  op,          \* what each actor has read and is about to write
  expirer,     \* the candidates each expiry run has left, and its time
  clock, faults

vars == <<status, events, requestedAt, call, op, expirer, clock, faults>>

-----------------------------------------------------------------------------
Active == {"REQUESTED", "QUEUED", "CALLED", "MOVING", "AT_GATE", "READY"}
Terminal == {"HANDED_OVER", "CANCELLED", "EXPIRED"}
Milestones == {"CALLED", "AT_GATE", "READY", "HANDED_OVER"}

ALLOWED_TRANSITIONS ==
  {<<"REQUESTED", "QUEUED">>, <<"REQUESTED", "CALLED">>, <<"QUEUED", "CALLED">>,
   <<"CALLED", "MOVING">>, <<"CALLED", "AT_GATE">>, <<"MOVING", "AT_GATE">>,
   <<"AT_GATE", "READY">>}

CallStates == {"new", "looked_up", "checked", "conflict", "refused", "answered"}
Call == [pc : CallStates, student : Students, key : Keys \cup {NoKey},
         reply : Calls]

Idle == [kind |-> "idle"]
Op == {Idle} \cup [kind : {"status"}, req : Calls, to : Active]
             \cup [kind : {"deliver", "cancel"}, req : Calls]

Resting == [left |-> {}, now |-> 0]
Expirer == [left : SUBSET Calls, now : Nat]

\* The partial unique index dismissal_requests_one_active_per_student lets
\* request c of student s be active.
MayBeActive(c, s) ==
  \A d \in Calls \ {c} : status[d] \in Active => call[d].student # s

Exists(c) == status[c] # "none"

\* The requests findRequestByClientRequestId can find for key k.
WithKey(k) == {c \in Calls : k # NoKey /\ Exists(c) /\ call[c].key = k}

-----------------------------------------------------------------------------
Init ==
  /\ status = [c \in Calls |-> "none"]
  /\ events = [c \in Calls |-> {}]
  /\ requestedAt = [c \in Calls |-> 0]
  /\ \E s \in [Calls -> Students], k \in [Calls -> Keys \cup {NoKey}] :
       call = [c \in Calls |->
                 [pc |-> "new", student |-> s[c], key |-> k[c], reply |-> c]]
  /\ op = [a \in Actors |-> Idle]
  /\ expirer = [e \in Expirers |-> Resting]
  /\ clock = 0
  /\ faults = 0

-----------------------------------------------------------------------------
(***************************************************************************)
(* POST smart-pickup requests.                                              *)
(***************************************************************************)
\* The new status of a request and the event that records it.  Only events on
\* the way to a handover are kept.
Written(c, to) ==
  /\ status' = [status EXCEPT ![c] = to]
  /\ events' = [events EXCEPT ![c] = @ \cup ({to} \cap Milestones)]

CallMoves(c, pc) == call' = [call EXCEPT ![c].pc = pc]

\* Mutant: a taken key is answered with its request, whoever the child is.
AnswerWithAny(c, d) == call' = [call EXCEPT ![c].pc = "answered", ![c].reply = d]

\* The answer to a key that is taken: the same child gets the request back,
\* another one an idempotency conflict.
AnswerWith(c, d) ==
  IF call[d].student = call[c].student
    THEN call' = [call EXCEPT ![c].pc = "answered", ![c].reply = d]
    ELSE CallMoves(c, "refused")

ResolveIdempotentRetry(c) ==
  /\ call[c].pc = "new"
  /\ \/ \E d \in WithKey(call[c].key) : AnswerWith(c, d)
     \/ WithKey(call[c].key) = {} /\ CallMoves(c, "looked_up")
  /\ UNCHANGED <<status, events, requestedAt, op, expirer, clock, faults>>

\* findActiveRequestForStudent, then the insert in a later transaction.
CheckDuplicate(c) ==
  /\ call[c].pc = "looked_up"
  /\ CallMoves(c, IF MayBeActive(c, call[c].student) THEN "checked" ELSE "refused")
  /\ UNCHANGED <<status, events, requestedAt, op, expirer, clock, faults>>

\* Mutant: no unique index on the client request id.
CreateWithoutKeyIndex(c) ==
  /\ call[c].pc = "checked"
  /\ clock + Threshold <= MaxClock
  /\ MayBeActive(c, call[c].student)
  /\ Written(c, "REQUESTED")
  /\ requestedAt' = [requestedAt EXCEPT ![c] = clock]
  /\ call' = [call EXCEPT ![c].pc = "answered", ![c].reply = c]
  /\ UNCHANGED <<op, expirer, clock, faults>>

\* The insert meets both unique indexes.  MaxClock leaves every request the
\* time to expire.
CreateRequestWithEvent(c) ==
  /\ call[c].pc = "checked"
  /\ clock + Threshold <= MaxClock
  /\ MayBeActive(c, call[c].student)
  /\ WithKey(call[c].key) = {}
  /\ Written(c, "REQUESTED")
  /\ requestedAt' = [requestedAt EXCEPT ![c] = clock]
  /\ call' = [call EXCEPT ![c].pc = "answered", ![c].reply = c]
  /\ UNCHANGED <<op, expirer, clock, faults>>

InsertConflicts(c) ==
  /\ call[c].pc = "checked"
  /\ \/ ~MayBeActive(c, call[c].student)
     \/ WithKey(call[c].key) # {}
  /\ CallMoves(c, "conflict")
  /\ UNCHANGED <<status, events, requestedAt, op, expirer, clock, faults>>

ResolveUniqueConflict(c) ==
  /\ call[c].pc = "conflict"
  /\ \/ \E d \in WithKey(call[c].key) : AnswerWith(c, d)
     \/ WithKey(call[c].key) = {} /\ CallMoves(c, "refused")
  /\ UNCHANGED <<status, events, requestedAt, op, expirer, clock, faults>>

-----------------------------------------------------------------------------
(***************************************************************************)
(* Reads of a request, and the writes decided from them.                    *)
(***************************************************************************)
Decide(a, decision) ==
  /\ op[a] = Idle
  /\ op' = [op EXCEPT ![a] = decision]
  /\ UNCHANGED <<status, events, requestedAt, call, expirer, clock, faults>>

\* PATCH status.  A request for the status it has changes nothing.
ReadForStatus(a, c, to) ==
  /\ <<status[c], to>> \in ALLOWED_TRANSITIONS
  /\ Decide(a, [kind |-> "status", req |-> c, to |-> to])

\* Confirming the arrival of a waiting student writes AT_GATE the same way.
ReadForArrival(a, c) ==
  /\ status[c] \in {"CALLED", "MOVING"}
  /\ Decide(a, [kind |-> "status", req |-> c, to |-> "AT_GATE"])

\* Mutant: a child at the gate may be handed over before it is called ready.
ReadForEarlyDelivery(a, c) ==
  /\ status[c] \in {"AT_GATE", "READY"}
  /\ Decide(a, [kind |-> "deliver", req |-> c])

ReadForDelivery(a, c) ==
  /\ status[c] = "READY"
  /\ Decide(a, [kind |-> "deliver", req |-> c])

\* Mutant: a cancellation is a change of status like the others.
ReadForCancelAsStatus(a, c) ==
  /\ status[c] \in {"REQUESTED", "QUEUED"}
  /\ Decide(a, [kind |-> "status", req |-> c, to |-> "CANCELLED"])

ReadForCancel(a, c) ==
  /\ status[c] \in {"REQUESTED", "QUEUED"}
  /\ Decide(a, [kind |-> "cancel", req |-> c])

Finished(a) ==
  /\ op' = [op EXCEPT ![a] = Idle]
  /\ UNCHANGED <<requestedAt, call, expirer, clock, faults>>

\* Mutant: the index covers the creation of requests only.
UpdateStatusUnchecked(a) ==
  /\ op[a].kind = "status"
  /\ Written(op[a].req, op[a].to)
  /\ Finished(a)

\* The update names the request by its id, whatever its status has become.
\* Only the unique index can refuse it, and the transaction then rolls back.
UpdateStatusWithEvent(a) ==
  /\ op[a].kind = "status"
  /\ LET c == op[a].req
     IN IF MayBeActive(c, call[c].student)
          THEN Written(c, op[a].to)
          ELSE UNCHANGED <<status, events>>
  /\ Finished(a)

DeliverWithEventAndAudit(a) ==
  /\ op[a].kind = "deliver"
  /\ Written(op[a].req, "HANDED_OVER")
  /\ Finished(a)

CancelWithEventAndAudit(a) ==
  /\ op[a].kind = "cancel"
  /\ Written(op[a].req, "CANCELLED")
  /\ Finished(a)

-----------------------------------------------------------------------------
(***************************************************************************)
(* The expiry job.                                                          *)
(***************************************************************************)
Expired(c, now) == status[c] \in Active /\ requestedAt[c] + Threshold <= now

\* The oldest expired requests, at most a batch of them.
ListExpiredCandidates(e) ==
  LET candidates == {c \in Calls : Expired(c, clock)}
  IN /\ expirer[e].left = {}
     /\ candidates # {}
     /\ \E batch \in SUBSET candidates :
          /\ \/ Cardinality(batch) = BatchSize
             \/ batch = candidates /\ Cardinality(batch) < BatchSize
          /\ \A c \in batch, d \in candidates \ batch : requestedAt[c] <= requestedAt[d]
          /\ expirer' = [expirer EXCEPT ![e] = [left |-> batch, now |-> clock]]
     /\ UNCHANGED <<status, events, requestedAt, call, op, clock, faults>>

\* The loop has come to candidate c: it takes the oldest first.
Tries(e, c) ==
  /\ c \in expirer[e].left
  /\ \A d \in expirer[e].left : requestedAt[c] <= requestedAt[d]

\* The run goes on without c; nothing remembers the time of a run that is over.
Takes(e, c) ==
  LET rest == expirer[e].left \ {c}
  IN expirer' = [expirer EXCEPT ![e] = IF rest = {} THEN Resting
                                       ELSE [left |-> rest, now |-> expirer[e].now]]

\* Mutant: the candidate is not read again under the lock.
ExpireUnchecked(e, c) ==
  /\ c \notin Stuck
  /\ Tries(e, c)
  /\ Takes(e, c)
  /\ Written(c, "EXPIRED")
  /\ UNCHANGED <<requestedAt, call, op, clock, faults>>

\* One candidate: re-read FOR UPDATE, and skipped when it has changed.
ExpireCandidate(e, c) ==
  /\ c \notin Stuck
  /\ Tries(e, c)
  /\ Takes(e, c)
  /\ IF Expired(c, expirer[e].now)
       THEN Written(c, "EXPIRED")
       ELSE UNCHANGED <<status, events>>
  /\ UNCHANGED <<requestedAt, call, op, clock, faults>>

\* Mutant: the exception of one candidate ends the run.
ExpireFailsAndEndsRun(e, c) ==
  /\ Tries(e, c)
  /\ expirer' = [expirer EXCEPT ![e] = Resting]
  /\ IF c \in Stuck THEN UNCHANGED faults
                    ELSE faults < MaxFaults /\ faults' = faults + 1
  /\ UNCHANGED <<status, events, requestedAt, call, op, clock>>

\* A transaction that fails, now and then or each time, is counted and the
\* loop goes on to the next candidate.
ExpireFails(e, c) ==
  /\ Tries(e, c)
  /\ Takes(e, c)
  /\ IF c \in Stuck THEN UNCHANGED faults
                    ELSE faults < MaxFaults /\ faults' = faults + 1
  /\ UNCHANGED <<status, events, requestedAt, call, op, clock>>

\* The worker dies with its run half done.
ExpirerDies(e) ==
  /\ expirer[e].left # {}
  /\ faults < MaxFaults
  /\ expirer' = [expirer EXCEPT ![e] = Resting]
  /\ faults' = faults + 1
  /\ UNCHANGED <<status, events, requestedAt, call, op, clock>>

Tick ==
  /\ clock < MaxClock
  /\ clock' = clock + 1
  /\ UNCHANGED <<status, events, requestedAt, call, op, expirer, faults>>

-----------------------------------------------------------------------------
CallStep(c) == \/ ResolveIdempotentRetry(c)
               \/ CheckDuplicate(c)
               \/ CreateRequestWithEvent(c)
               \/ InsertConflicts(c)
               \/ ResolveUniqueConflict(c)

Read(a) == \E c \in Calls : \/ \E to \in Active : ReadForStatus(a, c, to)
                            \/ ReadForArrival(a, c)
                            \/ ReadForDelivery(a, c)
                            \/ ReadForCancel(a, c)

Write(a) == \/ UpdateStatusWithEvent(a)
            \/ DeliverWithEventAndAudit(a)
            \/ CancelWithEventAndAudit(a)

ExpirerStep(e) == \/ ListExpiredCandidates(e)
                  \/ \E c \in Calls : ExpireCandidate(e, c)
                  \/ \E c \in Stuck : ExpireFails(e, c)

ExpirerFails(e) == \/ \E c \in Calls \ Stuck : ExpireFails(e, c)
                   \/ ExpirerDies(e)

Next == \/ \E c \in Calls : CallStep(c)
        \/ \E a \in Actors : Read(a) \/ Write(a)
        \/ \E e \in Expirers : ExpirerStep(e) \/ ExpirerFails(e)
        \/ Tick

Spec == Init /\ [][Next]_vars

\* The repeat job runs each minute and its worker takes its candidates one
\* after the other; a handler that has read goes on to its write.  Nobody has
\* to begin anything.
FairSpec == /\ Spec
            /\ WF_vars(Tick)
            /\ \A e \in Expirers : WF_vars(ExpirerStep(e))
            /\ \A a \in Actors : WF_vars(Write(a))

-----------------------------------------------------------------------------
TypeOK ==
  /\ status \in [Calls -> Active \cup Terminal \cup {"none"}]
  /\ events \in [Calls -> SUBSET Milestones]
  /\ requestedAt \in [Calls -> Nat]
  /\ call \in [Calls -> Call]
  /\ op \in [Actors -> Op]
  /\ expirer \in [Expirers -> Expirer]
  /\ clock \in Nat
  /\ faults \in 0..MaxFaults

\* A student has at most one active request, although two creations may pass
\* the duplicate check together and a late status write may bring back a
\* request that had ended while its successor was being made.
OneActivePerStudent ==
  \A c, d \in Calls :
    /\ c # d
    /\ status[c] \in Active
    /\ status[d] \in Active
    => call[c].student # call[d].student

\* A create call that is answered with a request is answered with one for its
\* own child, made by itself or under its own client request id, however its
\* retries race.
AnswerIsTheCallersOwn ==
  \A c \in Calls :
    call[c].pc = "answered" =>
      LET d == call[c].reply
      IN /\ Exists(d)
         /\ call[d].student = call[c].student
         /\ d = c \/ (call[c].key # NoKey /\ call[d].key = call[c].key)

\* A client request id makes one request at most.
OneRequestPerKey ==
  \A c, d \in Calls :
    Exists(c) /\ Exists(d) /\ call[c].key = call[d].key /\ call[c].key # NoKey => c = d

\* No child is handed over unless the request's events record that the child
\* was called, came to the gate and was ready, although every one of these
\* statuses may be written over one that has moved on, or that had ended.
HandoverIsOnRecord ==
  \A c \in Calls :
    "HANDED_OVER" \in events[c] => {"CALLED", "AT_GATE", "READY"} \subseteq events[c]

\* The expiry job ends active requests only: it never takes a handover or a
\* cancellation back, although it chose its candidates earlier.
ExpiryEndsActiveOnly ==
  [][\A c \in Calls : status[c] \in Terminal => (status'[c] = "EXPIRED" => status[c] = "EXPIRED")]_vars

\* A request does not stay active for ever: the expiry job ends what nobody
\* else ends, in spite of workers that die, of writes that bring a request back
\* and of transactions that fail.  Even requests whose expiry fails each time,
\* and which head every list, do not keep the others from ending as long as a
\* batch has room beside them.
EveryRequestEnds ==
  \A c \in Calls \ Stuck :
    status[c] \in Active /\ Cardinality(Stuck) < BatchSize ~> status[c] \in Terminal

\* What the contract says of the terminal statuses.
TerminalIsFinal ==
  [][\A c \in Calls : status[c] \in Terminal => status'[c] = status[c]]_vars

=============================================================================
