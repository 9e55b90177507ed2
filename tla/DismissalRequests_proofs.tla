----------------------- MODULE DismissalRequests_proofs -----------------------
(***************************************************************************)
(* For any number of calls, students, keys, staff members and expiry        *)
(* workers: the unique indexes keep what the handlers' early checks cannot,  *)
(* the re-read under the lock keeps the expiry away from ended requests, and *)
(* an ended request is final for every handler that reads it later.          *)
(***************************************************************************)
EXTENDS DismissalRequests, TLAPS

USE DEF Written, Tries

\* What a handler keeps between its read and its write.
LEMMA OpFields ==
  ASSUME NEW o \in Op
  PROVE  /\ o.kind \in {"idle", "status", "deliver", "cancel"}
         /\ o.kind = "status" => o.req \in Calls /\ o.to \in Active
         /\ o.kind \in {"deliver", "cancel"} => o.req \in Calls
BY DEF Op, Idle

\* Type correctness of every variable, the base of the other proofs.
THEOREM TypeCorrect == Spec => []TypeOK
<1>1. Init => TypeOK
  <2> SUFFICES ASSUME Init PROVE TypeOK
    OBVIOUS
  <2>1. call \in [Calls -> Call]
    BY DEF Init, Call, CallStates
  <2>2. op \in [Actors -> Op] /\ expirer \in [Expirers -> Expirer]
    BY DEF Init, Op, Idle, Expirer, Resting
  <2> QED
    BY <2>1, <2>2, BoundsAssumption DEF Init, TypeOK, Milestones
<1>2. TypeOK /\ [Next]_vars => TypeOK'
  <2> SUFFICES ASSUME TypeOK, [Next]_vars PROVE TypeOK'
    OBVIOUS
  <2> USE DEF TypeOK
  <2>1. ASSUME NEW c \in Calls, CallStep(c) PROVE TypeOK'
    <3>1. call' \in [Calls -> Call]
      BY <2>1 DEF CallStep, ResolveIdempotentRetry, CheckDuplicate,
         CreateRequestWithEvent, InsertConflicts, ResolveUniqueConflict, AnswerWith,
         CallMoves, WithKey, Call, CallStates
    <3>2. /\ status' \in [Calls -> Active \cup Terminal \cup {"none"}]
          /\ requestedAt' \in [Calls -> Nat]
      BY <2>1 DEF CallStep, ResolveIdempotentRetry, CheckDuplicate,
         CreateRequestWithEvent, InsertConflicts, ResolveUniqueConflict, Active
    <3> QED
      BY <2>1, <3>1, <3>2 DEF CallStep, ResolveIdempotentRetry, CheckDuplicate,
         CreateRequestWithEvent, InsertConflicts, ResolveUniqueConflict
  <2>2. ASSUME NEW a \in Actors, Read(a) PROVE TypeOK'
    BY <2>2 DEF Read, ReadForStatus, ReadForArrival, ReadForDelivery,
       ReadForCancel, Decide, Op, Active
  <2>3. ASSUME NEW a \in Actors, UpdateStatusWithEvent(a) PROVE TypeOK'
    <3>1. op[a].req \in Calls /\ op[a].to \in Active
      BY <2>3, OpFields DEF UpdateStatusWithEvent
    <3>2. /\ status' \in [Calls -> Active \cup Terminal \cup {"none"}]
          /\ events' \in [Calls -> SUBSET Milestones]
      BY <2>3, <3>1 DEF UpdateStatusWithEvent, Milestones
    <3> QED
      BY <2>3, <3>2 DEF UpdateStatusWithEvent, Finished, Op
  <2>4. ASSUME NEW a \in Actors, DeliverWithEventAndAudit(a) \/ CancelWithEventAndAudit(a)
        PROVE TypeOK'
    BY <2>4 DEF DeliverWithEventAndAudit, CancelWithEventAndAudit, Finished, Op,
       Terminal, Milestones
  <2>5. ASSUME NEW e \in Expirers, ListExpiredCandidates(e) PROVE TypeOK'
    BY <2>5 DEF ListExpiredCandidates, Expirer
  <2>6. ASSUME NEW e \in Expirers, NEW c \in Calls, ExpireCandidate(e, c) \/ ExpireFails(e, c)
        PROVE TypeOK'
    <3>1. expirer' \in [Expirers -> Expirer]
      BY <2>6 DEF ExpireCandidate, ExpireFails, Takes, Resting, Expirer
    <3>2. /\ status' \in [Calls -> Active \cup Terminal \cup {"none"}]
          /\ events' \in [Calls -> SUBSET Milestones]
      BY <2>6 DEF ExpireCandidate, ExpireFails, Terminal, Milestones
    <3>3. faults' \in 0..MaxFaults
      BY <2>6, BoundsAssumption DEF ExpireCandidate, ExpireFails
    <3> QED
      BY <2>6, <3>1, <3>2, <3>3 DEF ExpireCandidate, ExpireFails
  <2>7. ASSUME NEW e \in Expirers, ExpirerDies(e) PROVE TypeOK'
    BY <2>7, BoundsAssumption DEF ExpirerDies, Resting, Expirer
  <2>8. CASE Tick
    BY <2>8 DEF Tick
  <2>9. CASE UNCHANGED vars
    BY <2>9 DEF vars
  <2> QED
    BY <2>1, <2>2, <2>3, <2>4, <2>5, <2>6, <2>7, <2>8, <2>9, StuckAssumption
       DEF Next, Write, ExpirerStep, ExpirerFails
<1> QED
  BY <1>1, <1>2, PTL DEF Spec

-----------------------------------------------------------------------------
\* A handler holds requests that exist.
HeldExist == \A a \in Actors : op[a].kind # "idle" => Exists(op[a].req)

\* What no step changes in a call, and how the statuses move: a request that
\* exists goes on to exist, and one that did not exist was created by its call.
Kept ==
  /\ \A c \in Calls : /\ call'[c].student = call[c].student
                      /\ call'[c].key = call[c].key
  /\ \A c \in Calls : status[c] # "none" => status'[c] # "none"
  /\ \A c \in Calls : status[c] = "none" /\ status'[c] # "none" =>
       CreateRequestWithEvent(c)

\* Every status write of the four repositories, and of the expiry.
LEMMA StatusWrites ==
  ASSUME TypeOK, [Next]_vars
  PROVE  \/ UNCHANGED status
         \/ \E c \in Calls : CreateRequestWithEvent(c)
         \/ \E a \in Actors : op[a].kind = "status" /\ UpdateStatusWithEvent(a)
         \/ \E a \in Actors : op[a].kind = "deliver" /\ DeliverWithEventAndAudit(a)
         \/ \E a \in Actors : op[a].kind = "cancel" /\ CancelWithEventAndAudit(a)
         \/ \E e \in Expirers, c \in Calls : ExpireCandidate(e, c)
<1>1. ASSUME NEW c \in Calls, CallStep(c)
      PROVE  UNCHANGED status \/ CreateRequestWithEvent(c)
  BY <1>1 DEF CallStep, ResolveIdempotentRetry, CheckDuplicate, InsertConflicts,
     ResolveUniqueConflict
<1>2. ASSUME NEW a \in Actors, Read(a) PROVE UNCHANGED status
  BY <1>2 DEF Read, ReadForStatus, ReadForArrival, ReadForDelivery, ReadForCancel, Decide
<1>3. ASSUME NEW e \in Expirers,
             \/ ListExpiredCandidates(e) \/ ExpirerFails(e)
             \/ \E c \in Stuck : ExpireFails(e, c)
      PROVE  UNCHANGED status
  BY <1>3 DEF ListExpiredCandidates, ExpirerFails, ExpireFails, ExpirerDies
<1>4. CASE Tick \/ UNCHANGED vars
  BY <1>4 DEF Tick, vars
<1>5. ASSUME NEW a \in Actors, Write(a)
      PROVE  \/ op[a].kind = "status" /\ UpdateStatusWithEvent(a)
             \/ op[a].kind = "deliver" /\ DeliverWithEventAndAudit(a)
             \/ op[a].kind = "cancel" /\ CancelWithEventAndAudit(a)
  BY <1>5 DEF Write, UpdateStatusWithEvent, DeliverWithEventAndAudit,
     CancelWithEventAndAudit
<1> QED
  BY <1>1, <1>2, <1>3, <1>4, <1>5 DEF Next, ExpirerStep

\* Only create calls write calls, and they keep the child and the key.
LEMMA CallWrites ==
  ASSUME TypeOK, [Next]_vars
  PROVE  \/ UNCHANGED call
         \/ \E c \in Calls : CallStep(c)
BY DEF Next, Read, ReadForStatus, ReadForArrival, ReadForDelivery, ReadForCancel,
   Decide, Write, UpdateStatusWithEvent, DeliverWithEventAndAudit,
   CancelWithEventAndAudit, Finished, ExpirerStep, ListExpiredCandidates,
   ExpireCandidate, ExpirerFails, ExpireFails, ExpirerDies, Tick, vars

LEMMA KeptLemma ==
  ASSUME TypeOK, HeldExist, [Next]_vars
  PROVE  Kept
<1> USE DEF TypeOK
<1>1. \A c \in Calls : /\ call'[c].student = call[c].student
                       /\ call'[c].key = call[c].key
  <2>1. ASSUME NEW d \in Calls, CallStep(d)
        PROVE  \A c \in Calls : /\ call'[c].student = call[c].student
                                /\ call'[c].key = call[c].key
    BY <2>1 DEF CallStep, ResolveIdempotentRetry, CheckDuplicate,
       CreateRequestWithEvent, InsertConflicts, ResolveUniqueConflict, AnswerWith,
       CallMoves, Call
  <2> QED
    BY <2>1, CallWrites
<1>2. CASE UNCHANGED status
  BY <1>1, <1>2 DEF Kept
<1>3. ASSUME NEW d \in Calls, CreateRequestWithEvent(d) PROVE Kept
  <2>1. status' = [status EXCEPT ![d] = "REQUESTED"]
    BY <1>3 DEF CreateRequestWithEvent
  <2> QED
    BY <1>1, <1>3, <2>1 DEF Kept
<1>4. ASSUME NEW a \in Actors, op[a].kind = "status", UpdateStatusWithEvent(a) PROVE Kept
  <2>1. op[a].req \in Calls /\ op[a].to \in Active /\ status[op[a].req] # "none"
    BY <1>4, OpFields DEF HeldExist, Exists
  <2>2. status' = status \/ status' = [status EXCEPT ![op[a].req] = op[a].to]
    BY <1>4 DEF UpdateStatusWithEvent
  <2> QED
    BY <1>1, <2>1, <2>2 DEF Kept, Active
<1>5. ASSUME NEW a \in Actors, op[a].kind \in {"deliver", "cancel"},
             DeliverWithEventAndAudit(a) \/ CancelWithEventAndAudit(a)
      PROVE  Kept
  <2>1. op[a].req \in Calls /\ status[op[a].req] # "none"
    BY <1>5, OpFields DEF HeldExist, Exists
  <2>2. \E s \in Terminal : status' = [status EXCEPT ![op[a].req] = s]
    BY <1>5 DEF DeliverWithEventAndAudit, CancelWithEventAndAudit, Terminal
  <2> QED
    BY <1>1, <2>1, <2>2 DEF Kept, Terminal
<1>6. ASSUME NEW e \in Expirers, NEW d \in Calls, ExpireCandidate(e, d) PROVE Kept
  <2>1. status' = status \/ (status[d] \in Active /\ status' = [status EXCEPT ![d] = "EXPIRED"])
    BY <1>6 DEF ExpireCandidate, Expired
  <2> QED
    BY <1>1, <2>1 DEF Kept, Active
<1> QED
  BY <1>2, <1>3, <1>4, <1>5, <1>6, StatusWrites

\* Reads are of requests that have a status, and no request loses it.
LEMMA HeldExistInvariant == Spec => []HeldExist
<1>1. Init => HeldExist
  BY DEF Init, HeldExist, Idle
<1>2. TypeOK /\ HeldExist /\ [Next]_vars => HeldExist'
  <2> SUFFICES ASSUME TypeOK, HeldExist, [Next]_vars PROVE HeldExist'
    OBVIOUS
  <2>1. Kept
    BY KeptLemma
  <2>2. CASE UNCHANGED op
    BY <2>1, <2>2, OpFields DEF HeldExist, Exists, Kept, TypeOK
  <2>3. ASSUME NEW a \in Actors, Read(a) PROVE HeldExist'
    <3>1. PICK c \in Calls :
            /\ status[c] \in Active
            /\ \E o \in Op : o.req = c /\ op' = [op EXCEPT ![a] = o]
      BY <2>3 DEF Read, ReadForStatus, ReadForArrival, ReadForDelivery, ReadForCancel,
         Decide, ALLOWED_TRANSITIONS, Op, Active
    <3> QED
      BY <2>1, <3>1, OpFields DEF HeldExist, Exists, Kept, TypeOK, Active
  <2>4. ASSUME NEW a \in Actors, Write(a) PROVE HeldExist'
    <3>1. op' = [op EXCEPT ![a] = Idle]
      BY <2>4 DEF Write, UpdateStatusWithEvent, DeliverWithEventAndAudit,
         CancelWithEventAndAudit, Finished
    <3> QED
      BY <2>1, <3>1, OpFields DEF HeldExist, Exists, Kept, TypeOK, Idle
  <2> QED
    BY <2>2, <2>3, <2>4 DEF Next, CallStep, ResolveIdempotentRetry, CheckDuplicate,
       CreateRequestWithEvent, InsertConflicts, ResolveUniqueConflict, ExpirerStep,
       ListExpiredCandidates, ExpireCandidate, ExpirerFails, ExpireFails, ExpirerDies,
       Tick, vars
<1> QED
  BY <1>1, <1>2, TypeCorrect, PTL DEF Spec

-----------------------------------------------------------------------------
\* Two creations may pass the duplicate check together, and a late status write
\* may bring an ended request back, but the partial unique index of the table
\* keeps at most one active request of a student.
THEOREM AtMostOneActive == Spec => []OneActivePerStudent
<1>1. Init => OneActivePerStudent
  BY DEF Init, OneActivePerStudent, Active
<1>2. TypeOK /\ HeldExist /\ OneActivePerStudent /\ [Next]_vars => OneActivePerStudent'
  <2> SUFFICES ASSUME TypeOK, HeldExist, OneActivePerStudent, [Next]_vars
               PROVE  OneActivePerStudent'
    OBVIOUS
  <2>1. \A c \in Calls : call'[c].student = call[c].student
    BY KeptLemma DEF Kept
  <2>2. CASE \A c \in Calls : status'[c] \in Active => status[c] \in Active
    BY <2>1, <2>2 DEF OneActivePerStudent
  <2>3. ASSUME NEW d \in Calls, MayBeActive(d, call[d].student),
               \A c \in Calls \ {d} : status'[c] = status[c]
        PROVE  OneActivePerStudent'
    BY <2>1, <2>3 DEF OneActivePerStudent, MayBeActive
  <2>4. ASSUME NEW d \in Calls, CreateRequestWithEvent(d) PROVE OneActivePerStudent'
    BY <2>3, <2>4 DEF CreateRequestWithEvent, TypeOK
  <2>5. ASSUME NEW a \in Actors, op[a].kind = "status", UpdateStatusWithEvent(a)
        PROVE  OneActivePerStudent'
    <3>1. op[a].req \in Calls
      BY <2>5, OpFields DEF TypeOK
    <3>2. CASE MayBeActive(op[a].req, call[op[a].req].student)
      BY <2>3, <2>5, <3>1, <3>2 DEF UpdateStatusWithEvent, TypeOK
    <3>3. CASE ~MayBeActive(op[a].req, call[op[a].req].student)
      BY <2>2, <2>5, <3>3 DEF UpdateStatusWithEvent
    <3> QED
      BY <3>2, <3>3
  <2>6. ASSUME NEW a \in Actors, op[a].kind \in {"deliver", "cancel"},
               DeliverWithEventAndAudit(a) \/ CancelWithEventAndAudit(a)
        PROVE  OneActivePerStudent'
    <3>1. op[a].req \in Calls
      BY <2>6, OpFields DEF TypeOK
    <3> QED
      BY <2>2, <2>6, <3>1 DEF DeliverWithEventAndAudit, CancelWithEventAndAudit, Active,
         TypeOK
  <2>7. ASSUME NEW e \in Expirers, NEW d \in Calls, ExpireCandidate(e, d)
        PROVE  OneActivePerStudent'
    BY <2>2, <2>7 DEF ExpireCandidate, Active, TypeOK
  <2> QED
    BY <2>2, <2>4, <2>5, <2>6, <2>7, StatusWrites
<1> QED
  BY <1>1, <1>2, TypeCorrect, HeldExistInvariant, PTL DEF Spec

\* However retries with one client request id race, one request comes of them.
THEOREM KeysAreIdempotent == Spec => []OneRequestPerKey
<1>1. Init => OneRequestPerKey
  BY DEF Init, OneRequestPerKey, Exists
<1>2. TypeOK /\ HeldExist /\ OneRequestPerKey /\ [Next]_vars => OneRequestPerKey'
  <2> SUFFICES ASSUME TypeOK, HeldExist, OneRequestPerKey, [Next]_vars,
                      NEW c \in Calls, NEW d \in Calls, c # d,
                      call[c].key # NoKey, call[c].key = call[d].key,
                      status'[c] # "none", status'[d] # "none"
               PROVE  FALSE
    BY KeptLemma DEF OneRequestPerKey, Kept, Exists
  <2>1. ASSUME NEW b \in Calls, CreateRequestWithEvent(b)
        PROVE  /\ \A x \in Calls \ {b} : status'[x] = status[x]
               /\ \A x \in Calls : call[b].key # NoKey /\ call[x].key = call[b].key =>
                    status[x] = "none"
    BY <2>1 DEF CreateRequestWithEvent, WithKey, Exists, TypeOK
  <2>2. status[c] # "none" \/ CreateRequestWithEvent(c)
    BY KeptLemma DEF Kept
  <2>3. status[d] # "none" \/ CreateRequestWithEvent(d)
    BY KeptLemma DEF Kept
  <2> QED
    BY <2>1, <2>2, <2>3 DEF OneRequestPerKey, Exists
<1> QED
  BY <1>1, <1>2, TypeCorrect, HeldExistInvariant, PTL DEF Spec

\* A caller is answered with a request for its own child, made by itself or
\* under its own client request id, also when it lost the race for the insert.
THEOREM AnswersAreOwn == Spec => []AnswerIsTheCallersOwn
<1>1. Init => AnswerIsTheCallersOwn
  BY DEF Init, AnswerIsTheCallersOwn
<1>2. TypeOK /\ HeldExist /\ AnswerIsTheCallersOwn /\ [Next]_vars => AnswerIsTheCallersOwn'
  <2> SUFFICES ASSUME TypeOK, HeldExist, AnswerIsTheCallersOwn, [Next]_vars
               PROVE  AnswerIsTheCallersOwn'
    OBVIOUS
  <2> DEFINE Own(c, d) == /\ call[d].student = call[c].student
                          /\ d = c \/ (call[c].key # NoKey /\ call[d].key = call[c].key)
  <2>1. \A c, d \in Calls :
          Own(c, d) => /\ call'[d].student = call'[c].student
                       /\ d = c \/ (call'[c].key # NoKey /\ call'[d].key = call'[c].key)
    BY KeptLemma DEF Kept
  <2>2. \A c \in Calls : status[c] # "none" => status'[c] # "none"
    BY KeptLemma DEF Kept
  <2>3. \A c \in Calls : call[c].reply \in Calls
    BY DEF TypeOK, Call
  <2>4. SUFFICES \A c \in Calls : call'[c].pc = "answered" =>
                   \/ call[c].pc = "answered" /\ call'[c].reply = call[c].reply
                   \/ /\ call'[c].reply \in Calls /\ status'[call'[c].reply] # "none"
                      /\ Own(c, call'[c].reply)
    BY <2>1, <2>2, <2>3 DEF AnswerIsTheCallersOwn, Exists
  <2>5. CASE UNCHANGED call
    BY <2>5
  <2>6. ASSUME NEW b \in Calls, NEW d \in WithKey(call[b].key), AnswerWith(b, d)
        PROVE  \A c \in Calls : call'[c].pc = "answered" =>
                 \/ call[c].pc = "answered" /\ call'[c].reply = call[c].reply
                 \/ /\ call'[c].reply \in Calls /\ status'[call'[c].reply] # "none"
                    /\ Own(c, call'[c].reply)
    <3>1. /\ d \in Calls /\ call[b].key # NoKey /\ call[d].key = call[b].key
          /\ status'[d] # "none"
      BY <2>2 DEF WithKey, Exists
    <3>2. CASE call[d].student = call[b].student
      <4>1. Own(b, d)
        BY <3>1, <3>2
      <4>2. call' = [call EXCEPT ![b].pc = "answered", ![b].reply = d]
        BY <2>6, <3>2 DEF AnswerWith
      <4>3. call'[b].reply = d /\ \A c \in Calls \ {b} : call'[c] = call[c]
        BY <4>2 DEF TypeOK, Call
      <4> QED
        BY <3>1, <4>1, <4>3
    <3>3. CASE call[d].student # call[b].student
      BY <2>6, <3>3 DEF AnswerWith, CallMoves, TypeOK, Call
    <3> QED
      BY <3>2, <3>3
  <2>7. ASSUME NEW b \in Calls, CreateRequestWithEvent(b)
        PROVE  \A c \in Calls : call'[c].pc = "answered" =>
                 \/ call[c].pc = "answered" /\ call'[c].reply = call[c].reply
                 \/ /\ call'[c].reply \in Calls /\ status'[call'[c].reply] # "none"
                    /\ Own(c, call'[c].reply)
    <3>1. /\ call'[b].reply = b /\ \A c \in Calls \ {b} : call'[c] = call[c]
          /\ status'[b] = "REQUESTED"
      BY <2>7 DEF CreateRequestWithEvent, TypeOK, Call
    <3> QED
      BY <3>1
  <2>8. ASSUME NEW b \in Calls, NEW s \in CallStates \ {"answered"}, CallMoves(b, s)
        PROVE  \A c \in Calls : call'[c].pc = "answered" => call'[c] = call[c]
    BY <2>8 DEF CallMoves, TypeOK, Call
  <2>9. ASSUME NEW b \in Calls, CallStep(b)
        PROVE  \/ \E d \in WithKey(call[b].key) : AnswerWith(b, d)
               \/ CreateRequestWithEvent(b)
               \/ \E s \in CallStates \ {"answered"} : CallMoves(b, s)
    BY <2>9 DEF CallStep, ResolveIdempotentRetry, CheckDuplicate, InsertConflicts,
       ResolveUniqueConflict, CallStates
  <2> QED
    BY <2>5, <2>6, <2>7, <2>8, <2>9, CallWrites
<1> QED
  BY <1>1, <1>2, TypeCorrect, HeldExistInvariant, PTL DEF Spec

-----------------------------------------------------------------------------
\* The milestones that come before a status, and up to it.
Before(s) == CASE s = "READY" -> {"CALLED", "AT_GATE"}
               [] s \in {"MOVING", "AT_GATE"} -> {"CALLED"}
               [] OTHER -> {}
UpTo(s) == Before(s) \cup ({s} \cap {"CALLED", "AT_GATE", "READY"})

\* The inductive invariant behind HandoverIsOnRecord: the events keep ahead of
\* the status and of every decision a handler still holds.
RecordInv ==
  /\ \A c \in Calls : UpTo(status[c]) \subseteq events[c]
  /\ \A a \in Actors :
       /\ op[a].kind = "status" => Before(op[a].to) \subseteq events[op[a].req]
       /\ op[a].kind = "deliver" => UpTo("READY") \subseteq events[op[a].req]
  /\ HandoverIsOnRecord

\* A transition, or a confirmed arrival, adds one milestone at most.
LEMMA OneMilestoneAtATime ==
  /\ \A s, t : <<s, t>> \in ALLOWED_TRANSITIONS => Before(t) \subseteq UpTo(s)
  /\ Before("AT_GATE") \subseteq UpTo("CALLED") /\ Before("AT_GATE") \subseteq UpTo("MOVING")
  /\ UpTo("READY") = {"CALLED", "AT_GATE", "READY"}
BY DEF ALLOWED_TRANSITIONS, Before, UpTo

\* Events are only added, so what they had to record before a write of status
\* "to" they record after it, and the new status is no exception.
LEMMA RecordGrows ==
  ASSUME TypeOK, RecordInv, NEW c \in Calls, NEW to \in Active \cup Terminal,
         Written(c, to), Before(to) \subseteq events[c],
         to = "HANDED_OVER" => UpTo("READY") \subseteq events[c]
  PROVE  /\ \A d \in Calls : events[d] \subseteq events'[d]
         /\ \A d \in Calls : UpTo(status'[d]) \subseteq events'[d]
         /\ HandoverIsOnRecord'
<1>1. /\ events'[c] = events[c] \cup ({to} \cap Milestones)
      /\ status'[c] = to
      /\ \A d \in Calls \ {c} : events'[d] = events[d] /\ status'[d] = status[d]
  BY DEF Written, TypeOK
<1>2. UpTo(to) \subseteq events'[c]
  <2>1. UpTo(to) = Before(to) \cup ({to} \cap {"CALLED", "AT_GATE", "READY"})
    BY DEF UpTo
  <2>2. {"CALLED", "AT_GATE", "READY"} \subseteq Milestones
    BY DEF Milestones
  <2> QED
    BY <1>1, <2>1, <2>2
<1>3. "HANDED_OVER" \in events'[c] => {"CALLED", "AT_GATE", "READY"} \subseteq events'[c]
  BY <1>1, OneMilestoneAtATime DEF RecordInv, HandoverIsOnRecord
<1> QED
  BY <1>1, <1>2, <1>3 DEF RecordInv, HandoverIsOnRecord

\* Although a status may be written over one that has moved on or had ended, no
\* child is handed over whose call, arrival and readiness are not on record.
THEOREM HandoversAreOnRecord == Spec => []HandoverIsOnRecord
<1>1. Init => RecordInv
  BY DEF Init, RecordInv, HandoverIsOnRecord, Idle, Before, UpTo
<1>2. TypeOK /\ RecordInv /\ [Next]_vars => RecordInv'
  <2> SUFFICES ASSUME TypeOK, RecordInv, [Next]_vars PROVE RecordInv'
    OBVIOUS
  <2>1. \A b \in Actors : op[b].kind \in {"status", "deliver"} => op[b].req \in Calls
    BY OpFields DEF TypeOK
  <2>2. ASSUME NEW c \in Calls, NEW to \in Active \cup Terminal,
               Written(c, to), Before(to) \subseteq events[c],
               to = "HANDED_OVER" => UpTo("READY") \subseteq events[c],
               \A b \in Actors : op'[b] = op[b] \/ op'[b].kind = "idle"
        PROVE  RecordInv'
    BY <2>1, <2>2, RecordGrows DEF RecordInv
  <2>3. ASSUME UNCHANGED <<status, events>>,
               \A b \in Actors : op'[b] = op[b] \/ op'[b].kind = "idle"
        PROVE  RecordInv'
    BY <2>3 DEF RecordInv, HandoverIsOnRecord
  <2>4. ASSUME NEW c \in Calls, CallStep(c) PROVE RecordInv'
    <3>1. CASE CreateRequestWithEvent(c)
      <4>1. Before("REQUESTED") = {} /\ "REQUESTED" \in Active
        BY DEF Before, Active
      <4> QED
        BY <2>2, <3>1, <4>1 DEF CreateRequestWithEvent
    <3>2. CASE UNCHANGED <<status, events, op>>
      BY <2>3, <3>2
    <3> QED
      BY <2>4, <3>1, <3>2 DEF CallStep, ResolveIdempotentRetry, CheckDuplicate,
         InsertConflicts, ResolveUniqueConflict
  <2>5. ASSUME NEW a \in Actors, NEW c \in Calls, NEW to \in Active,
               \/ ReadForStatus(a, c, to)
               \/ ReadForArrival(a, c) /\ to = "AT_GATE"
        PROVE  RecordInv'
    <3>1. /\ op' = [op EXCEPT ![a] = [kind |-> "status", req |-> c, to |-> to]]
          /\ UNCHANGED <<status, events>>
      BY <2>5 DEF ReadForStatus, ReadForArrival, Decide
    <3>2. Before(to) \subseteq events[c]
      <4>1. Before(to) \subseteq UpTo(status[c])
        BY <2>5, OneMilestoneAtATime DEF ReadForStatus, ReadForArrival
      <4> QED
        BY <4>1 DEF RecordInv
    <3> QED
      BY <3>1, <3>2 DEF RecordInv, HandoverIsOnRecord, TypeOK
  <2>6. ASSUME NEW a \in Actors, NEW c \in Calls, ReadForDelivery(a, c) \/ ReadForCancel(a, c)
        PROVE  RecordInv'
    <3>1. UNCHANGED <<status, events>>
      BY <2>6 DEF ReadForDelivery, ReadForCancel, Decide
    <3>2. CASE ReadForDelivery(a, c)
      <4>1. op' = [op EXCEPT ![a] = [kind |-> "deliver", req |-> c]]
        BY <3>2 DEF ReadForDelivery, Decide
      <4>2. UpTo("READY") \subseteq events[c]
        BY <3>2 DEF ReadForDelivery, RecordInv
      <4> QED
        BY <3>1, <4>1, <4>2 DEF RecordInv, HandoverIsOnRecord, TypeOK
    <3>3. CASE ReadForCancel(a, c)
      <4>1. op' = [op EXCEPT ![a] = [kind |-> "cancel", req |-> c]]
        BY <3>3 DEF ReadForCancel, Decide
      <4> QED
        BY <3>1, <4>1 DEF RecordInv, HandoverIsOnRecord, TypeOK
    <3> QED
      BY <2>6, <3>2, <3>3
  <2>7. ASSUME NEW a \in Actors, Write(a) PROVE RecordInv'
    <3>1. \A b \in Actors : op'[b] = op[b] \/ op'[b].kind = "idle"
      BY <2>7 DEF Write, UpdateStatusWithEvent, DeliverWithEventAndAudit,
         CancelWithEventAndAudit, Finished, Idle, TypeOK
    <3>2. CASE UpdateStatusWithEvent(a)
      <4>1. op[a].kind = "status" /\ op[a].req \in Calls /\ op[a].to \in Active
        BY <3>2, OpFields DEF UpdateStatusWithEvent, TypeOK
      <4>2. Before(op[a].to) \subseteq events[op[a].req] /\ op[a].to # "HANDED_OVER"
        BY <4>1 DEF RecordInv, Active
      <4>3. Written(op[a].req, op[a].to) \/ UNCHANGED <<status, events>>
        BY <3>2 DEF UpdateStatusWithEvent
      <4> QED
        BY <2>2, <2>3, <3>1, <4>1, <4>2, <4>3
    <3>3. CASE DeliverWithEventAndAudit(a)
      <4>1. op[a].kind = "deliver" /\ op[a].req \in Calls /\ Written(op[a].req, "HANDED_OVER")
        BY <3>3, <2>1 DEF DeliverWithEventAndAudit
      <4>2. Before("HANDED_OVER") = {} /\ "HANDED_OVER" \in Terminal
        BY DEF Before, Terminal
      <4> QED
        BY <2>2, <3>1, <4>1, <4>2 DEF RecordInv
    <3>4. CASE CancelWithEventAndAudit(a)
      <4>1. op[a].req \in Calls /\ Written(op[a].req, "CANCELLED")
        BY <3>4, OpFields DEF CancelWithEventAndAudit, TypeOK
      <4>2. Before("CANCELLED") = {} /\ "CANCELLED" \in Terminal
        BY DEF Before, Terminal
      <4> QED
        BY <2>2, <3>1, <4>1, <4>2
    <3> QED
      BY <2>7, <3>2, <3>3, <3>4 DEF Write
  <2>8. ASSUME NEW e \in Expirers, NEW c \in Calls, ExpireCandidate(e, c) PROVE RecordInv'
    <3>1. Before("EXPIRED") = {} /\ "EXPIRED" \in Terminal
      BY DEF Before, Terminal
    <3> QED
      BY <2>2, <2>3, <2>8, <3>1 DEF ExpireCandidate
  <2>9. CASE UNCHANGED <<status, events, op>>
    BY <2>3, <2>9
  <2>10. "AT_GATE" \in Active
    BY DEF Active
  <2> QED
    BY <2>4, <2>5, <2>6, <2>7, <2>8, <2>9, <2>10
       DEF Next, Read, ExpirerStep, ListExpiredCandidates, ExpirerFails, ExpireFails,
           ExpirerDies, Tick, vars
<1>3. RecordInv => HandoverIsOnRecord
  BY DEF RecordInv
<1> QED
  BY <1>1, <1>2, <1>3, TypeCorrect, PTL DEF Spec

\* The expiry job never ends a request a second time: a candidate that was
\* handed over or cancelled since it was listed is skipped.
THEOREM ExpirySparesEnded == Spec => ExpiryEndsActiveOnly
<1>1. TypeOK /\ [Next]_vars =>
        [\A c \in Calls : status[c] \in Terminal =>
           (status'[c] = "EXPIRED" => status[c] = "EXPIRED")]_vars
  <2> SUFFICES ASSUME TypeOK, [Next]_vars, NEW c \in Calls,
                      status[c] \in Terminal, status'[c] = "EXPIRED"
               PROVE  status[c] = "EXPIRED"
    OBVIOUS
  <2> USE DEF TypeOK
  <2>1. CASE UNCHANGED status
    BY <2>1
  <2>2. ASSUME NEW d \in Calls, CreateRequestWithEvent(d) PROVE status[c] = "EXPIRED"
    BY <2>2 DEF CreateRequestWithEvent
  <2>3. ASSUME NEW a \in Actors, op[a].kind = "status", UpdateStatusWithEvent(a)
        PROVE  status[c] = "EXPIRED"
    <3>1. op[a].req \in Calls /\ op[a].to \in Active
      BY <2>3, OpFields
    <3> QED
      BY <2>3, <3>1 DEF UpdateStatusWithEvent, Active
  <2>4. ASSUME NEW a \in Actors, DeliverWithEventAndAudit(a) \/ CancelWithEventAndAudit(a)
        PROVE  status[c] = "EXPIRED"
    BY <2>4 DEF DeliverWithEventAndAudit, CancelWithEventAndAudit
  <2>5. ASSUME NEW e \in Expirers, NEW d \in Calls, ExpireCandidate(e, d)
        PROVE  status[c] = "EXPIRED"
    BY <2>5 DEF ExpireCandidate, Expired, Active, Terminal
  <2> QED
    BY <2>1, <2>2, <2>3, <2>4, <2>5, StatusWrites
<1> QED
  BY <1>1, TypeCorrect, PTL DEF Spec, ExpiryEndsActiveOnly

-----------------------------------------------------------------------------
(***************************************************************************)
(* TerminalIsFinal does not hold.  What does: a request that has ended, and *)
(* that no handler in flight has read, stays as it ended.                   *)
(***************************************************************************)
\* A request is made by its call's last step.
MadeOnce == \A c \in Calls : Exists(c) => call[c].pc = "answered"

LEMMA MadeOnceInvariant == Spec => []MadeOnce
<1>1. Init => MadeOnce
  BY DEF Init, MadeOnce, Exists
<1>2. TypeOK /\ HeldExist /\ MadeOnce /\ [Next]_vars => MadeOnce'
  <2> SUFFICES ASSUME TypeOK, HeldExist, MadeOnce, [Next]_vars,
                      NEW c \in Calls, status'[c] # "none"
               PROVE  call'[c].pc = "answered"
    BY DEF MadeOnce, Exists
  <2> USE DEF TypeOK, Call
  <2>1. CASE CreateRequestWithEvent(c)
    BY <2>1 DEF CreateRequestWithEvent
  <2>2. CASE status[c] # "none"
    <3>1. call[c].pc = "answered"
      BY <2>2 DEF MadeOnce, Exists
    <3>2. ASSUME NEW d \in Calls, CallStep(d) PROVE call'[c] = call[c]
      <4>1. d # c
        BY <3>1, <3>2 DEF CallStep, ResolveIdempotentRetry, CheckDuplicate,
           CreateRequestWithEvent, InsertConflicts, ResolveUniqueConflict
      <4> QED
        BY <3>2, <4>1 DEF CallStep, ResolveIdempotentRetry, CheckDuplicate,
           CreateRequestWithEvent, InsertConflicts, ResolveUniqueConflict, AnswerWith,
           CallMoves
    <3> QED
      BY <3>1, <3>2, CallWrites
  <2> QED
    BY <2>1, <2>2, KeptLemma DEF Kept
<1> QED
  BY <1>1, <1>2, TypeCorrect, HeldExistInvariant, PTL DEF Spec

\* The request has ended and nobody holds a decision about it.
Settled(c) ==
  /\ status[c] \in Terminal
  /\ \A a \in Actors : op[a].kind # "idle" => op[a].req # c

LEMMA SettledStays ==
  ASSUME TypeOK, MadeOnce, [Next]_vars, NEW c \in Calls, Settled(c)
  PROVE  Settled(c)' /\ status'[c] = status[c]
<1> USE DEF TypeOK, Settled
<1>1. status'[c] = status[c]
  <2>1. ASSUME NEW d \in Calls, CreateRequestWithEvent(d) PROVE status'[c] = status[c]
    <3>1. d # c
      BY <2>1 DEF CreateRequestWithEvent, MadeOnce, Exists, Terminal
    <3> QED
      BY <2>1, <3>1 DEF CreateRequestWithEvent
  <2>2. ASSUME NEW a \in Actors, op[a].kind = "status", UpdateStatusWithEvent(a)
        PROVE  status'[c] = status[c]
    BY <2>2 DEF UpdateStatusWithEvent
  <2>3. ASSUME NEW a \in Actors, op[a].kind \in {"deliver", "cancel"},
               DeliverWithEventAndAudit(a) \/ CancelWithEventAndAudit(a)
        PROVE  status'[c] = status[c]
    BY <2>3 DEF DeliverWithEventAndAudit, CancelWithEventAndAudit
  <2>4. ASSUME NEW e \in Expirers, NEW d \in Calls, ExpireCandidate(e, d)
        PROVE  status'[c] = status[c]
    BY <2>4 DEF ExpireCandidate, Expired, Active, Terminal
  <2> QED
    BY <2>1, <2>2, <2>3, <2>4, StatusWrites
<1>2. \A a \in Actors : op'[a].kind # "idle" => op'[a].req # c
  <2>1. ASSUME NEW b \in Actors, Read(b)
        PROVE  \E o \in Op : o.req # c /\ op' = [op EXCEPT ![b] = o]
    BY <2>1 DEF Read, ReadForStatus, ReadForArrival, ReadForDelivery, ReadForCancel,
       Decide, ALLOWED_TRANSITIONS, Op, Active, Terminal
  <2>2. ASSUME NEW b \in Actors, Write(b) PROVE op' = [op EXCEPT ![b] = Idle]
    BY <2>2 DEF Write, UpdateStatusWithEvent, DeliverWithEventAndAudit,
       CancelWithEventAndAudit, Finished
  <2>3. (\E b \in Actors : Read(b) \/ Write(b)) \/ UNCHANGED op
    BY DEF Next, CallStep, ResolveIdempotentRetry, CheckDuplicate,
       CreateRequestWithEvent, InsertConflicts, ResolveUniqueConflict, ExpirerStep,
       ListExpiredCandidates, ExpireCandidate, ExpirerFails, ExpireFails, ExpirerDies,
       Tick, vars
  <2> QED
    BY <2>1, <2>2, <2>3 DEF Idle
<1> QED
  BY <1>1, <1>2

\* The reads do their part: a request that was handed over, cancelled or expired
\* is never changed again by a handler that begins after that.  Only a handler
\* that had read it before can take its end back.
THEOREM EndedIsFinalForLaterReads ==
  Spec => [][\A c \in Calls : Settled(c) => Settled(c)' /\ status'[c] = status[c]]_vars
<1>1. TypeOK /\ MadeOnce /\ [Next]_vars =>
        [\A c \in Calls : Settled(c) => Settled(c)' /\ status'[c] = status[c]]_vars
  BY SettledStays
<1> QED
  BY <1>1, TypeCorrect, MadeOnceInvariant, PTL DEF Spec

=============================================================================
