-------------------------- MODULE PushDelivery_proofs --------------------------
(***************************************************************************)
(* For any tokens, error codes, workers and number of faults: outcomes are *)
(* final and a decided delivery keeps its attempts, what is reported as    *)
(* sent was accepted, and without overlapping workers a push recorded as   *)
(* sent is not sent again.                                                 *)
(***************************************************************************)
EXTENDS PushDelivery, TLAPS

\* What the locals of an actor look like once its call is over.
LEMMA ForgetTyped ==
    ASSUME TypeOK, NEW a \in Actors, Forget(a)
    PROVE  /\ pc' \in [Actors -> Steps] /\ closing' \in SUBSET Actors
           /\ batch' \in [Actors -> SUBSET Tokens] /\ todo' \in [Actors -> Results]
           /\ item' \in [Actors -> Tokens \cup {None}]
           /\ seenAttempt' \in [Actors -> {"none", "PENDING"} \cup RetryCodes]
           /\ seenDelivery' \in [Actors -> {"PENDING", "REMAINS"}]
           /\ verdict' \in [Actors -> {"PENDING", "REMAINS"} \cup Final]
<1>1. NoResults \in Results
  BY DEF NoResults, Results
<1>2. todo' \in [Actors -> Results]
  BY <1>1 DEF TypeOK, Forget
<1> QED
  BY <1>2 DEF TypeOK, Forget, Goto, Steps

LEMMA ReturnTyped ==
    ASSUME TypeOK, NEW a \in Actors, NEW outcomes \in SUBSET {"none", "waiting"},
           Return(a, outcomes)
    PROVE  /\ pc' \in [Actors -> Steps] /\ closing' \in SUBSET Actors
           /\ batch' \in [Actors -> SUBSET Tokens] /\ todo' \in [Actors -> Results]
           /\ item' \in [Actors -> Tokens \cup {None}]
           /\ seenAttempt' \in [Actors -> {"none", "PENDING"} \cup RetryCodes]
           /\ seenDelivery' \in [Actors -> {"PENDING", "REMAINS"}]
           /\ verdict' \in [Actors -> {"PENDING", "REMAINS"} \cup Final]
           /\ job' \in {"none", "waiting", "active"}
           /\ runner' \in Workers \cup {None}
<1>1. Forget(a)
  BY DEF Return
<1>2. job' \in {"none", "waiting", "active"} /\ runner' \in Workers \cup {None}
  BY DEF Return, TypeOK, queue
<1> QED
  BY <1>1, <1>2, ForgetTyped

\* The writes keep the attempts and the delivery typed.
LEMMA WritesTyped ==
    ASSUME TypeOK
    PROVE  /\ \A S : Ensured(S) \in [Tokens -> {"none", "PENDING"} \cup Final \cup RetryCodes]
           /\ \A a \in Actors :
                 Swapped(a) \in [Tokens -> {"none", "PENDING"} \cup Final \cup RetryCodes]
           /\ \A a \in Actors : Concluded(a) \in {"PENDING", "REMAINS"} \cup Final
<1>1. \A S : Ensured(S) \in [Tokens -> {"none", "PENDING"} \cup Final \cup RetryCodes]
  BY DEF TypeOK, Ensured
<1>2. ASSUME NEW a \in Actors
      PROVE  Swapped(a) \in [Tokens -> {"none", "PENDING"} \cup Final \cup RetryCodes]
  <2>1. CASE item[a] \in Tokens
    <3>1. todo[a][item[a]] \in {"none"} \cup Final \cup RetryCodes
      BY <2>1 DEF TypeOK, Results
    <3> QED
      BY <2>1, <3>1 DEF TypeOK, Swapped
  <2>2. CASE item[a] \notin Tokens
    BY <2>2 DEF TypeOK, Swapped
  <2> QED
    BY <2>1, <2>2
<1>3. \A a \in Actors : Concluded(a) \in {"PENDING", "REMAINS"} \cup Final
  BY DEF TypeOK, Concluded
<1> QED
  BY <1>1, <1>2, <1>3

LEMMA AfterTyped ==
    ASSUME NEW results, NEW tokens
    PROVE  After(results, tokens) \in {"record", "relist", "aggregate"}
  BY DEF After

LEMMA FailsTyped ==
    ASSUME NEW tokens
    PROVE  Fails(tokens) \in Results
  BY DEF Fails, Results, Final

LEMMA RecordedTyped ==
    ASSUME TypeOK, NEW a \in Actors, NEW t, Recorded(a, t)
    PROVE  todo' \in [Actors -> Results] /\ pc' \in [Actors -> Steps]
<1>1. [todo[a] EXCEPT ![t] = "none"] \in Results
  BY DEF TypeOK, Results
<1> QED
  BY <1>1, AfterTyped DEF TypeOK, Recorded, Goto, Steps

\* Type correctness of every variable, for any tokens, workers and faults.
THEOREM TypeCorrect == Spec => []TypeOK
<1>1. Init => TypeOK
  <2> SUFFICES ASSUME Init PROVE TypeOK
    OBVIOUS
  <2>1. NoResults \in Results
    BY DEF NoResults, Results
  <2>2. faults \in 0..MaxFaults
    BY MaxFaultsAssumption DEF Init
  <2>3. todo \in [Actors -> Results]
    BY <2>1 DEF Init
  <2>4. surface \in BOOLEAN /\ expired \in BOOLEAN /\ ineligible \in BOOLEAN
        /\ overlapped \in BOOLEAN
    BY DEF Init
  <2> QED
    BY <2>2, <2>3, <2>4 DEF Init, TypeOK, Steps
<1>2. TypeOK /\ [Next]_vars => TypeOK'
  <2> SUFFICES ASSUME TypeOK, [Next]_vars PROVE TypeOK'
    OBVIOUS
  <2> USE DEF rows, world, history, queue, seen, local
  <2>1. ASSUME NEW w \in Workers, Run(w) PROVE TypeOK'
    <3>1. overlapped' \in BOOLEAN
      BY <2>1 DEF Run, TypeOK
    <3> QED
      BY <2>1, <3>1 DEF Run, TypeOK, Goto, Steps, Actors, Final
  <2>2. ASSUME NEW w \in Workers, Fence(w) PROVE TypeOK'
    <3>1. CASE Return(w, {"none"})
      BY <2>2, <3>1, ReturnTyped DEF Fence, TypeOK, Actors
    <3>2. CASE ~Return(w, {"none"})
      BY <2>2, <3>2 DEF Fence, TypeOK, Goto, Steps, Actors
    <3> QED
      BY <3>1, <3>2
  <2>3. ASSUME NEW w \in Workers, Ensure(w) PROVE TypeOK'
    <3>1. attempt' \in [Tokens -> {"none", "PENDING"} \cup Final \cup RetryCodes]
      BY <2>3, WritesTyped DEF Ensure
    <3> QED
      BY <2>3, <3>1 DEF Ensure, TypeOK, Goto, Steps, Actors
  <2>4. ASSUME NEW w \in Workers, List(w) PROVE TypeOK'
    <3> DEFINE wanted == {t \in batch[w] : attempt[t] = "none" \/ isProcessable(attempt[t])}
    <3>1. CASE batch[w] = {} /\ attempt = NoResults
      BY <2>4, <3>1 DEF List, TypeOK, Goto, Steps, Actors, Final
    <3>2. CASE ~(batch[w] = {} /\ attempt = NoResults)
      <4>1. PICK bad \in SUBSET wanted :
               /\ batch' = [batch EXCEPT ![w] = wanted \ bad]
               /\ todo' = [todo EXCEPT ![w] = Fails(bad)]
               /\ Goto(w, After(Fails(bad), wanted \ bad))
               /\ UNCHANGED verdict
        BY <2>4, <3>2 DEF List
      <4>2. wanted \in SUBSET Tokens
        BY DEF TypeOK, Actors
      <4> HIDE DEF wanted
      <4>3. batch' \in [Actors -> SUBSET Tokens]
        BY <4>1, <4>2 DEF TypeOK
      <4>4. todo' \in [Actors -> Results]
        BY <4>1, FailsTyped DEF TypeOK
      <4>5. pc' \in [Actors -> Steps]
        BY <4>1, AfterTyped DEF TypeOK, Goto, Steps
      <4> QED
        BY <2>4, <4>1, <4>3, <4>4, <4>5 DEF List, TypeOK
    <3> QED
      BY <3>1, <3>2
  <2>5. ASSUME NEW w \in Workers, Relist(w) PROVE TypeOK'
    BY <2>5 DEF Relist, TypeOK, Goto, Steps, Actors
  <2>6. ASSUME NEW w \in Workers, Send(w) PROVE TypeOK'
    <3>1. todo' \in [Actors -> Results]
      BY <2>6 DEF Send, TypeOK, Actors
    <3>2. accepted' \in SUBSET Tokens
      BY <2>6 DEF Send, TypeOK, Actors
    <3> QED
      BY <2>6, <3>1, <3>2 DEF Send, TypeOK, Goto, Steps, Actors
  <2>7. ASSUME NEW a \in Actors, NEW t \in Tokens, Record(a, t) PROVE TypeOK'
    <3>1. attempt' \in [Tokens -> {"none", "PENDING"} \cup Final \cup RetryCodes]
      BY <2>7, WritesTyped DEF Record
    <3>2. CASE Recorded(a, t) /\ UNCHANGED seen
      BY <2>7, <3>1, <3>2, RecordedTyped DEF Record, TypeOK
    <3>3. CASE ~(Recorded(a, t) /\ UNCHANGED seen)
      <4>1. isProcessable(delivery) /\ isProcessable(attempt'[t])
        BY <2>7, <3>3 DEF Record
      <4>2. delivery \in {"PENDING", "REMAINS"}
        BY <4>1, RetryCodesAssumption DEF TypeOK, isProcessable, Final
      <4>3. attempt'[t] \in {"none", "PENDING"} \cup RetryCodes
        BY <4>1, <3>1, RetryCodesAssumption DEF isProcessable, Final
      <4>4. /\ Goto(a, "swap")
            /\ item' = [item EXCEPT ![a] = t]
            /\ seenAttempt' = [seenAttempt EXCEPT ![a] = attempt'[t]]
            /\ seenDelivery' = [seenDelivery EXCEPT ![a] = delivery]
            /\ UNCHANGED todo
        BY <2>7, <3>3 DEF Record
      <4>5. seenAttempt' \in [Actors -> {"none", "PENDING"} \cup RetryCodes]
        BY <4>3, <4>4 DEF TypeOK
      <4> QED
        BY <2>7, <3>1, <4>2, <4>4, <4>5 DEF Record, TypeOK, Goto, Steps
    <3> QED
      BY <3>2, <3>3
  <2>8. ASSUME NEW a \in Actors, Swap(a) PROVE TypeOK'
    <3>1. attempt' \in [Tokens -> {"none", "PENDING"} \cup Final \cup RetryCodes]
      BY <2>8, WritesTyped DEF Swap
    <3>2. todo' \in [Actors -> Results] /\ pc' \in [Actors -> Steps]
      BY <2>8, RecordedTyped DEF Swap
    <3> QED
      BY <2>8, <3>1, <3>2 DEF Swap, TypeOK
  <2>9. ASSUME NEW a \in Actors, Aggregate(a) PROVE TypeOK'
    BY <2>9 DEF Aggregate, terminalStatus, resolveAttemptAggregate, Final, TypeOK,
       Goto, Steps
  <2>10. ASSUME NEW a \in Actors, Look(a) PROVE TypeOK'
    <3>1. CASE Return(a, {"none"})
      BY <2>10, <3>1, ReturnTyped DEF Look, TypeOK
    <3>2. CASE ~Return(a, {"none"})
      <4>1. isProcessable(delivery)
        BY <2>10, <3>2 DEF Look
      <4>2. delivery \in {"PENDING", "REMAINS"}
        BY <4>1, RetryCodesAssumption DEF TypeOK, isProcessable, Final
      <4> QED
        BY <2>10, <3>2, <4>2 DEF Look, TypeOK, Goto, Steps
    <3> QED
      BY <3>1, <3>2
  <2>11. ASSUME NEW a \in Actors, Conclude(a) PROVE TypeOK'
    <3>1. delivery' \in {"PENDING", "REMAINS"} \cup Final
      BY <2>11, WritesTyped DEF Conclude
    <3>2. PICK outcomes \in SUBSET {"none", "waiting"} : Return(a, outcomes)
      BY <2>11 DEF Conclude, Thrown
    <3> QED
      BY <2>11, <3>1, <3>2, ReturnTyped DEF Conclude, TypeOK
  <2>12. ASSUME NEW a \in Actors, Close(a) PROVE TypeOK'
    <3>1. pc' \in [Actors -> Steps] /\ todo' \in [Actors -> Results]
      BY <2>12, AfterTyped, FailsTyped DEF Close, TypeOK, Goto, Steps
    <3> QED
      BY <2>12, <3>1 DEF Close, TypeOK
  <2>13. CASE Reconcile
    BY <2>13 DEF Reconcile, TypeOK, Goto, Steps, Actors
  <2>14. CASE Requeue
    BY <2>14 DEF Requeue, TypeOK, QueueAdd, Goto, Steps, Actors
  <2>15. ASSUME NEW a \in Actors, CallFails(a) PROVE TypeOK'
    <3>1. faults' \in 0..MaxFaults
      BY <2>15, MaxFaultsAssumption DEF CallFails, Fault, TypeOK
    <3>2. attempt' \in [Tokens -> {"none", "PENDING"} \cup Final \cup RetryCodes]
      BY <2>15, WritesTyped DEF CallFails, TypeOK
    <3>3. delivery' \in {"PENDING", "REMAINS"} \cup Final /\ accepted' \in SUBSET Tokens
      BY <2>15, WritesTyped DEF CallFails, TypeOK
    <3>4. Return(a, {"waiting", "none"})
      BY <2>15 DEF CallFails, Thrown
    <3> QED
      BY <2>15, <3>1, <3>2, <3>3, <3>4, ReturnTyped DEF CallFails, TypeOK
  <2>16. ASSUME NEW a \in Actors, Crash(a) PROVE TypeOK'
    <3>1. faults' \in 0..MaxFaults
      BY <2>16, MaxFaultsAssumption DEF Crash, Fault, TypeOK
    <3> QED
      BY <2>16, <3>1, ForgetTyped DEF Crash, TypeOK
  <2>17. CASE RedisLoss
    <3>1. faults' \in 0..MaxFaults
      BY <2>17, MaxFaultsAssumption DEF RedisLoss, Fault, TypeOK
    <3> QED
      BY <2>17, <3>1 DEF RedisLoss, TypeOK
  <2>18. CASE Regenerate \/ Enqueue \/ Stall \/ WindowPasses \/ BecomesIneligible
    BY <2>18 DEF Regenerate, Enqueue, QueueAdd, Final, Stall, Thrown, WindowPasses, BecomesIneligible, TypeOK
  <2>19. CASE UNCHANGED vars
    BY <2>19 DEF vars, TypeOK
  <2>20. Reconciler \in Actors /\ Workers \subseteq Actors
    BY DEF Actors
  <2> QED
    BY <2>1, <2>2, <2>3, <2>4, <2>5, <2>6, <2>7, <2>8, <2>9, <2>10, <2>11, <2>12,
       <2>13, <2>14, <2>15, <2>16, <2>17, <2>18, <2>19, <2>20
       DEF Next, WorkerStep, ReconcilerStep, ResultStep
<1> QED
  BY <1>1, <1>2, PTL DEF Spec

-----------------------------------------------------------------------------
(***************************************************************************)
(* The few ways in which the rows are written.                             *)
(***************************************************************************)
LEMMA Writes ==
    ASSUME [Next]_vars
    PROVE  /\ \/ attempt' = attempt
              \/ \E S \in SUBSET Tokens : attempt' = Ensured(S)
              \/ \E a \in Actors : pc[a] = "swap" /\ attempt' = Swapped(a)
           /\ \/ delivery' = delivery
              \/ delivery # "SENT" /\ delivery # "SKIPPED" /\ delivery' = "SKIPPED"
              \/ \E a \in Actors : pc[a] = "conclude" /\ delivery' = Concluded(a)
<1> USE DEF rows
<1>1. ASSUME NEW a \in Actors, ResultStep(a)
      PROVE  /\ \/ attempt' = attempt
                \/ \E S \in SUBSET Tokens : attempt' = Ensured(S)
                \/ pc[a] = "swap" /\ attempt' = Swapped(a)
             /\ delivery' = delivery \/ (pc[a] = "conclude" /\ delivery' = Concluded(a))
  <2>1. CASE Close(a)
    BY <2>1 DEF Close
  <2>2. ASSUME NEW t \in Tokens, Record(a, t)
        PROVE  delivery' = delivery /\ \E S \in SUBSET Tokens : attempt' = Ensured(S)
    <3>1. attempt' = Ensured({t}) /\ delivery' = delivery
      BY <2>2 DEF Record
    <3> QED
      BY <3>1
  <2>3. CASE Swap(a)
    BY <2>3 DEF Swap
  <2>4. CASE Aggregate(a)
    BY <2>4 DEF Aggregate
  <2>5. CASE Look(a)
    BY <2>5 DEF Look
  <2>6. CASE Conclude(a)
    BY <2>6 DEF Conclude
  <2> QED
    BY <1>1, <2>1, <2>2, <2>3, <2>4, <2>5, <2>6 DEF ResultStep
<1>2. ASSUME NEW w \in Workers, Ensure(w)
      PROVE  delivery' = delivery /\ \E S \in SUBSET Tokens : attempt' = Ensured(S)
  BY <1>2 DEF Ensure
<1>3. ASSUME NEW w \in Workers, Run(w) \/ Fence(w) \/ List(w) \/ Relist(w) \/ Send(w)
      PROVE  UNCHANGED rows
  BY <1>3 DEF Run, Fence, List, Relist, Send
<1>4. ASSUME NEW a \in Actors, CallFails(a)
      PROVE  /\ \/ attempt' = attempt
                \/ \E S \in SUBSET Tokens : attempt' = Ensured(S)
                \/ pc[a] = "swap" /\ attempt' = Swapped(a)
             /\ delivery' = delivery \/ (pc[a] = "conclude" /\ delivery' = Concluded(a))
  BY <1>4 DEF CallFails
<1>5. ASSUME NEW a \in Actors, Crash(a) PROVE UNCHANGED rows
  BY <1>5 DEF Crash
<1>6. CASE \/ Reconcile \/ Requeue \/ Regenerate \/ Enqueue \/ RedisLoss \/ Stall
           \/ WindowPasses \/ BecomesIneligible
  BY <1>6 DEF Reconcile, Requeue, Regenerate, Enqueue, RedisLoss, Stall, WindowPasses,
     BecomesIneligible
<1>7. CASE UNCHANGED vars
  BY <1>7 DEF vars
<1>8. Reconciler \in Actors /\ Workers \subseteq Actors
  BY DEF Actors
<1> QED
  BY <1>1, <1>2, <1>3, <1>4, <1>5, <1>6, <1>7, <1>8 DEF Next, WorkerStep, ReconcilerStep

\* What each way of writing does to outcomes.
LEMMA FinalStep ==
    ASSUME TypeOK, [Next]_vars
    PROVE  /\ delivery \in Final => \/ delivery' = delivery
                                    \/ delivery = "FAILED" /\ delivery' = "SKIPPED"
           /\ \A t \in Tokens : attempt[t] \in Final => attempt'[t] = attempt[t]
<1>1. ASSUME NEW t \in Tokens, attempt[t] \in Final
      PROVE  attempt'[t] = attempt[t]
  <2>1. ASSUME NEW S \in SUBSET Tokens PROVE Ensured(S)[t] = attempt[t]
    BY <1>1 DEF Ensured, Final
  <2>2. ASSUME NEW a \in Actors PROVE Swapped(a)[t] = attempt[t]
    <3>1. attempt[t] # seenAttempt[a]
      BY <1>1, RetryCodesAssumption DEF TypeOK, Final
    <3> QED
      BY <3>1 DEF Swapped, TypeOK
  <2> QED
    BY <2>1, <2>2, Writes
<1>2. ASSUME delivery \in Final
      PROVE  delivery' = delivery \/ (delivery = "FAILED" /\ delivery' = "SKIPPED")
  <2>1. ASSUME NEW a \in Actors PROVE Concluded(a) = delivery
    BY <1>2 DEF Concluded, TypeOK, Final
  <2> QED
    BY <1>2, <2>1, Writes DEF Final
<1> QED
  BY <1>1, <1>2

\* No outcome is revised (a push turned off later excepted), for any number of
\* workers with late results and a reconciler that closes the delivery meanwhile.
THEOREM OutcomesStay == Spec => OutcomesAreFinal
<1>1. TypeOK /\ [Next]_vars =>
         [/\ delivery \in Final => \/ delivery' = delivery
                                   \/ delivery = "FAILED" /\ delivery' = "SKIPPED"
          /\ \A t \in Tokens : attempt[t] \in Final => attempt'[t] = attempt[t]]_vars
  BY FinalStep
<1> QED
  BY <1>1, TypeCorrect, PTL DEF Spec, OutcomesAreFinal

\* Once a delivery is decided, its attempts are history: a result that comes in
\* late, a retry of the job or a reconciler that listed it before neither adds an
\* attempt nor moves one that was left open.  ensureAttempt and the conditional
\* update both ask for an open delivery.
THEOREM DecidedIsFrozen == Spec => [][(delivery \in Final) => attempt' = attempt]_vars
<1>1. ASSUME TypeOK, delivery \in Final, [Next]_vars
      PROVE  attempt' = attempt
  <2>1. ASSUME NEW S \in SUBSET Tokens PROVE Ensured(S) = attempt
    <3>1. ~isProcessable(delivery)
      BY <1>1, RetryCodesAssumption DEF isProcessable, Final
    <3>2. Ensured(S) = [t \in Tokens |-> attempt[t]]
      BY <3>1 DEF Ensured
    <3> QED
      BY <1>1, <3>2 DEF TypeOK
  <2>2. ASSUME NEW a \in Actors PROVE Swapped(a) = attempt
    BY <1>1 DEF Swapped, TypeOK, Final
  <2> QED
    BY <1>1, <2>1, <2>2, Writes
<1>2. TypeOK /\ [Next]_vars => [(delivery \in Final) => attempt' = attempt]_vars
  BY <1>1
<1> QED
  BY <1>2, TypeCorrect, PTL DEF Spec

-----------------------------------------------------------------------------
(***************************************************************************)
(* What an actor means to record as sent was accepted; a verdict, like the *)
(* delivery itself, says sent only if some attempt does.                   *)
(***************************************************************************)
AcceptedInv ==
    /\ \A a \in Actors : \A t \in Tokens : todo[a][t] = "SENT" => t \in accepted
    /\ \A a \in Actors : verdict[a] = "SENT" => With({"SENT"}) # {}
    /\ SentMeansAccepted

LEMMA AcceptedGrows ==
    ASSUME [Next]_vars
    PROVE  accepted \subseteq accepted'
<1> USE DEF history
<1>1. ASSUME NEW w \in Workers, WorkerStep(w) PROVE accepted \subseteq accepted'
  BY <1>1 DEF WorkerStep, ResultStep, Run, Fence, Ensure, List, Relist, Send, Close,
     Record, Swap, Aggregate, Look, Conclude
<1>2. CASE ReconcilerStep
  BY <1>2 DEF ReconcilerStep, ResultStep, Reconcile, Requeue, Close, Record, Swap,
     Aggregate, Look, Conclude
<1>3. ASSUME NEW a \in Actors, CallFails(a) \/ Crash(a) PROVE accepted \subseteq accepted'
  BY <1>3 DEF CallFails, Crash
<1>4. CASE \/ Regenerate \/ Enqueue \/ RedisLoss \/ Stall \/ WindowPasses
           \/ BecomesIneligible \/ UNCHANGED vars
  BY <1>4 DEF Regenerate, Enqueue, RedisLoss, Stall, WindowPasses,
     BecomesIneligible, vars
<1> QED
  BY <1>1, <1>2, <1>3, <1>4 DEF Next

\* Only the provider's answer puts a sent result in an actor's hands.
LEMMA ResultSource ==
    ASSUME TypeOK, [Next]_vars, NEW a \in Actors, NEW t \in Tokens, todo'[a][t] = "SENT"
    PROVE  todo[a][t] = "SENT" \/ (a \in Workers /\ pc[a] = "send" /\ t \in accepted')
<1> DEFINE Ok == todo[a][t] = "SENT" \/ (a \in Workers /\ pc[a] = "send" /\ t \in accepted')
<1> USE DEF local, seen
<1>1. ASSUME NEW b \in Actors, Forget(b) PROVE Ok
  BY <1>1 DEF Forget, NoResults, TypeOK
<1>2. ASSUME NEW b \in Actors, NEW u, Recorded(b, u) PROVE Ok
  <2>1. todo' = [todo EXCEPT ![b] = [todo[b] EXCEPT ![u] = "none"]]
    BY <1>2 DEF Recorded
  <2>2. todo[b] \in Results
    BY DEF TypeOK
  <2> QED
    BY <2>1, <2>2 DEF TypeOK, Results
<1>3. ASSUME NEW b \in Actors, NEW S, todo' = [todo EXCEPT ![b] = Fails(S)] PROVE Ok
  <2>1. Fails(S)[t] # "SENT"
    BY DEF Fails
  <2> QED
    BY <1>3, <2>1 DEF TypeOK
<1>4. CASE UNCHANGED todo
  BY <1>4
<1>5. ASSUME NEW b \in Actors, ResultStep(b) PROVE Ok
  <2>1. CASE Close(b)
    BY <2>1, <1>3 DEF Close
  <2>2. ASSUME NEW u \in Tokens, Record(b, u) PROVE Ok
    BY <2>2, <1>2, <1>4 DEF Record
  <2>3. CASE Swap(b)
    BY <2>3, <1>2 DEF Swap
  <2>4. CASE Aggregate(b)
    BY <2>4, <1>4 DEF Aggregate
  <2>5. CASE Look(b)
    BY <2>5, <1>1, <1>4 DEF Look, Return
  <2>6. CASE Conclude(b)
    BY <2>6, <1>1 DEF Conclude, Return
  <2> QED
    BY <1>5, <2>1, <2>2, <2>3, <2>4, <2>5, <2>6 DEF ResultStep
<1>6. ASSUME NEW w \in Workers, Send(w) PROVE Ok
  <2>1. PICK results \in Results :
           /\ \A u \in Tokens : results[u] # "none" <=> u \in batch[w]
           /\ todo' = [todo EXCEPT ![w] = results]
           /\ \E unclear \in SUBSET {u \in batch[w] : results[u] \in RetryCodes} :
                 accepted' = accepted \cup unclear
                                      \cup {u \in batch[w] : results[u] = "SENT"}
    BY <1>6 DEF Send
  <2>2. CASE a = w
    <3>1. results[t] = "SENT"
      BY <2>1, <2>2 DEF TypeOK
    <3> QED
      BY <1>6, <2>1, <2>2, <3>1 DEF Send
  <2>3. CASE a # w
    BY <2>1, <2>3 DEF TypeOK
  <2> QED
    BY <2>2, <2>3
<1>7. ASSUME NEW w \in Workers, List(w) PROVE Ok
  BY <1>7, <1>3, <1>4 DEF List, Actors
<1>8. ASSUME NEW w \in Workers, Fence(w) PROVE Ok
  BY <1>8, <1>1, <1>4 DEF Fence, Return, Actors
<1>9. ASSUME NEW w \in Workers, Run(w) \/ Ensure(w) \/ Relist(w) PROVE Ok
  BY <1>9, <1>4 DEF Run, Ensure, Relist
<1>10. ASSUME NEW b \in Actors, CallFails(b) \/ Crash(b) PROVE Ok
  BY <1>10, <1>1 DEF CallFails, Crash, Return
<1>11. CASE \/ Reconcile \/ Requeue \/ Regenerate \/ Enqueue \/ RedisLoss \/ Stall \/ WindowPasses
            \/ BecomesIneligible \/ UNCHANGED vars
  BY <1>11, <1>4 DEF Reconcile, Requeue, Regenerate, Enqueue, RedisLoss, Stall, WindowPasses,
     BecomesIneligible, vars
<1>12. Reconciler \in Actors /\ Workers \subseteq Actors
  BY DEF Actors
<1> QED
  BY <1>5, <1>6, <1>7, <1>8, <1>9, <1>10, <1>11, <1>12
     DEF Next, WorkerStep, ReconcilerStep

\* Only the aggregate makes an actor say that the delivery was sent.
LEMMA VerdictSource ==
    ASSUME TypeOK, [Next]_vars, NEW a \in Actors, verdict'[a] = "SENT"
    PROVE  verdict[a] = "SENT" \/ With({"SENT"}) # {}
<1> DEFINE Ok == verdict[a] = "SENT" \/ With({"SENT"}) # {}
<1> USE DEF local
<1>1. ASSUME NEW b \in Actors, Forget(b) PROVE Ok
  BY <1>1 DEF Forget, TypeOK
<1>2. CASE UNCHANGED verdict
  BY <1>2
<1>3. ASSUME NEW b \in Actors, ResultStep(b) PROVE Ok
  <2>1. CASE Aggregate(b)
    <3>1. verdict' = [verdict EXCEPT ![b] = IF b \in closing THEN terminalStatus
                                            ELSE resolveAttemptAggregate]
      BY <2>1 DEF Aggregate
    <3>2. terminalStatus = "SENT" \/ resolveAttemptAggregate = "SENT" => With({"SENT"}) # {}
      BY DEF terminalStatus, resolveAttemptAggregate
    <3> QED
      BY <3>1, <3>2 DEF TypeOK
  <2>2. CASE Close(b)
    BY <2>2, <1>2 DEF Close
  <2>3. ASSUME NEW u \in Tokens, Record(b, u) PROVE Ok
    BY <2>3, <1>2 DEF Record
  <2>4. CASE Swap(b)
    BY <2>4, <1>2 DEF Swap
  <2>5. CASE Look(b)
    BY <2>5, <1>1, <1>2 DEF Look, Return
  <2>6. CASE Conclude(b)
    BY <2>6, <1>1 DEF Conclude, Return
  <2> QED
    BY <1>3, <2>1, <2>2, <2>3, <2>4, <2>5, <2>6 DEF ResultStep
<1>4. ASSUME NEW w \in Workers, Run(w) \/ List(w)
      PROVE  UNCHANGED verdict \/ verdict' = [verdict EXCEPT ![w] = "SKIPPED"]
  BY <1>4 DEF Run, List
<1>5. ASSUME NEW w \in Workers, Run(w) \/ List(w) PROVE Ok
  BY <1>2, <1>4, <1>5 DEF TypeOK
<1>6. ASSUME NEW w \in Workers, Fence(w) PROVE Ok
  BY <1>6, <1>1, <1>2 DEF Fence, Return, Actors
<1>7. ASSUME NEW w \in Workers, Ensure(w) \/ Relist(w) \/ Send(w) PROVE Ok
  BY <1>7, <1>2 DEF Ensure, Relist, Send
<1>8. ASSUME NEW b \in Actors, CallFails(b) \/ Crash(b) PROVE Ok
  BY <1>8, <1>1 DEF CallFails, Crash, Return
<1>9. CASE \/ Reconcile \/ Requeue \/ Regenerate \/ Enqueue \/ RedisLoss \/ Stall \/ WindowPasses
           \/ BecomesIneligible \/ UNCHANGED vars
  BY <1>9, <1>2 DEF Reconcile, Requeue, Regenerate, Enqueue, RedisLoss, Stall, WindowPasses,
     BecomesIneligible, vars
<1>10. Reconciler \in Actors /\ Workers \subseteq Actors
  BY DEF Actors
<1> QED
  BY <1>3, <1>5, <1>6, <1>7, <1>8, <1>9, <1>10 DEF Next, WorkerStep, ReconcilerStep

\* A new sent attempt comes from the results of the actor that swaps it in.
LEMMA SentSource ==
    ASSUME TypeOK, [Next]_vars, NEW t \in Tokens, attempt'[t] = "SENT"
    PROVE  \/ attempt[t] = "SENT"
           \/ \E a \in Actors : pc[a] = "swap" /\ attempt' = Swapped(a) /\ todo[a][t] = "SENT"
<1>1. ASSUME NEW S \in SUBSET Tokens, Ensured(S)[t] = "SENT" PROVE attempt[t] = "SENT"
  BY <1>1 DEF Ensured
<1>2. ASSUME NEW a \in Actors, Swapped(a)[t] = "SENT"
      PROVE  attempt[t] = "SENT" \/ todo[a][t] = "SENT"
  BY <1>2 DEF Swapped, TypeOK
<1> QED
  BY <1>1, <1>2, Writes

\* What is reported as sent was accepted by the provider, for any tokens,
\* workers and faults.
THEOREM ReportsAreTrue == Spec => []SentMeansAccepted
<1>1. Init => AcceptedInv
  BY DEF Init, AcceptedInv, SentMeansAccepted, With, NoResults
<1>2. TypeOK /\ AcceptedInv /\ [Next]_vars => AcceptedInv'
  <2> SUFFICES ASSUME TypeOK, AcceptedInv, [Next]_vars PROVE AcceptedInv'
    OBVIOUS
  <2>1. ASSUME NEW a \in Actors, NEW t \in Tokens, todo'[a][t] = "SENT"
        PROVE  t \in accepted'
    BY <2>1, ResultSource, AcceptedGrows DEF AcceptedInv
  <2>2. With({"SENT"}) \subseteq With({"SENT"})'
    BY FinalStep DEF With, Final
  <2>3. ASSUME NEW a \in Actors, verdict'[a] = "SENT"
        PROVE  With({"SENT"})' # {}
    BY <2>2, <2>3, VerdictSource DEF AcceptedInv
  <2>4. ASSUME delivery' = "SENT" PROVE With({"SENT"})' # {}
    <3>1. delivery = "SENT" \/ \E a \in Actors : verdict[a] = "SENT"
      BY <2>4, Writes DEF Concluded
    <3> QED
      BY <2>2, <3>1 DEF AcceptedInv, SentMeansAccepted
  <2>5. With({"SENT"})' \subseteq accepted'
    <3>1. ASSUME NEW t \in Tokens, attempt'[t] = "SENT" PROVE t \in accepted
      BY <3>1, SentSource DEF AcceptedInv, SentMeansAccepted, With
    <3> QED
      BY <3>1, AcceptedGrows DEF With
  <2> QED
    BY <2>1, <2>3, <2>4, <2>5 DEF AcceptedInv, SentMeansAccepted
<1>3. AcceptedInv => SentMeansAccepted
  BY DEF AcceptedInv
<1> QED
  BY <1>1, <1>2, <1>3, TypeCorrect, PTL DEF Spec

-----------------------------------------------------------------------------
(***************************************************************************)
(* As long as workers have not overlapped, at most one is at work, the     *)
(* reconciler never holds a sent result, and what a worker has selected    *)
(* between its last look at the attempts and the dispatch stays unsent.    *)
(***************************************************************************)
ResendInv ==
    /\ \A t \in Tokens : todo[Reconciler][t] # "SENT"
    /\ ~overlapped =>
          /\ \A v, w \in Workers : pc[v] # "idle" /\ pc[w] # "idle" => v = w
          /\ \A w \in Workers :
                pc[w] \in {"fenceB", "send"} => batch[w] \cap With({"SENT"}) = {}

LEMMA OverlapStays ==
    ASSUME [Next]_vars, overlapped
    PROVE  overlapped'
<1> USE DEF history
<1>1. ASSUME NEW w \in Workers, WorkerStep(w) PROVE overlapped'
  BY <1>1 DEF WorkerStep, ResultStep, Run, Fence, Ensure, List, Relist, Send, Close,
     Record, Swap, Aggregate, Look, Conclude
<1>2. CASE ReconcilerStep
  BY <1>2 DEF ReconcilerStep, ResultStep, Reconcile, Requeue, Close, Record, Swap,
     Aggregate, Look, Conclude
<1>3. ASSUME NEW a \in Actors, CallFails(a) \/ Crash(a) PROVE overlapped'
  BY <1>3 DEF CallFails, Crash
<1>4. CASE \/ Regenerate \/ Enqueue \/ RedisLoss \/ Stall \/ WindowPasses
           \/ BecomesIneligible \/ UNCHANGED vars
  BY <1>4 DEF Regenerate, Enqueue, RedisLoss, Stall, WindowPasses,
     BecomesIneligible, vars
<1> QED
  BY <1>1, <1>2, <1>3, <1>4 DEF Next

\* A worker gets to work by taking the job, and gets to the dispatch by
\* looking at the attempts; what others do leaves its selection alone.
Starts(w) ==
    pc'[w] # "idle" => \/ pc[w] # "idle"
                       \/ /\ overlapped' = (overlapped \/ \E v \in Workers \ {w} : pc[v] # "idle")
                          /\ \A v \in Workers \ {w} : pc'[v] = pc[v]
Selects(w) ==
    pc'[w] \in {"fenceB", "send"} =>
        \/ pc[w] \in {"fenceB", "send"} /\ batch'[w] = batch[w]
        \/ attempt' = attempt /\ \A t \in batch'[w] : isProcessable(attempt[t])

LEMMA WorkerMoves ==
    ASSUME TypeOK, [Next]_vars, NEW w \in Workers
    PROVE  Starts(w) /\ Selects(w)
<1> DEFINE Ok == Starts(w) /\ Selects(w)
<1> USE DEF local, seen, rows
<1>1. ASSUME NEW b \in Actors, NEW step, pc[b] # "idle", Goto(b, step),
             step \notin {"fenceB", "send"},
             batch' = batch \/ \E S : batch' = [batch EXCEPT ![b] = S]
      PROVE  Ok
  BY <1>1 DEF TypeOK, Actors, Starts, Selects, Goto
<1>2. ASSUME NEW b \in Actors, pc[b] # "idle", Forget(b) PROVE Ok
  <2>1. Goto(b, "idle") /\ batch' = [batch EXCEPT ![b] = {}]
    BY <1>2 DEF Forget
  <2> QED
    BY <1>1, <1>2, <2>1
<1>3. ASSUME UNCHANGED <<pc, batch>> PROVE Ok
  BY <1>3 DEF Starts, Selects
<1>4. ASSUME NEW b \in Actors, ResultStep(b) PROVE Ok
  <2>0. \A results, tokens : After(results, tokens) \notin {"fenceB", "send"}
    BY DEF After
  <2>1. CASE Close(b)
    BY <2>0, <2>1, <1>1 DEF Close
  <2>2. ASSUME NEW u \in Tokens, Record(b, u) PROVE Ok
    BY <2>0, <2>2, <1>1 DEF Record, Recorded
  <2>3. CASE Swap(b)
    BY <2>0, <2>3, <1>1 DEF Swap, Recorded
  <2>4. CASE Aggregate(b)
    BY <2>4, <1>1 DEF Aggregate
  <2>5. CASE Look(b)
    BY <2>5, <1>1, <1>2 DEF Look, Return
  <2>6. CASE Conclude(b)
    BY <2>6, <1>2 DEF Conclude, Return
  <2> QED
    BY <1>4, <2>1, <2>2, <2>3, <2>4, <2>5, <2>6 DEF ResultStep
<1>5. ASSUME NEW v \in Workers, Run(v) PROVE Ok
  BY <1>5 DEF Run, Goto, TypeOK, Actors, Starts, Selects
<1>6. ASSUME NEW v \in Workers, Fence(v) PROVE Ok
  <2>1. pc[v] # "idle" /\ v \in Actors
    BY <1>6 DEF Fence, Actors
  <2>2. CASE Return(v, {"none"})
    BY <2>1, <2>2, <1>2 DEF Return
  <2>3. CASE Goto(v, "close") /\ batch' = [batch EXCEPT ![v] = {}]
    BY <2>1, <2>3, <1>1
  <2>4. CASE Goto(v, IF pc[v] = "fenceA" THEN "ensure" ELSE "send") /\ UNCHANGED local
    BY <1>6, <2>1, <2>4 DEF Fence, Goto, TypeOK, Actors, Starts, Selects
  <2> QED
    BY <1>6, <2>2, <2>3, <2>4 DEF Fence
<1>7. ASSUME NEW v \in Workers, Relist(v) PROVE Ok
  <2> DEFINE open == {t \in batch[v] : isProcessable(attempt[t])}
  <2>1. /\ pc[v] = "relist" /\ attempt' = attempt
        /\ batch' = [batch EXCEPT ![v] = open]
        /\ pc' = [pc EXCEPT ![v] = IF open = {} THEN "aggregate" ELSE "fenceB"]
    BY <1>7 DEF Relist, Goto
  <2>2. \A t \in open : isProcessable(attempt[t])
    OBVIOUS
  <2> HIDE DEF open
  <2> QED
    BY <2>1, <2>2 DEF TypeOK, Actors, Starts, Selects
<1>8. ASSUME NEW v \in Workers, Ensure(v) \/ List(v) \/ Send(v) PROVE Ok
  <2>1. pc[v] # "idle" /\ v \in Actors
    BY <1>8 DEF Ensure, List, Send, Actors
  <2>2. \A results, tokens : After(results, tokens) \notin {"fenceB", "send"}
    BY DEF After
  <2>3. CASE Ensure(v)
    BY <2>1, <2>3, <1>1 DEF Ensure
  <2>4. CASE List(v)
    BY <2>1, <2>2, <2>4, <1>1 DEF List
  <2>5. CASE Send(v)
    BY <2>1, <2>5, <1>1 DEF Send
  <2> QED
    BY <1>8, <2>3, <2>4, <2>5
<1>9. ASSUME NEW b \in Actors, CallFails(b) \/ Crash(b) PROVE Ok
  BY <1>9, <1>2 DEF CallFails, Crash, Return
<1>10. CASE Reconcile \/ Requeue
  BY <1>10, ReconcilerAssumption DEF Reconcile, Requeue, Goto, TypeOK, Actors, Starts, Selects
<1>11. CASE \/ Regenerate \/ Enqueue \/ RedisLoss \/ Stall \/ WindowPasses
           \/ BecomesIneligible \/ UNCHANGED vars
  BY <1>11, <1>3 DEF Regenerate, Enqueue, RedisLoss, Stall, WindowPasses,
     BecomesIneligible, vars
<1>12. Reconciler \in Actors /\ Workers \subseteq Actors
  BY DEF Actors
<1> QED
  BY <1>4, <1>5, <1>6, <1>7, <1>8, <1>9, <1>10, <1>11, <1>12
     DEF Next, WorkerStep, ReconcilerStep

\* Without overlapping workers no push that is recorded as sent is sent again,
\* whatever crashes, fails, expires or is lost.
THEOREM NoResend == Spec => []KnownSentIsNotResent
<1>1. Init => ResendInv
  BY DEF Init, ResendInv, NoResults, Actors
<1>2. TypeOK /\ ResendInv /\ [Next]_vars => ResendInv'
  <2> SUFFICES ASSUME TypeOK, ResendInv, [Next]_vars PROVE ResendInv'
    OBVIOUS
  <2>1. Reconciler \in Actors
    BY DEF Actors
  <2>2. ASSUME NEW t \in Tokens PROVE todo'[Reconciler][t] # "SENT"
    BY <2>1, ResultSource, ReconcilerAssumption DEF ResendInv
  <2>3. ASSUME ~overlapped', NEW v \in Workers, NEW w \in Workers,
               pc'[v] # "idle", pc'[w] # "idle"
        PROVE  v = w
    <3>1. ~overlapped
      BY <2>3, OverlapStays
    <3> QED
      BY <2>3, <3>1, WorkerMoves DEF ResendInv, Starts
  <2>4. ASSUME ~overlapped', NEW w \in Workers, pc'[w] \in {"fenceB", "send"},
               NEW t \in Tokens, t \in batch'[w], attempt'[t] = "SENT"
        PROVE  FALSE
    <3>1. ~overlapped
      BY <2>4, OverlapStays
    <3>2. CASE pc[w] \in {"fenceB", "send"} /\ batch'[w] = batch[w]
      <4>1. attempt[t] # "SENT"
        BY <2>4, <3>1, <3>2 DEF ResendInv, With
      <4>2. PICK a \in Actors : pc[a] = "swap" /\ todo[a][t] = "SENT"
        BY <2>4, <4>1, SentSource
      <4>3. a \in Workers
        BY <4>2 DEF ResendInv, Actors
      <4> QED
        BY <3>1, <3>2, <4>2, <4>3 DEF ResendInv
    <3>3. CASE attempt' = attempt /\ \A u \in batch'[w] : isProcessable(attempt[u])
      BY <2>4, <3>3, RetryCodesAssumption DEF isProcessable, Final
    <3> QED
      BY <2>4, <3>2, <3>3, WorkerMoves DEF Selects
  <2> QED
    BY <2>2, <2>3, <2>4 DEF ResendInv, With
<1>3. ResendInv => KnownSentIsNotResent
  BY DEF ResendInv, KnownSentIsNotResent
<1> QED
  BY <1>1, <1>2, <1>3, TypeCorrect, PTL DEF Spec

=============================================================================
