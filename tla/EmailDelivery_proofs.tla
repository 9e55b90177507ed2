------------------------- MODULE EmailDelivery_proofs -------------------------
(***************************************************************************)
(* For any number of recipients, workers and faults, the provider is       *)
(* called at most once for a recipient, and a batch reported as succeeded  *)
(* was delivered; every step is one of SendOnce or changes nothing there.  *)
(***************************************************************************)
EXTENDS EmailDelivery, TLAPS

\* A worker that may still call the provider for r, or let another one do so.
Owns(w, r) == on[w] = r /\ pc[w] \in BeforeSend \cup {"RETRYABLE"}

\* The inductive invariant behind NoSecondSend: a claimable recipient has no
\* owner and no attempt, an attempted one has no owner, owners are unique.
OneOwner ==
    /\ \A r \in Recipients : \A w, v \in Workers :
          Owns(w, r) /\ Owns(v, r) => w = v
    /\ \A r \in Recipients : \A w \in Workers :
          Owns(w, r) => status[r] \notin Claimable /\ attempts[r] = 0
    /\ \A r \in Recipients : status[r] \in Claimable => attempts[r] = 0
    /\ NoSecondSend

\* Type correctness of every variable, the base of the other proof.
THEOREM TypeCorrect == Spec => []TypeOK
<1>1. Init => TypeOK
  <2> SUFFICES ASSUME Init PROVE TypeOK
    OBVIOUS
  <2>1. job \in [Recipients -> {"none", "waiting", "active"}]
    BY DEF Init
  <2>2. /\ status \in [Recipients -> Statuses] /\ batch \in BatchStatuses
        /\ attempts \in [Recipients -> 0..2] /\ plan \in [Recipients -> Decisions]
        /\ pc \in [Actors -> Steps] /\ after \in [Actors -> Afters]
        /\ counted \in [Actors -> BatchStatuses]
    BY DEF Init, Statuses, BatchStatuses, Steps, Refreshing, Afters, Decisions
  <2>3. faults \in 0..MaxFaults
    BY MaxFaultsAssumption DEF Init
  <2> QED
    BY <2>1, <2>2, <2>3 DEF Init, TypeOK
<1>2. TypeOK /\ [Next]_vars => TypeOK'
  <2> SUFFICES ASSUME TypeOK, [Next]_vars PROVE TypeOK'
    OBVIOUS
  <2> USE DEF TypeOK, Statuses, BatchStatuses, Steps, Sending, BeforeSend,
              Writes, Refreshing, Afters, Decisions, Actors, Goto, Write, Fault, Claimable,
              delivery, effects, queue, local
  <2>1. CASE CancelChecks
    BY <2>1 DEF CancelChecks
  <2>2. CASE CancelBatch
    BY <2>2 DEF CancelBatch
  <2>3. CASE CancelRecipients
    BY <2>3 DEF CancelRecipients
  <2>4. ASSUME NEW w \in Workers, NEW r \in Recipients, Run(w, r) PROVE TypeOK'
    <3>1. Course(r) \in {"UNKNOWN", "cancelled", "claim", "idle"}
      BY DEF Course
    <3> QED
      BY <2>4, <3>1 DEF Run
  <2>5. ASSUME NEW w \in Workers, Claim(w) PROVE TypeOK'
    BY <2>5 DEF Claim, Claims, Return
  <2>6. ASSUME NEW w \in Workers, markBatchProcessing(w) PROVE TypeOK'
    BY <2>6 DEF markBatchProcessing, Processing
  <2>7. ASSUME NEW w \in Workers, Prepare(w) PROVE TypeOK'
    BY <2>7 DEF Prepare, NotSent
  <2>8. ASSUME NEW w \in Workers, SendRefused(w) PROVE TypeOK'
    BY <2>8 DEF SendRefused, NotSent
  <2>9. ASSUME NEW w \in Workers, Send(w) PROVE TypeOK'
    <3>1. attempts' \in [Recipients -> 0..2]
      BY <2>9 DEF Send
    <3>2. accepted' \in SUBSET Recipients /\ pc' \in [Actors -> Steps]
      BY <2>9 DEF Send
    <3> QED
      BY <2>9, <3>1, <3>2 DEF Send
  <2>10. ASSUME NEW w \in Workers, Apply(w) PROVE TypeOK'
    BY <2>10 DEF Apply
  <2>11. ASSUME NEW w \in Workers, Close(w) PROVE TypeOK'
    <3>1. status' \in [Recipients -> Statuses] /\ stale' \in SUBSET Recipients
      BY <2>11 DEF Close, Closes
    <3>2. pc' \in [Actors -> Steps] /\ after' \in [Actors -> Afters]
      BY <2>11 DEF Close, Afterwards
    <3> QED
      BY <2>11, <3>1, <3>2 DEF Close
  <2>12. ASSUME NEW a \in Actors, Count(a) PROVE TypeOK'
    <3>1. CountedStatus \in BatchStatuses
      BY DEF CountedStatus
    <3> HIDE DEF BatchStatuses
    <3> QED
      BY <2>12, <3>1 DEF Count, BatchStatuses
  <2>24. ASSUME NEW a \in Actors, Refresh(a) PROVE TypeOK'
    BY <2>24 DEF Refresh, Done, Return, Thrown
  <2>13. ASSUME NEW a \in Actors, WriteBatch(a) PROVE TypeOK'
    BY <2>13 DEF WriteBatch, Done, Return, Thrown
  <2>14. ASSUME NEW w \in Workers, CallFails(w) PROVE TypeOK'
    <3>1. status' \in [Recipients -> Statuses] /\ stale' \in SUBSET Recipients
      BY <2>14 DEF CallFails, Claims, Closes
    <3>2. /\ pc' \in [Actors -> Steps] /\ after' \in [Actors -> Afters]
          /\ counted' \in [Actors -> BatchStatuses] /\ on' \in [Actors -> Recipients]
          /\ job' \in [Recipients -> {"none", "waiting", "active"}]
          /\ runner' \in [Recipients -> Workers \cup {None}]
      BY <2>14 DEF CallFails, Return, Thrown
    <3>3. faults' \in 0..MaxFaults
      BY <2>14, MaxFaultsAssumption DEF CallFails
    <3>4. batch' \in BatchStatuses /\ applied' \in SUBSET Recipients
      BY <2>14 DEF CallFails, Processing
    <3> QED
      BY <2>14, <3>1, <3>2, <3>3, <3>4 DEF CallFails
  <2>15. ASSUME NEW w \in Workers, WorkerCrash(w) PROVE TypeOK'
    BY <2>15, MaxFaultsAssumption DEF WorkerCrash
  <2>16. ASSUME NEW r \in Recipients, Stall(r) PROVE TypeOK'
    BY <2>16 DEF Stall
  <2>17. CASE RedisLoss
    BY <2>17, MaxFaultsAssumption DEF RedisLoss
  <2>18. CASE List
    <3>1. \A r \in Recipients : \A out : Listed(r, out) \in Decisions
      BY DEF Listed
    <3> HIDE DEF Decisions
    <3> QED
      BY <2>18, <3>1 DEF List
  <2>19. ASSUME NEW r \in Recipients, Treat(r) PROVE TypeOK'
    BY <2>19 DEF Treat, QueueAdd
  <2>20. CASE ReconcileAborts
    BY <2>20, MaxFaultsAssumption DEF ReconcileAborts
  <2>21. ASSUME NEW r \in Recipients, LeasePasses(r) PROVE TypeOK'
    BY <2>21 DEF LeasePasses
  <2>22. CASE WindowPasses
    BY <2>22 DEF WindowPasses
  <2>23. CASE UNCHANGED vars
    BY <2>23 DEF vars
  <2> QED
    BY <2>1, <2>2, <2>3, <2>4, <2>5, <2>6, <2>7, <2>8, <2>9, <2>10, <2>11,
       <2>12, <2>13, <2>14, <2>15, <2>16, <2>17, <2>18, <2>19, <2>20, <2>21,
       <2>22, <2>23, <2>24
       DEF Next, WorkerStep, ReconcilerStep, CancelStep
<1> QED
  BY <1>1, <1>2, PTL DEF Spec

\* Only a claim leads to sendMail, and no path leads from it back to a
\* claimable status.
LEMMA OneOwnerInvariant == Spec => []OneOwner
<1>1. Init => OneOwner
  BY DEF Init, OneOwner, Owns, NoSecondSend, BeforeSend, Actors
<1>2. TypeOK /\ OneOwner /\ [Next]_vars => OneOwner'
  <2> SUFFICES ASSUME TypeOK, OneOwner, [Next]_vars PROVE OneOwner'
    OBVIOUS
  <2> USE DEF TypeOK, OneOwner, Owns, NoSecondSend, BeforeSend, Claimable, Actors,
              Goto, Write, delivery, effects, queue, local
  <2>1. CASE CancelChecks \/ CancelBatch \/ CancelRecipients
    BY <2>1 DEF CancelChecks, CancelBatch, CancelRecipients
  <2>2. ASSUME NEW w \in Workers, NEW r \in Recipients, Run(w, r) PROVE OneOwner'
    <3>1. Course(r) \in {"UNKNOWN", "cancelled", "claim", "idle"}
      BY DEF Course
    <3> QED
      BY <2>2, <3>1 DEF Run
  <2>3. ASSUME NEW w \in Workers, Claim(w) PROVE OneOwner'
    <3>1. CASE Claims(on[w]) /\ Goto(w, "begin") /\ UNCHANGED <<queue, local>>
      BY <2>3, <3>1 DEF Claim, Claims
    <3>2. CASE Return(w, {"none"}) /\ UNCHANGED delivery
      BY <2>3, <3>2 DEF Claim, Return
    <3> QED
      BY <2>3, <3>1, <3>2 DEF Claim
  <2>4. ASSUME NEW w \in Workers,
               \/ markBatchProcessing(w) \/ Prepare(w) \/ SendRefused(w) \/ Apply(w)
        PROVE OneOwner'
    BY <2>4 DEF markBatchProcessing, Prepare, SendRefused, NotSent, Apply
  <2>5. ASSUME NEW w \in Workers, Send(w) PROVE OneOwner'
    <3>1. on[w] \in Recipients /\ Owns(w, on[w]) /\ attempts[on[w]] = 0
      BY <2>5 DEF Send
    <3>2. attempts' = [attempts EXCEPT ![on[w]] = 1]
      BY <2>5, <3>1 DEF Send
    <3>3. pc'[w] \notin BeforeSend \cup {"RETRYABLE"}
      BY <2>5 DEF Send
    <3>4. \A v \in Workers \ {w} : pc'[v] = pc[v]
      BY <2>5 DEF Send
    <3>5. UNCHANGED <<status, on>>
      BY <2>5 DEF Send
    <3>6. \A v \in Workers, r \in Recipients :
             Owns(v, r)' => Owns(v, r) /\ v # w
      BY <3>3, <3>4, <3>5
    <3>7. \A v \in Workers, r \in Recipients : Owns(v, r)' => r # on[w]
      BY <3>1, <3>6
    <3>8. \A r \in Recipients \ {on[w]} : attempts'[r] = attempts[r]
      BY <3>2
    <3>9. attempts'[on[w]] = 1 /\ status[on[w]] \notin Claimable
      BY <3>1, <3>2
    <3> HIDE DEF Owns
    <3> QED
      BY <3>5, <3>6, <3>7, <3>8, <3>9
  <2>6. ASSUME NEW w \in Workers, Close(w) PROVE OneOwner'
    <3>1. /\ pc' = [pc EXCEPT ![w] = "refresh"]
          /\ UNCHANGED <<on, attempts>>
      BY <2>6 DEF Close
    <3>2. CASE pc[w] = "RETRYABLE"
      <4>1. status' = [status EXCEPT ![on[w]] = "RETRYABLE"]
        BY <2>6, <3>2 DEF Close, Closes, Writes
      <4>2. on[w] \in Recipients /\ Owns(w, on[w])
        BY <3>2
      <4> QED
        BY <3>1, <4>1, <4>2
    <3>3. CASE pc[w] # "RETRYABLE"
      <4>1. \/ UNCHANGED status
            \/ \E s \in Statuses \ Claimable : status' = [status EXCEPT ![on[w]] = s]
        BY <2>6, <3>3 DEF Close, Closes, Writes, Statuses
      <4> QED
        BY <3>1, <4>1
    <3> QED
      BY <3>2, <3>3
  <2>7. ASSUME NEW a \in Actors, Refresh(a) \/ Count(a) \/ WriteBatch(a)
        PROVE OneOwner'
    BY <2>7 DEF Refresh, Count, WriteBatch, Done, Return
  <2>8. ASSUME NEW w \in Workers, CallFails(w) PROVE OneOwner'
    <3>1. /\ pc'[w] \in {"UNKNOWN", "idle"}
          /\ \A v \in Workers \ {w} : pc'[v] = pc[v]
          /\ UNCHANGED <<on, attempts>>
      BY <2>8 DEF CallFails, Return
    <3>2. CASE UNCHANGED delivery
      BY <3>1, <3>2
    <3>3. CASE pc[w] = "claim" /\ Claims(on[w])
      BY <3>1, <3>3 DEF Claims
    <3>4. CASE Closes(w) /\ pc[w] # "RETRYABLE"
      BY <3>1, <3>4 DEF Closes, Writes
    <3>5. CASE Closes(w) /\ pc[w] = "RETRYABLE"
      BY <3>1, <3>5 DEF Closes, Writes
    <3> QED
      BY <2>8, <3>2, <3>3, <3>4, <3>5 DEF CallFails
  <2>9. ASSUME NEW w \in Workers, WorkerCrash(w) PROVE OneOwner'
    BY <2>9 DEF WorkerCrash
  <2>10. ASSUME NEW r \in Recipients, Stall(r) \/ LeasePasses(r) PROVE OneOwner'
    BY <2>10 DEF Stall, LeasePasses
  <2>11. ASSUME NEW r \in Recipients, Treat(r) PROVE OneOwner'
    BY <2>11, ReconcilerAssumption DEF Treat, Writes, Decisions
  <2>12. CASE RedisLoss \/ List \/ ReconcileAborts \/ WindowPasses
    BY <2>12, ReconcilerAssumption DEF RedisLoss, List, ReconcileAborts, WindowPasses
  <2>13. CASE UNCHANGED vars
    BY <2>13 DEF vars
  <2> QED
    BY <2>1, <2>2, <2>3, <2>4, <2>5, <2>6, <2>7, <2>8, <2>9, <2>10, <2>11,
       <2>12, <2>13
       DEF Next, WorkerStep, ReconcilerStep, CancelStep
<1> QED
  BY <1>1, <1>2, TypeCorrect, PTL DEF Spec

\* However workers crash, stall, lose answers or run the same job twice, and
\* however stale the reconciler's decisions are, sendMail is called at most
\* once per recipient.
THEOREM AtMostOneSend == Spec => []NoSecondSend
<1>1. OneOwner => NoSecondSend
  BY DEF OneOwner
<1> QED
  BY <1>1, OneOwnerInvariant, PTL

\* The mail of r has left, and so has its temporary password if it has one.
Delivered(r) == r \in accepted /\ (r \in Credentials => r \in applied)

\* The inductive invariant behind SucceededMeansDelivered: whatever is about to
\* be recorded as sent, is recorded so, was counted so or aggregated so, has
\* been delivered.  What was delivered stays delivered, so counts may be stale.
DeliveredInv ==
    /\ \A r \in Recipients : status[r] = "SENT" => Delivered(r)
    /\ \A w \in Workers : /\ pc[w] = "apply" => on[w] \in accepted \cap Credentials
                          /\ pc[w] = "markSent" => Delivered(on[w])
    /\ \A a \in Actors : counted[a] = "SUCCEEDED" => \A r \in Recipients : Delivered(r)
    /\ batch = "SUCCEEDED" => \A r \in Recipients : Delivered(r)

\* refreshBatchStatus counts success only when every recipient was sent to.
LEMMA CountedSuccess ==
    ASSUME CountedStatus = "SUCCEEDED"
    PROVE  \A r \in Recipients : status[r] = "SENT"
BY DEF CountedStatus

\* No refresh, however late, counts as sent what was not delivered.
LEMMA DeliveredInvariant == Spec => []DeliveredInv
<1>1. Init => DeliveredInv
  BY DEF Init, DeliveredInv, Actors
<1>2. TypeOK /\ DeliveredInv /\ [Next]_vars => DeliveredInv'
  <2> SUFFICES ASSUME TypeOK, DeliveredInv, [Next]_vars PROVE DeliveredInv'
    OBVIOUS
  <2> USE DEF TypeOK, DeliveredInv, Delivered, Actors, Goto, Write,
              delivery, effects, queue, local
  <2>1. CASE CancelChecks \/ CancelBatch \/ CancelRecipients
    BY <2>1 DEF CancelChecks, CancelBatch, CancelRecipients
  <2>2. ASSUME NEW w \in Workers, NEW r \in Recipients, Run(w, r) PROVE DeliveredInv'
    <3>1. Course(r) \in {"UNKNOWN", "cancelled", "claim", "idle"}
      BY DEF Course
    <3> QED
      BY <2>2, <3>1 DEF Run
  <2>3. ASSUME NEW w \in Workers, Claim(w) PROVE DeliveredInv'
    BY <2>3 DEF Claim, Claims, Return
  <2>4. ASSUME NEW w \in Workers,
               \/ markBatchProcessing(w) \/ Prepare(w) \/ SendRefused(w)
        PROVE DeliveredInv'
    BY <2>4 DEF markBatchProcessing, Processing, Prepare, SendRefused, NotSent
  <2>5. ASSUME NEW w \in Workers, Send(w) PROVE DeliveredInv'
    <3>1. accepted \subseteq accepted'
      BY <2>5 DEF Send
    <3>2. /\ pc'[w] = "apply" => on[w] \in accepted' \cap Credentials
          /\ pc'[w] = "markSent" => on[w] \in accepted' /\ on[w] \notin Credentials
          /\ \A v \in Workers \ {w} : pc'[v] = pc[v]
      BY <2>5 DEF Send
    <3>3. UNCHANGED <<status, batch, applied, on, counted>>
      BY <2>5 DEF Send
    <3> QED
      BY <3>1, <3>2, <3>3
  <2>6. ASSUME NEW w \in Workers, Apply(w) PROVE DeliveredInv'
    BY <2>6 DEF Apply
  <2>7. ASSUME NEW w \in Workers, Close(w) PROVE DeliveredInv'
    <3>1. \A r \in Recipients : status'[r] = "SENT" => Delivered(r)
      BY <2>7 DEF Close, Closes, Writes
    <3>2. /\ pc' = [pc EXCEPT ![w] = "refresh"]
          /\ UNCHANGED <<batch, accepted, applied, on, counted>>
      BY <2>7 DEF Close
    <3> QED
      BY <3>1, <3>2
  <2>8. ASSUME NEW a \in Actors, Refresh(a) PROVE DeliveredInv'
    BY <2>8 DEF Refresh, Done, Return
  <2>9. ASSUME NEW a \in Actors, Count(a) PROVE DeliveredInv'
    <3>1. CountedStatus = "SUCCEEDED" => \A r \in Recipients : Delivered(r)
      BY CountedSuccess
    <3>2. /\ counted' = [counted EXCEPT ![a] = CountedStatus]
          /\ pc' = [pc EXCEPT ![a] = "write"]
          /\ UNCHANGED <<status, batch, accepted, applied, on>>
      BY <2>9 DEF Count
    <3> QED
      BY <3>1, <3>2
  <2>10. ASSUME NEW a \in Actors, WriteBatch(a) PROVE DeliveredInv'
    BY <2>10 DEF WriteBatch, Done, Return
  <2>11. ASSUME NEW w \in Workers, CallFails(w) PROVE DeliveredInv'
    <3>1. /\ pc'[w] \in {"UNKNOWN", "idle"}
          /\ \A v \in Workers \ {w} : pc'[v] = pc[v]
          /\ \A a \in Actors : counted'[a] \in {counted[a], "QUEUED"}
          /\ UNCHANGED <<on, accepted>>
      BY <2>11 DEF CallFails, Return
    <3>2. applied \subseteq applied'
      BY <2>11 DEF CallFails
    <3>3. \A r \in Recipients : status'[r] = "SENT" => Delivered(r)
      BY <2>11 DEF CallFails, Claims, Closes, Writes
    <3>4. batch' = "SUCCEEDED" => \A r \in Recipients : Delivered(r)
      BY <2>11 DEF CallFails, Processing
    <3> QED
      BY <3>1, <3>2, <3>3, <3>4
  <2>12. ASSUME NEW w \in Workers, WorkerCrash(w) PROVE DeliveredInv'
    BY <2>12 DEF WorkerCrash
  <2>13. ASSUME NEW r \in Recipients, Stall(r) \/ LeasePasses(r) PROVE DeliveredInv'
    BY <2>13 DEF Stall, LeasePasses
  <2>14. ASSUME NEW r \in Recipients, Treat(r) PROVE DeliveredInv'
    BY <2>14, ReconcilerAssumption DEF Treat, Writes
  <2>15. CASE RedisLoss \/ List \/ ReconcileAborts \/ WindowPasses
    BY <2>15, ReconcilerAssumption DEF RedisLoss, List, ReconcileAborts, WindowPasses
  <2>16. CASE UNCHANGED vars
    BY <2>16 DEF vars
  <2> QED
    BY <2>1, <2>2, <2>3, <2>4, <2>5, <2>6, <2>7, <2>8, <2>9, <2>10, <2>11,
       <2>12, <2>13, <2>14, <2>15, <2>16
       DEF Next, WorkerStep, ReconcilerStep, CancelStep
<1> QED
  BY <1>1, <1>2, TypeCorrect, PTL DEF Spec

\* However refreshes of workers, the reconciler and the cancellation interleave
\* and overtake each other, a batch is reported as succeeded only when every
\* mail was accepted and every temporary password is in force.
THEOREM SuccessIsDelivery == Spec => []SucceededMeansDelivered
<1>1. TypeOK /\ DeliveredInv => SucceededMeansDelivered
  BY CredentialsAssumption DEF TypeOK, DeliveredInv, Delivered, SucceededMeansDelivered
<1> QED
  BY <1>1, TypeCorrect, DeliveredInvariant, PTL

-----------------------------------------------------------------------------
(***************************************************************************)
(* The queue, the workers, the reconciler and the cancellation together    *)
(* implement SendOnce.                                                     *)
(***************************************************************************)
\* The steps that touch what the promise is about: a worker's call of the
\* provider, the application of a password, and the writes of the batch status.
LEMMA EffectMoves ==
    ASSUME TypeOK, [Next]_vars
    PROVE  \/ \E w \in Workers : Send(w)
           \/ /\ UNCHANGED <<attempts, accepted, batch>>
              /\ \/ UNCHANGED applied
                 \/ \E w \in Workers : pc[w] = "apply" /\ applied' = applied \cup {on[w]}
           \/ UNCHANGED <<attempts, accepted, applied>>
<1> USE DEF delivery, effects, queue, local
<1>1. ASSUME NEW w \in Workers, NEW r \in Recipients, Run(w, r)
      PROVE  UNCHANGED <<attempts, accepted, applied>>
  BY <1>1 DEF Run
<1>2. ASSUME NEW w \in Workers,
             \/ Claim(w) \/ markBatchProcessing(w) \/ Prepare(w) \/ SendRefused(w)
             \/ Close(w) \/ WorkerCrash(w)
      PROVE  UNCHANGED <<attempts, accepted, applied>>
  BY <1>2 DEF Claim, markBatchProcessing, Prepare, SendRefused, Close, WorkerCrash
<1>3. ASSUME NEW a \in Actors, Refresh(a) \/ Count(a) \/ WriteBatch(a)
      PROVE  UNCHANGED <<attempts, accepted, applied>>
  BY <1>3 DEF Refresh, Count, WriteBatch
<1>4. ASSUME NEW w \in Workers, Apply(w)
      PROVE  /\ UNCHANGED <<attempts, accepted, batch>>
             /\ pc[w] = "apply" /\ applied' = applied \cup {on[w]}
  BY <1>4 DEF Apply
<1>5. ASSUME NEW w \in Workers, CallFails(w)
      PROVE  \/ /\ UNCHANGED <<attempts, accepted, batch>>
                /\ pc[w] = "apply" /\ applied' = applied \cup {on[w]}
             \/ UNCHANGED <<attempts, accepted, applied>>
  BY <1>5 DEF CallFails
<1>6. ASSUME NEW r \in Recipients, Stall(r) \/ LeasePasses(r) \/ Treat(r)
      PROVE  UNCHANGED <<attempts, accepted, applied>>
  BY <1>6 DEF Stall, LeasePasses, Treat
<1>7. CASE \/ CancelChecks \/ CancelBatch \/ CancelRecipients \/ RedisLoss \/ List
           \/ ReconcileAborts \/ WindowPasses
  BY <1>7 DEF CancelChecks, CancelBatch, CancelRecipients, RedisLoss, List,
     ReconcileAborts, WindowPasses
<1>8. CASE UNCHANGED vars
  BY <1>8 DEF vars
<1> QED
  BY <1>1, <1>2, <1>3, <1>4, <1>5, <1>6, <1>7, <1>8
     DEF Next, WorkerStep, ReconcilerStep, CancelStep, Actors

\* Whatever crashes, stalls, is lost, answered late or refreshed out of order,
\* the batch does what SendOnce promises, one step of it at a time: one attempt
\* per recipient, a password only after its mail was taken, a success only when
\* everything was delivered.
THEOREM ImplementsSendOnce == Spec => Promise!Spec
<1>1. Init => Promise!Init
  BY DEF Init, Promise!Init
<1>2. /\ TypeOK /\ OneOwner /\ DeliveredInv /\ SucceededMeansDelivered'
      /\ [Next]_vars
      => [Promise!Next]_(Promise!vars)
  <2> SUFFICES ASSUME TypeOK, OneOwner, DeliveredInv, SucceededMeansDelivered',
                      [Next]_vars
               PROVE  [Promise!Next]_(Promise!vars)
    OBVIOUS
  <2> USE DEF Promise!vars
  <2>1. ASSUME NEW w \in Workers, Send(w) PROVE Promise!Next
    <3>1. on[w] \in Recipients
      BY DEF TypeOK, Actors
    <3>2. attempts[on[w]] = 0
      BY <2>1, <3>1 DEF Send, OneOwner, Owns, BeforeSend
    <3>3. Promise!Send(on[w])
      BY <2>1, <3>2 DEF Send, Promise!Send, delivery, queue, local
    <3> QED
      BY <3>1, <3>3 DEF Promise!Next
  <2>2. ASSUME NEW w \in Workers, pc[w] = "apply", applied' = applied \cup {on[w]},
               UNCHANGED <<attempts, accepted, batch>>
        PROVE  Promise!Next
    <3>1. on[w] \in Recipients /\ on[w] \in accepted \cap Credentials
      BY <2>2 DEF TypeOK, Actors, DeliveredInv
    <3> QED
      BY <2>2, <3>1 DEF Promise!Next, Promise!Apply
  <2>3. CASE UNCHANGED <<attempts, accepted, applied>>
    <3>1. CASE batch' = "SUCCEEDED"
      BY <2>3, <3>1 DEF Promise!Next, Promise!Report, SucceededMeansDelivered
    <3>2. CASE batch' # "SUCCEEDED"
      BY <2>3, <3>2 DEF Promise!Next, Promise!TakeBack
    <3> QED
      BY <3>1, <3>2
  <2> QED
    BY <2>1, <2>2, <2>3, EffectMoves
<1> QED
  BY <1>1, <1>2, TypeCorrect, OneOwnerInvariant, DeliveredInvariant, SuccessIsDelivery,
     PTL DEF Spec, Promise!Spec

-----------------------------------------------------------------------------
(***************************************************************************)
(* markRecipientSent and markRecipientFailed are unconditional, so what    *)
(* was recorded of a recipient can be overwritten: only by those who had   *)
(* begun before.                                                           *)
(***************************************************************************)
\* The recipient is settled, the reconciler holds no decision against it and no
\* worker is past the point where it would notice.
LeftAlone(r) ==
    /\ status[r] \notin Claimable \cup {"SENDING"}
    /\ plan[r] \notin Writes
    /\ \A w \in Workers : on[w] = r => pc[w] \in {"idle", "claim"}

\* The use case is past markRecipientSent only while it refreshes the batch.
SentIsRefreshing == \A w \in Workers : after[w] = "sent" => pc[w] \in Refreshing

LEMMA SentIsRefreshingInvariant == Spec => []SentIsRefreshing
<1>1. Init => SentIsRefreshing
  BY DEF Init, SentIsRefreshing, Actors
<1>2. TypeOK /\ SentIsRefreshing /\ [Next]_vars => SentIsRefreshing'
  <2> SUFFICES ASSUME TypeOK, SentIsRefreshing, [Next]_vars PROVE SentIsRefreshing'
    OBVIOUS
  <2> USE ReconcilerAssumption DEF TypeOK, SentIsRefreshing, Refreshing, Actors, Goto,
          delivery, effects, queue, local
  <2>1. ASSUME NEW w \in Workers, NEW r \in Recipients, Run(w, r)
        PROVE  SentIsRefreshing'
    BY <2>1 DEF Run
  <2>2. ASSUME NEW w \in Workers,
               \/ Claim(w) \/ markBatchProcessing(w) \/ Prepare(w) \/ SendRefused(w)
               \/ Send(w) \/ Apply(w)
        PROVE  SentIsRefreshing'
    BY <2>2 DEF Claim, Return, markBatchProcessing, Prepare, SendRefused, Send, Apply
  <2>3. ASSUME NEW w \in Workers, Close(w) PROVE SentIsRefreshing'
    BY <2>3 DEF Close
  <2>4. ASSUME NEW a \in Actors, Refresh(a) \/ Count(a) \/ WriteBatch(a)
        PROVE  SentIsRefreshing'
    BY <2>4 DEF Refresh, Count, WriteBatch, Done, Return
  <2>5. ASSUME NEW w \in Workers, CallFails(w) \/ WorkerCrash(w) PROVE SentIsRefreshing'
    BY <2>5 DEF CallFails, WorkerCrash, Return
  <2>6. ASSUME NEW r \in Recipients, Stall(r) \/ LeasePasses(r) \/ Treat(r)
        PROVE  SentIsRefreshing'
    BY <2>6 DEF Stall, LeasePasses, Treat
  <2>7. CASE \/ CancelChecks \/ CancelBatch \/ CancelRecipients \/ RedisLoss \/ List
             \/ ReconcileAborts \/ WindowPasses
    BY <2>7 DEF CancelChecks, CancelBatch, CancelRecipients, RedisLoss, List,
       ReconcileAborts, WindowPasses
  <2>8. CASE UNCHANGED vars
    BY <2>8 DEF vars
  <2> QED
    BY <2>1, <2>2, <2>3, <2>4, <2>5, <2>6, <2>7, <2>8
       DEF Next, WorkerStep, ReconcilerStep, CancelStep
<1> QED
  BY <1>1, <1>2, TypeCorrect, PTL DEF Spec

\* A worker's write is about the recipient it is on, and only the claim, which
\* is refused, can still come.
LEMMA WorkerLeaves ==
    ASSUME TypeOK, SentIsRefreshing, NEW r \in Recipients, LeftAlone(r), NEW w \in Workers,
           WorkerStep(w) \/ CallFails(w) \/ WorkerCrash(w)
    PROVE  LeftAlone(r)' /\ status'[r] = status[r]
<1> USE DEF delivery, effects, queue, local, Goto, Write
<1>1. UNCHANGED <<plan, on>>
  BY ReconcilerAssumption DEF WorkerStep, Claim, markBatchProcessing, Prepare,
     SendRefused, Send, Apply, Close, Refresh, Count, WriteBatch, CallFails,
     WorkerCrash, Return, Done
<1>2. \A v \in Workers \ {w} : pc'[v] = pc[v]
  BY ReconcilerAssumption DEF WorkerStep, Claim, markBatchProcessing, Prepare,
     SendRefused, Send, Apply, Close, Refresh, Count, WriteBatch, CallFails,
     WorkerCrash, Return, Done, TypeOK, Actors
<1>3. CASE on[w] # r
  <2>1. status'[r] = status[r]
    BY <1>3 DEF WorkerStep, Claim, Claims, markBatchProcessing, Prepare, SendRefused,
       Send, Apply, Close, Closes, Refresh, Count, WriteBatch, CallFails, WorkerCrash,
       TypeOK
  <2> QED
    BY <1>1, <1>2, <1>3, <2>1 DEF LeftAlone
<1>4. CASE on[w] = r
  <2>1. pc[w] \in {"idle", "claim"} /\ status[on[w]] \notin Claimable
    BY <1>4 DEF LeftAlone
  <2>2. UNCHANGED status
    BY <2>1 DEF WorkerStep, Claim, Claims, markBatchProcessing, Prepare, SendRefused,
       Send, Apply, Close, Closes, Writes, Refresh, Count, WriteBatch, CallFails,
       WorkerCrash
  <2>3. after[w] # "sent"
    BY <2>1 DEF SentIsRefreshing, Refreshing
  <2>4. pc'[w] = "idle"
    BY <2>1, <2>3 DEF WorkerStep, Claim, Claims, markBatchProcessing, Prepare, SendRefused,
       Send, Apply, Close, Closes, Writes, Refresh, Count, WriteBatch, CallFails,
       WorkerCrash, Return, TypeOK, Actors
  <2> QED
    BY <1>1, <1>2, <2>2, <2>4 DEF LeftAlone
<1> QED
  BY <1>3, <1>4

\* What was recorded of a recipient is final for everyone who begins later: a
\* redelivered job, another worker's claim, the next round of the reconciler, the
\* cancellation.  Only an attempt under way, or a decision of the reconciler from
\* before, can still overwrite it.
THEOREM RecordIsFinalForLaterReads ==
    Spec => [][\A r \in Recipients :
                 LeftAlone(r) => LeftAlone(r)' /\ status'[r] = status[r]]_vars
<1>1. TypeOK /\ SentIsRefreshing /\ [Next]_vars =>
        [\A r \in Recipients : LeftAlone(r) => LeftAlone(r)' /\ status'[r] = status[r]]_vars
  <2> SUFFICES ASSUME TypeOK, SentIsRefreshing, [Next]_vars, NEW r \in Recipients,
                      LeftAlone(r)
               PROVE  LeftAlone(r)' /\ status'[r] = status[r]
    OBVIOUS
  <2> USE DEF delivery, effects, queue, local, Goto
  <2>1. ASSUME NEW w \in Workers, NEW s \in Recipients, Run(w, s)
        PROVE  LeftAlone(r)' /\ status'[r] = status[r]
    <3>1. /\ on' = [on EXCEPT ![w] = s] /\ UNCHANGED <<status, plan>>
          /\ pc' = [pc EXCEPT ![w] = Course(s)]
      BY <2>1 DEF Run
    <3>2. s = r => Course(s) = "idle"
      BY DEF Course, LeftAlone
    <3> QED
      BY <3>1, <3>2 DEF LeftAlone, TypeOK, Actors
  <2>2. CASE List
    <3>1. \A out : Listed(r, out) = "none"
      BY DEF Listed, LeftAlone
    <3> QED
      BY <2>2, <3>1 DEF List, LeftAlone, Writes
  <2>3. ASSUME NEW s \in Recipients, Treat(s)
        PROVE  LeftAlone(r)' /\ status'[r] = status[r]
    <3>1. status'[r] = status[r] /\ plan'[r] \notin Writes /\ UNCHANGED on
      BY <2>3 DEF Treat, LeftAlone, Write, Writes, TypeOK
    <3>2. \A w \in Workers : pc'[w] = pc[w]
      BY <2>3, ReconcilerAssumption DEF Treat, TypeOK, Actors
    <3> QED
      BY <3>1, <3>2 DEF LeftAlone
  <2>4. CASE ReconcileAborts
    <3>1. \A w \in Workers : pc'[w] = pc[w]
      BY <2>4, ReconcilerAssumption DEF ReconcileAborts, TypeOK, Actors
    <3> QED
      BY <2>4, <3>1 DEF ReconcileAborts, LeftAlone, Writes
  <2>5. CASE Refresh(Reconciler) \/ Count(Reconciler) \/ WriteBatch(Reconciler)
    <3>1. UNCHANGED <<status, plan, on>> /\ \A w \in Workers : pc'[w] = pc[w]
      BY <2>5, ReconcilerAssumption DEF Refresh, Count, WriteBatch, Done, TypeOK, Actors
    <3> QED
      BY <3>1 DEF LeftAlone
  <2>6. CASE CancelRecipients
    BY <2>6 DEF CancelRecipients, LeftAlone, Claimable
  <2>7. CASE UNCHANGED <<status, plan, pc, on>>
    BY <2>7 DEF LeftAlone
  <2>8. ASSUME NEW s \in Recipients, Stall(s) \/ LeasePasses(s)
        PROVE  UNCHANGED <<status, plan, pc, on>>
    BY <2>8 DEF Stall, LeasePasses
  <2>9. CASE CancelChecks \/ CancelBatch \/ RedisLoss \/ WindowPasses \/ UNCHANGED vars
    BY <2>7, <2>9 DEF CancelChecks, CancelBatch, RedisLoss, WindowPasses, vars
  <2> QED
    BY <2>1, <2>2, <2>3, <2>4, <2>5, <2>6, <2>7, <2>8, <2>9, WorkerLeaves
       DEF Next, ReconcilerStep, CancelStep
<1> QED
  BY <1>1, TypeCorrect, SentIsRefreshingInvariant, PTL DEF Spec

=============================================================================
