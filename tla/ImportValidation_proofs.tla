------------------------ MODULE ImportValidation_proofs ------------------------
(***************************************************************************)
(* For any number of imports, workers and faults, any lease and window:    *)
(* the conditional claim lets one worker at a time validate an import, and *)
(* its outcome is final for everyone who reads it later.                   *)
(***************************************************************************)
EXTENDS ImportValidation, TLAPS

\* While a claim is unbroken its row says so: it is PROCESSING and as old as
\* the claim, which is younger than the lease.  The exception is a worker whose
\* COMPLETED write was applied but reported as failed.
ClaimIsVisible ==
    \A i \in Imports : \A w \in Workers :
        Validating(w, i) /\ i \notin broken =>
            \/ status[i] = "PROCESSING" /\ updated[i] = held[w] /\ held[w] < Lease
            \/ status[i] = "COMPLETED"

\* The inductive invariant behind ClaimExcludes.
Inv == ClaimExcludes /\ ClaimIsVisible

\* Saturating clocks stay in their range.
LEMMA AgeTyped ==
    ASSUME NEW limit \in Nat, NEW n \in 0..limit
    PROVE  Age(n, limit) \in 0..limit
  BY DEF Age

\* Type correctness of every variable.
THEOREM TypeCorrect == Spec => []TypeOK
<1> USE LeaseAssumption, WindowAssumption, MaxFaultsAssumption
<1>1. Init => TypeOK
  <2> SUFFICES ASSUME Init PROVE TypeOK
    OBVIOUS
  <2>1. /\ created \in [Imports -> 0..Window] /\ updated \in [Imports -> 0..Lease]
        /\ held \in [Workers -> 0..Lease] /\ faults \in 0..MaxFaults
    BY DEF Init
  <2>2. /\ status \in [Imports -> Statuses] /\ request \in [Imports -> Requests]
        /\ job \in [Imports -> JobStates] /\ pc \in [Workers -> Steps]
        /\ plan \in [Imports -> Decisions]
    BY DEF Init, Statuses, Requests, JobStates, Steps, Decisions
  <2> QED
    BY <2>1, <2>2 DEF Init, TypeOK
<1>2. TypeOK /\ [Next]_vars => TypeOK'
  <2> SUFFICES ASSUME TypeOK, [Next]_vars PROVE TypeOK'
    OBVIOUS
  <2> USE DEF TypeOK, Statuses, Requests, JobStates, Steps, Claimed, Decisions,
              Goto, Fault, updateImportJob, overwriteImportJob, QueueAdd,
              row, source, queue, worker
  <2>1. ASSUME NEW i \in Imports, CreateImport(i) PROVE TypeOK'
    BY <2>1 DEF CreateImport
  <2>2. ASSUME NEW i \in Imports, Enqueue(i) PROVE TypeOK'
    BY <2>2 DEF Enqueue
  <2>3. ASSUME NEW i \in Imports, EnqueueFails(i) PROVE TypeOK'
    BY <2>3 DEF EnqueueFails
  <2>4. ASSUME NEW i \in Imports, MarkRetryable(i) PROVE TypeOK'
    BY <2>4 DEF MarkRetryable
  <2>5. ASSUME NEW i \in Imports, MarkFails(i) PROVE TypeOK'
    BY <2>5 DEF MarkFails
  <2>6. ASSUME NEW i \in Imports, ApiCrash(i) PROVE TypeOK'
    BY <2>6 DEF ApiCrash
  <2>7. ASSUME NEW i \in Imports, SourceBecomesIneligible(i) PROVE TypeOK'
    BY <2>7 DEF SourceBecomesIneligible
  <2>8. ASSUME NEW w \in Workers, NEW i \in Imports, Run(w, i) PROVE TypeOK'
    BY <2>8 DEF Run
  <2>9. ASSUME NEW w \in Workers, Lookup(w) PROVE TypeOK'
    BY <2>9 DEF Lookup, Return, Stop
  <2>10. ASSUME NEW w \in Workers, Claim(w) PROVE TypeOK'
    BY <2>10 DEF Claim, Return, Stop
  <2>11. ASSUME NEW w \in Workers, Stat(w) \/ StatFails(w) PROVE TypeOK'
    BY <2>11 DEF Stat, StatFails
  <2>12. ASSUME NEW w \in Workers, FinalWrite(w)
         PROVE  /\ status' \in [Imports -> Statuses] /\ updated' \in [Imports -> 0..Lease]
                /\ created' = created /\ broken' \in SUBSET Imports
    BY <2>12 DEF FinalWrite, SettledAs
  <2>13. ASSUME NEW w \in Workers, NEW outcomes \in SUBSET JobStates,
                Return(w, outcomes)
         PROVE  /\ pc' \in [Workers -> Steps] /\ on' = on
                /\ retryableFailed' \in SUBSET Workers /\ held' \in [Workers -> 0..Lease]
                /\ job' \in [Imports -> JobStates]
                /\ runner' \in [Imports -> Workers \cup {None}]
    BY <2>13 DEF Return, Stop
  <2>14. ASSUME NEW w \in Workers, Settle(w) PROVE TypeOK'
    <3>1. AfterThrow \in SUBSET JobStates /\ {"completed"} \in SUBSET JobStates
      BY DEF AfterThrow
    <3> QED
      BY <2>12, <2>13, <2>14, <3>1 DEF Settle
  <2>15. ASSUME NEW w \in Workers, DatabaseFails(w) PROVE TypeOK'
    <3>1. AfterThrow \in SUBSET JobStates
      BY DEF AfterThrow
    <3>2. /\ status' \in [Imports -> Statuses] /\ updated' \in [Imports -> 0..Lease]
          /\ created' = created /\ broken' \in SUBSET Imports
      BY <2>12, <2>15 DEF DatabaseFails
    <3>3. /\ pc' \in [Workers -> Steps] /\ on' = on
          /\ retryableFailed' \in SUBSET Workers /\ held' \in [Workers -> 0..Lease]
          /\ job' \in [Imports -> JobStates]
          /\ runner' \in [Imports -> Workers \cup {None}]
      BY <2>13, <2>15, <3>1 DEF DatabaseFails
    <3>4. faults' \in 0..MaxFaults
      BY <2>15 DEF DatabaseFails
    <3> QED
      BY <2>15, <3>2, <3>3, <3>4 DEF DatabaseFails
  <2>16. ASSUME NEW w \in Workers, WorkerCrash(w) PROVE TypeOK'
    BY <2>16 DEF WorkerCrash, Stop
  <2>17. ASSUME NEW i \in Imports, Stall(i) \/ Due(i) \/ Retention(i) PROVE TypeOK'
    BY <2>17 DEF Stall, Due, Retention
  <2>18. CASE RedisLoss
    BY <2>18 DEF RedisLoss
  <2>19. CASE Reconcile
    <3>1. \A i \in Imports : Decision(i) \in Decisions
      BY DEF Decision
    <3> QED
      BY <2>19, <3>1 DEF Reconcile
  <2>20. ASSUME NEW i \in Imports, ReconcileCandidate(i) PROVE TypeOK'
    BY <2>20 DEF ReconcileCandidate
  <2>21. CASE ReconcileAborts
    BY <2>21 DEF ReconcileAborts
  <2>22. CASE Tick
    <3>1. /\ created' \in [Imports -> 0..Window] /\ updated' \in [Imports -> 0..Lease]
          /\ held' \in [Workers -> 0..Lease]
      BY <2>22, AgeTyped DEF Tick
    <3> QED
      BY <2>22, <3>1 DEF Tick
  <2>23. CASE UNCHANGED vars
    BY <2>23 DEF vars
  <2> QED
    BY <2>1, <2>2, <2>3, <2>4, <2>5, <2>6, <2>7, <2>8, <2>9, <2>10, <2>11,
       <2>14, <2>15, <2>16, <2>17, <2>18, <2>19, <2>20, <2>21, <2>22, <2>23
       DEF Next, RequestStep, WorkerStep
<1> QED
  BY <1>1, <1>2, PTL DEF Spec

\* The steps that neither touch a row nor let a worker into a claim keep Inv.
LEMMA OutsideClaims ==
    ASSUME TypeOK, Inv, UNCHANGED <<status, updated, on, broken>>,
           \A w \in Workers : pc'[w] \in Claimed => pc[w] \in Claimed /\ held'[w] = held[w]
    PROVE  Inv'
  BY DEF TypeOK, Inv, ClaimExcludes, ClaimIsVisible, Validating

\* A write by somebody who holds no claim breaks the claims it overwrites.
LEMMA OverwriteKeepsInv ==
    ASSUME TypeOK, Inv, NEW i \in Imports, NEW s, overwriteImportJob(i, s),
           UNCHANGED on,
           \A w \in Workers : pc'[w] \in Claimed => pc[w] \in Claimed /\ held'[w] = held[w]
    PROVE  Inv'
  BY DEF TypeOK, Inv, ClaimExcludes, ClaimIsVisible, Validating,
         overwriteImportJob, updateImportJob

\* The write of the worker itself: afterwards it is out of its claim, or it is
\* about to write again because COMPLETED was reported as failed.
LEMMA FinalWriteKeepsInv ==
    ASSUME TypeOK, Inv, NEW w \in Workers, FinalWrite(w), UNCHANGED on,
           pc'[w] \in Claimed => pc[w] = "complete",
           \A v \in Workers : pc'[v] \in Claimed => pc[v] \in Claimed /\ held'[v] = held[v]
    PROVE  Inv'
<1>1. on[w] \in Imports
  BY DEF TypeOK
<1>2. CASE pc[w] = "closeIneligible" /\ overwriteImportJob(on[w], "TERMINAL")
  BY <1>1, <1>2, OverwriteKeepsInv
<1>3. CASE /\ pc[w] \in {"complete", "terminal", "retry"} /\ UNCHANGED broken
           /\ updateImportJob(on[w], SettledAs(pc[w]))
  <2>1. Validating(w, on[w])
    BY <1>3 DEF Validating, Claimed
  <2>2. \A v \in Workers, i \in Imports : Validating(v, i)' =>
           Validating(v, i) /\ held'[v] = held[v]
    BY DEF Validating
  <2>3. \A v \in Workers : Validating(v, on[w])' => v = w \/ on[w] \in broken
    BY <1>1, <2>1, <2>2 DEF Inv, ClaimExcludes
  <2>4. Validating(w, on[w])' => status'[on[w]] = "COMPLETED"
    BY <1>1, <1>3 DEF Validating, updateImportJob, SettledAs, TypeOK
  <2>5. \A i \in Imports \ {on[w]} : status'[i] = status[i] /\ updated'[i] = updated[i]
    BY <1>3 DEF updateImportJob, TypeOK
  <2>6. ClaimExcludes'
    BY <1>3, <2>2 DEF Inv, ClaimExcludes
  <2>7. ClaimIsVisible'
    BY <1>1, <1>3, <2>2, <2>3, <2>4, <2>5 DEF Inv, ClaimIsVisible
  <2> QED
    BY <2>6, <2>7 DEF Inv
<1> QED
  BY <1>2, <1>3 DEF FinalWrite

\* BullMQ may hand an import to several workers, workers may crash, stall and
\* lose answers, the reconciler may act on what it read long ago: two workers
\* validate an import at once only if a claim outlived its lease or was
\* overwritten from outside.
THEOREM ClaimIsExclusive == Spec => []ClaimExcludes
<1> USE LeaseAssumption, WindowAssumption
<1>1. Init => Inv
  BY DEF Init, Inv, ClaimExcludes, ClaimIsVisible, Validating, Claimed
<1>2. TypeOK /\ Inv /\ [Next]_vars => Inv'
  <2> SUFFICES ASSUME TypeOK, Inv, [Next]_vars PROVE Inv'
    OBVIOUS
  <2> USE DEF row, source, queue, worker
  <2>1. ASSUME NEW i \in Imports, CreateImport(i) PROVE Inv'
    BY <2>1 DEF CreateImport, updateImportJob, TypeOK, Inv, ClaimExcludes,
                ClaimIsVisible, Validating
  <2>2. ASSUME NEW i \in Imports, Enqueue(i) \/ EnqueueFails(i) \/ ApiCrash(i)
        PROVE Inv'
    BY <2>2, OutsideClaims DEF Enqueue, EnqueueFails, ApiCrash, TypeOK
  <2>17. ASSUME NEW i \in Imports, MarkFails(i) PROVE Inv'
    BY <2>17, OutsideClaims, OverwriteKeepsInv DEF MarkFails, TypeOK
  <2>3. ASSUME NEW i \in Imports, MarkRetryable(i) PROVE Inv'
    BY <2>3, OverwriteKeepsInv DEF MarkRetryable, TypeOK
  <2>4. ASSUME NEW i \in Imports, SourceBecomesIneligible(i) PROVE Inv'
    BY <2>4, OutsideClaims DEF SourceBecomesIneligible
  <2>5. ASSUME NEW w \in Workers, NEW i \in Imports, Run(w, i) PROVE Inv'
    BY <2>5 DEF Run, TypeOK, Inv, ClaimExcludes, ClaimIsVisible, Validating, Claimed
  <2>6. ASSUME NEW w \in Workers, Lookup(w) PROVE Inv'
    <3>1. UNCHANGED <<status, updated, on, broken>>
      BY <2>6 DEF Lookup, Return, Stop, Goto
    <3>2. /\ pc'[w] \notin Claimed
          /\ \A v \in Workers \ {w} : pc'[v] = pc[v] /\ held'[v] = held[v]
      BY <2>6 DEF Lookup, Return, Stop, Goto, Claimed, TypeOK
    <3> QED
      BY <3>1, <3>2, OutsideClaims
  <2>7. ASSUME NEW w \in Workers, Claim(w) PROVE Inv'
    <3>1. CASE Claimable(w, on[w])
      <4>1. on[w] \in Imports
        BY DEF TypeOK
      <4>2. \A v \in Workers : Validating(v, on[w]) => on[w] \in broken
        BY <3>1, <4>1 DEF Claimable, Inv, ClaimIsVisible, TypeOK
      <4>3. /\ pc' = [pc EXCEPT ![w] = "stat"] /\ held' = [held EXCEPT ![w] = 0]
            /\ status' = [status EXCEPT ![on[w]] = "PROCESSING"]
            /\ updated' = [updated EXCEPT ![on[w]] = 0]
            /\ UNCHANGED <<on, broken>>
        BY <2>7, <3>1 DEF Claim, updateImportJob
      <4>4. \A v \in Workers \ {w}, i \in Imports :
               Validating(v, i)' => Validating(v, i) /\ held'[v] = held[v]
        BY <4>3 DEF Validating, TypeOK
      <4>5. \A i \in Imports : Validating(w, i)' => i = on[w] /\ held'[w] = 0
        BY <4>3 DEF Validating, TypeOK
      <4>6. status'[on[w]] = "PROCESSING" /\ updated'[on[w]] = 0
        BY <4>1, <4>3 DEF TypeOK
      <4>7. \A i \in Imports \ {on[w]} : status'[i] = status[i] /\ updated'[i] = updated[i]
        BY <4>3 DEF TypeOK
      <4>8. ClaimExcludes'
        BY <4>2, <4>3, <4>4, <4>5 DEF Inv, ClaimExcludes
      <4>9. ClaimIsVisible'
        BY <4>2, <4>3, <4>4, <4>5, <4>6, <4>7 DEF Inv, ClaimIsVisible
      <4> QED
        BY <4>8, <4>9 DEF Inv
    <3>2. CASE ~Claimable(w, on[w])
      BY <2>7, <3>2 DEF Claim, Return, Stop, TypeOK, Inv, ClaimExcludes, ClaimIsVisible,
                        Validating, Claimed
    <3> QED
      BY <3>1, <3>2
  <2>8. ASSUME NEW w \in Workers, Stat(w) \/ StatFails(w) PROVE Inv'
    BY <2>8, OutsideClaims DEF Stat, StatFails, Goto, Claimed, TypeOK
  <2>9. ASSUME NEW w \in Workers, Settle(w) PROVE Inv'
    <3>1. /\ pc' = [pc EXCEPT ![w] = "idle"] /\ held' = [held EXCEPT ![w] = 0]
          /\ UNCHANGED on
      BY <2>9 DEF Settle, Return, Stop
    <3>2. \A v \in Workers : pc'[v] \in Claimed =>
             v # w /\ pc[v] \in Claimed /\ held'[v] = held[v]
      BY <3>1 DEF Claimed, TypeOK
    <3>3. FinalWrite(w)
      BY <2>9 DEF Settle
    <3> QED
      BY <3>1, <3>2, <3>3, FinalWriteKeepsInv
  <2>10. ASSUME NEW w \in Workers, DatabaseFails(w) PROVE Inv'
    <3>1. /\ UNCHANGED on
          /\ \A v \in Workers : pc'[v] \in Claimed => pc[v] \in Claimed /\ held'[v] = held[v]
          /\ pc'[w] \in Claimed => pc[w] = "complete"
      BY <2>10 DEF DatabaseFails, Goto, Return, Stop, Claimed, TypeOK
    <3>2. CASE UNCHANGED <<row, broken>>
      BY <3>1, <3>2, OutsideClaims
    <3>3. CASE /\ pc[w] = "claim" /\ Claimable(w, on[w])
               /\ updateImportJob(on[w], "PROCESSING") /\ UNCHANGED broken
      <4>1. \A v \in Workers : Validating(v, on[w]) => on[w] \in broken
        BY <3>3 DEF Claimable, Inv, ClaimIsVisible, TypeOK
      <4> QED
        BY <3>1, <3>3, <4>1 DEF updateImportJob, TypeOK, Inv, ClaimExcludes,
                                ClaimIsVisible, Validating
    <3>4. CASE FinalWrite(w)
      BY <3>1, <3>4, FinalWriteKeepsInv
    <3> QED
      BY <2>10, <3>2, <3>3, <3>4 DEF DatabaseFails
  <2>11. ASSUME NEW w \in Workers, WorkerCrash(w) PROVE Inv'
    BY <2>11 DEF WorkerCrash, Stop, TypeOK, Inv, ClaimExcludes, ClaimIsVisible,
                 Validating, Claimed
  <2>12. ASSUME NEW i \in Imports, Stall(i) \/ Due(i) \/ Retention(i) PROVE Inv'
    BY <2>12, OutsideClaims DEF Stall, Due, Retention
  <2>13. CASE RedisLoss \/ Reconcile \/ ReconcileAborts
    BY <2>13, OutsideClaims DEF RedisLoss, Reconcile, ReconcileAborts
  <2>14. ASSUME NEW i \in Imports, ReconcileCandidate(i) PROVE Inv'
    <3>1. CASE plan[i] = "close"
      BY <2>14, <3>1, OverwriteKeepsInv DEF ReconcileCandidate
    <3>2. CASE plan[i] = "ensure"
      BY <2>14, <3>2, OutsideClaims DEF ReconcileCandidate
    <3> QED
      BY <2>14, <3>1, <3>2 DEF ReconcileCandidate
  <2>15. CASE Tick
    <3>1. \A i \in Imports : status[i] # "absent" => updated'[i] = Age(updated[i], Lease)
      BY <2>15 DEF Tick
    <3>2. \A w \in Workers : pc[w] \in Claimed => held'[w] = Age(held[w], Lease)
      BY <2>15 DEF Tick
    <3>3. \A i \in Imports, w \in Workers :
            Validating(w, i) /\ i \notin broken' => held'[w] # Lease /\ i \notin broken
      BY <2>15 DEF Tick
    <3>4. UNCHANGED <<status, pc, on, request>>
      BY <2>15 DEF Tick
    <3>5. broken \subseteq broken'
      BY <2>15 DEF Tick
    <3>6. \A i \in Imports, w \in Workers : Validating(w, i)' <=> Validating(w, i)
      BY <3>4 DEF Validating
    <3>7. ClaimExcludes'
      BY <3>5, <3>6 DEF Inv, ClaimExcludes
    <3>8. ClaimIsVisible'
      <4> SUFFICES ASSUME NEW i \in Imports, NEW w \in Workers, Validating(w, i),
                          i \notin broken', status[i] # "COMPLETED"
                   PROVE  /\ status[i] = "PROCESSING" /\ updated'[i] = held'[w]
                          /\ held'[w] < Lease
        BY <3>4, <3>6 DEF ClaimIsVisible
      <4>1. /\ status[i] = "PROCESSING" /\ updated[i] = held[w] /\ held[w] < Lease
            /\ held'[w] # Lease
        BY <3>3 DEF Inv, ClaimIsVisible
      <4>2. updated'[i] = updated[i] + 1 /\ held'[w] = held[w] + 1
        BY <3>1, <3>2, <4>1 DEF Age, Validating
      <4>3. held[w] \in Nat
        BY DEF TypeOK
      <4> QED
        BY <4>1, <4>2, <4>3
    <3> QED
      BY <3>7, <3>8 DEF Inv
  <2>16. CASE UNCHANGED vars
    BY <2>16, OutsideClaims DEF vars
  <2> QED
    BY <2>1, <2>2, <2>3, <2>4, <2>5, <2>6, <2>7, <2>8, <2>9, <2>10, <2>11,
       <2>12, <2>13, <2>14, <2>15, <2>16, <2>17
       DEF Next, RequestStep, WorkerStep
<1> QED
  BY <1>1, <1>2, TypeCorrect, PTL DEF Spec, Inv

-----------------------------------------------------------------------------
(***************************************************************************)
(* updateImportJob writes whatever it finds, so a settled row can be taken *)
(* back.  What follows shows by whom: only by those who were already at    *)
(* work on it when it settled.                                             *)
(***************************************************************************)
\* The import is settled, and whoever has yet to write about it will find out:
\* its creating request is over, the reconciler has not decided to close it and
\* no worker has got past its lookup.
LeftAlone(i) ==
    /\ Settled(i)
    /\ request[i] \notin {"enqueue", "mark"}
    /\ plan[i] # "close"
    /\ \A w \in Workers : on[w] = i => pc[w] \in {"idle", "lookup"}

\* A worker's write is about the import it is on, and comes after the lookup.
LEMMA WorkerLeaves ==
    ASSUME TypeOK, NEW i \in Imports, LeftAlone(i), NEW w \in Workers,
           \/ Lookup(w) \/ Claim(w) \/ Stat(w) \/ StatFails(w) \/ Settle(w)
           \/ DatabaseFails(w) \/ WorkerCrash(w)
    PROVE  LeftAlone(i)' /\ status'[i] = status[i]
<1> USE DEF row, source, queue, worker
<1>1. UNCHANGED <<request, plan, on>>
  BY DEF Lookup, Claim, Stat, StatFails, Settle, DatabaseFails, WorkerCrash, Return,
         Stop, Goto
<1>2. \A v \in Workers \ {w} : pc'[v] = pc[v]
  BY DEF Lookup, Claim, Stat, StatFails, Settle, DatabaseFails, WorkerCrash, Return,
         Stop, Goto, TypeOK
<1>3. CASE on[w] # i
  <2>1. status'[i] = status[i]
    BY <1>3 DEF Lookup, Claim, Stat, StatFails, Settle, DatabaseFails, WorkerCrash,
       FinalWrite, overwriteImportJob, updateImportJob, TypeOK
  <2> QED
    BY <1>1, <1>2, <1>3, <2>1 DEF LeftAlone, Settled
<1>4. CASE on[w] = i
  <2>1. pc[w] \in {"idle", "lookup"} /\ Settled(on[w])
    BY <1>4 DEF LeftAlone
  <2>2. UNCHANGED status
    BY <2>1 DEF Lookup, Claim, Stat, StatFails, Settle, DatabaseFails, WorkerCrash,
       FinalWrite
  <2>3. pc'[w] = "idle"
    BY <2>1 DEF Lookup, Claim, Stat, StatFails, Settle, DatabaseFails, WorkerCrash,
       FinalWrite, Return, Stop, TypeOK
  <2> QED
    BY <1>1, <1>2, <2>2, <2>3 DEF LeftAlone, Settled
<1> QED
  BY <1>3, <1>4

\* The outcome of an import is final for everyone who begins later: a retried or
\* redelivered job, the next round of the reconciler, a worker that reads the row
\* after it settled.  Only a claim, a failed enqueueing or a decision to close
\* from before can still overwrite it.
THEOREM OutcomeIsFinalForLaterReads ==
    Spec => [][\A i \in Imports :
                 LeftAlone(i) => LeftAlone(i)' /\ status'[i] = status[i]]_vars
<1>1. TypeOK /\ [Next]_vars =>
        [\A i \in Imports : LeftAlone(i) => LeftAlone(i)' /\ status'[i] = status[i]]_vars
  <2> SUFFICES ASSUME TypeOK, [Next]_vars, NEW i \in Imports, LeftAlone(i)
               PROVE  LeftAlone(i)' /\ status'[i] = status[i]
    OBVIOUS
  <2> USE DEF row, source, queue, worker
  <2>1. ASSUME NEW j \in Imports, \/ CreateImport(j) \/ Enqueue(j) \/ EnqueueFails(j)
                                  \/ MarkRetryable(j) \/ MarkFails(j) \/ ApiCrash(j)
        PROVE  LeftAlone(i)' /\ status'[i] = status[i]
    <3>1. j # i
      BY <2>1 DEF LeftAlone, Settled, CreateImport, Enqueue, EnqueueFails,
         MarkRetryable, MarkFails, ApiCrash
    <3>2. status'[i] = status[i] /\ request'[i] = request[i] /\ UNCHANGED <<plan, pc, on>>
      BY <2>1, <3>1 DEF CreateImport, Enqueue, EnqueueFails, MarkRetryable, MarkFails,
         ApiCrash, overwriteImportJob, updateImportJob, TypeOK
    <3> QED
      BY <3>2 DEF LeftAlone, Settled
  <2>2. ASSUME NEW w \in Workers, NEW j \in Imports, Run(w, j)
        PROVE  LeftAlone(i)' /\ status'[i] = status[i]
    <3>1. /\ on' = [on EXCEPT ![w] = j] /\ UNCHANGED <<status, request, plan>>
          /\ \A v \in Workers \ {w} : pc'[v] = pc[v]
      BY <2>2 DEF Run, TypeOK
    <3>2. j = i => pc'[w] \in {"idle", "lookup"}
      BY <2>2 DEF Run, LeftAlone, Settled, Recoverable, TypeOK
    <3> QED
      BY <3>1, <3>2 DEF LeftAlone, Settled, TypeOK
  <2>3. ASSUME NEW j \in Imports, ReconcileCandidate(j)
        PROVE  LeftAlone(i)' /\ status'[i] = status[i]
    <3>1. /\ status'[i] = status[i] /\ plan'[i] # "close"
          /\ UNCHANGED <<request, pc, on>>
      BY <2>3 DEF ReconcileCandidate, LeftAlone, overwriteImportJob, updateImportJob, TypeOK
    <3> QED
      BY <3>1 DEF LeftAlone, Settled
  <2>4. CASE Reconcile
    <3>1. Decision(i) = "none"
      BY DEF LeftAlone, Settled, Decision, Recoverable
    <3> QED
      BY <2>4, <3>1 DEF Reconcile, LeftAlone, Settled
  <2>5. CASE ReconcileAborts
    BY <2>5 DEF ReconcileAborts, LeftAlone, Settled
  <2>6. CASE UNCHANGED <<status, request, plan, pc, on>>
    BY <2>6 DEF LeftAlone, Settled
  <2>7. ASSUME NEW j \in Imports,
               SourceBecomesIneligible(j) \/ Stall(j) \/ Due(j) \/ Retention(j)
        PROVE  UNCHANGED <<status, request, plan, pc, on>>
    BY <2>7 DEF SourceBecomesIneligible, Stall, Due, Retention
  <2>8. CASE RedisLoss \/ Tick \/ UNCHANGED vars
    BY <2>6, <2>8 DEF RedisLoss, Tick, vars
  <2> QED
    BY <2>1, <2>2, <2>3, <2>4, <2>5, <2>6, <2>7, <2>8, WorkerLeaves
       DEF Next, RequestStep, WorkerStep
<1> QED
  BY <1>1, TypeCorrect, PTL DEF Spec

=============================================================================
