---------------------------- MODULE MediaLifecycle ----------------------------
(* What the learning-media subsystem promises a teacher, with the sessions, *)
(* objects, jobs and retries of the implementation left out: a medium is     *)
(* prepared, becomes ready once, may then be used by lesson content, and is  *)
(* withdrawn in one step that no content reference survives.  A preparation  *)
(* that is abandoned is closed for good.  MediaUploads implements it.        *)
EXTENDS Naturals

VARIABLES
  phase,   \* where the medium stands
  uses     \* how many live lesson-content items reference it

vars == <<phase, uses>>

Phases == {"preparing", "ready", "closed", "withdrawn"}

TypeOK == phase \in Phases /\ uses \in Nat

\* A medium that predates the upload sessions starts with its references.
Init == phase = "preparing" /\ uses \in Nat

BecomeReady == /\ phase = "preparing"
               /\ phase' = "ready"
               /\ UNCHANGED uses

Close == /\ phase = "preparing"
         /\ phase' = "closed"
         /\ UNCHANGED uses

Attach == /\ phase = "ready"
          /\ uses' = uses + 1
          /\ UNCHANGED phase

Detach == /\ uses > 0
          /\ uses' = uses - 1
          /\ UNCHANGED phase

Withdraw == /\ phase = "ready"
            /\ uses = 0
            /\ phase' = "withdrawn"
            /\ UNCHANGED uses

Next == BecomeReady \/ Close \/ Attach \/ Detach \/ Withdraw

Spec == Init /\ [][Next]_vars
=============================================================================
