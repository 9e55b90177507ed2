------------------------------- MODULE SendOnce -------------------------------
(* What the email delivery promises the school, with the queue, the workers, *)
(* the statuses and the reconciler left out: each recipient's mail is handed *)
(* to the provider in one attempt or never, its temporary password replaces  *)
(* the old one only after the provider took the mail, and the batch is       *)
(* reported as succeeded only when all of that is done.  A report may be     *)
(* taken back.  EmailDelivery implements it.                                 *)
EXTENDS Naturals

CONSTANTS
  Recipients,   \* the recipients of the batch
  Credentials   \* those whose mail carries a temporary password

VARIABLES
  calls,     \* how often the provider was called for each recipient
  accepted,  \* the recipients whose mail it took
  applied,   \* those whose temporary password is in force
  reported   \* TRUE: the batch is shown as succeeded

vars == <<calls, accepted, applied, reported>>

Init == /\ calls = [r \in Recipients |-> 0]
        /\ accepted = {} /\ applied = {}
        /\ reported = FALSE

\* The one attempt; whether the provider took the mail may stay unknown.
Send(r) == /\ calls[r] = 0
           /\ calls' = [calls EXCEPT ![r] = 1]
           /\ accepted' \in {accepted, accepted \cup {r}}
           /\ UNCHANGED <<applied, reported>>

Apply(r) == /\ r \in accepted \cap Credentials
            /\ applied' = applied \cup {r}
            /\ UNCHANGED <<calls, accepted, reported>>

Report == /\ accepted = Recipients /\ Credentials \subseteq applied
          /\ reported' = TRUE
          /\ UNCHANGED <<calls, accepted, applied>>

TakeBack == /\ reported' = FALSE
            /\ UNCHANGED <<calls, accepted, applied>>

Next == (\E r \in Recipients : Send(r) \/ Apply(r)) \/ Report \/ TakeBack

Spec == Init /\ [][Next]_vars
=============================================================================
