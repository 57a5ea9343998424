------------------------------ MODULE Settling ------------------------------
(***************************************************************************)
(* What a fan-out promises the run that calls it (internal/pipeline,       *)
(* fanOut): every repository the run selected gets one outcome, which does *)
(* not change, and the fan-out closes only when every one has its own. The *)
(* manifest lists the outcomes it closed with.                             *)
(***************************************************************************)
CONSTANTS
  Repos,     \* the repositories the run selected
  Outcomes,  \* what one of them can come to
  None       \* nothing yet

VARIABLES
  outcome,   \* outcome[r]: what r came to
  closed     \* whether the fan-out is over

vars == <<outcome, closed>>

Init ==
  /\ outcome = [r \in Repos |-> None]
  /\ closed = FALSE

\* Some of the repositories still open are settled, each with its outcome.
Settle ==
  /\ ~ closed
  /\ outcome' \in [Repos -> Outcomes \cup {None}]
  /\ \A r \in Repos : outcome[r] # None => outcome'[r] = outcome[r]
  /\ UNCHANGED closed

Close ==
  /\ \A r \in Repos : outcome[r] # None
  /\ closed' = TRUE
  /\ UNCHANGED outcome

Next == Settle \/ Close

Spec == Init /\ [][Next]_vars
=============================================================================
