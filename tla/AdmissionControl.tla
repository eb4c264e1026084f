-------------------------- MODULE AdmissionControl --------------------------
(***************************************************************************)
(* What a project's orchestrator promises about concurrency: tasks are     *)
(* admitted one at a time, never more than Limit together, and never again *)
(* once it has reported a graceful shutdown.                               *)
(***************************************************************************)
EXTENDS Naturals, FiniteSets

CONSTANTS Tasks, Limit   \* Limit = 0: no limit

VARIABLES
  admitted, \* tasks being dispatched, tracked as running or being reconciled
  closed    \* the shutdown was graceful and is over

HasRoom == Limit > 0 => Cardinality(admitted) < Limit

Init == admitted = {} /\ closed = FALSE

Admit(t) ==
  /\ ~closed /\ HasRoom
  /\ t \notin admitted
  /\ admitted' = admitted \cup {t}
  /\ UNCHANGED closed

Withdraw(t) ==
  /\ admitted' = admitted \ {t}
  /\ UNCHANGED closed

Close == closed' = TRUE /\ UNCHANGED admitted

Next == Close \/ \E t \in Tasks : Admit(t) \/ Withdraw(t)

Spec == Init /\ [][Next]_<<admitted, closed>>
=============================================================================
