----------------------------- MODULE MCService -----------------------------
(***************************************************************************)
(* Small instances of Service for TLC.                                     *)
(***************************************************************************)
EXTENDS Service, MCOrchestrator

\* A spec is approved, a reviewer sends a task back.
ReviewMoves == {<<sm.SpecReview, sm.ReadyForCode>>, <<sm.PRReview, sm.ReadyForCode>>}

\* The people of these instances are those the theorems of ServiceProofs speak of.
ASSUME PeopleAreCalm == Calm
=============================================================================
