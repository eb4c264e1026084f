--------------------------- MODULE MCOrchestrator ---------------------------
(***************************************************************************)
(* Small instances of Orchestrator for TLC.                                *)
(***************************************************************************)
EXTENDS Orchestrator, Backoff, TLC

MCStatusMapping == DefaultStatusMapping

Draft == "idea draft"
MCOtherStatuses == {Draft}

\* agent.yaml reports success or failure; people take tasks up, withdraw them,
\* approve a spec and close a task.
AgentMoves ==
  {<<sm.GeneratingSpec, sm.SpecReview>>, <<sm.GeneratingSpec, sm.ReadyForSpec>>,
   <<sm.Implementing, sm.PRReview>>, <<sm.Implementing, sm.ReadyForCode>>}
PeopleMoves ==
  {<<Draft, sm.ReadyForSpec>>, <<sm.ReadyForSpec, Draft>>,
   <<sm.SpecReview, sm.ReadyForCode>>, <<sm.PRReview, sm.Closed>>}

AllMoves == AgentMoves \cup PeopleMoves

Anywhere == Statuses
TriggerOnly == {sm.ReadyForCode}
SomeStatuses == {sm.ReadyForSpec, sm.Implementing}

\* Twelve attempts, well past both caps of the delay.
ASSUME DelaysAsDocumented == \A n \in 1 .. 12 : FollowsFormula(n) /\ NearFormula(n) /\ Grows(n)

Symmetry == Permutations(Tasks) \cup Permutations(Callbacks)
=============================================================================
