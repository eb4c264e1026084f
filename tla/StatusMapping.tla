--------------------------- MODULE StatusMapping ---------------------------
(***************************************************************************)
(* The ClickUp statuses a project is configured with, and the phase each   *)
(* belongs to (internal/clickup/models.go).  A status is an opaque value:  *)
(* the code only ever compares statuses for equality.                      *)
(***************************************************************************)
EXTENDS FiniteSets

CONSTANTS
  sm,             \* the project's StatusMapping, a record with the fields below
  OtherStatuses,  \* statuses of the board the mapping does not name (idea draft)
  NoPhase         \* "" with an error: the result of PhaseFromStatus outside the mapping

Fields == {"ReadyForSpec", "GeneratingSpec", "SpecReview",
           "ReadyForCode", "Implementing", "PRReview", "Closed"}

DefaultStatusMapping ==
  [ReadyForSpec   |-> "ready for spec",
   GeneratingSpec |-> "generating spec",
   SpecReview     |-> "spec review",
   ReadyForCode   |-> "ready for code",
   Implementing   |-> "implementing",
   PRReview       |-> "pr review",
   Closed         |-> "closed"]

Phases == {"SPEC", "CODE"}

AllStatuses == {sm[f] : f \in Fields}

Statuses == AllStatuses \cup OtherStatuses

\* Config validation: no two fields share a status name.
validateStatusMapping == \A f, g \in Fields : sm[f] = sm[g] => f = g

ASSUME StatusMappingAssumption ==
  /\ DOMAIN sm = Fields /\ validateStatusMapping
  /\ OtherStatuses \cap AllStatuses = {}
  /\ NoPhase \notin Phases

IsTriggerStatus(status) == status \in {sm.ReadyForSpec, sm.ReadyForCode}

IsProcessingStatus(status) == status \in {sm.GeneratingSpec, sm.Implementing}

IsTerminalStatus(status) == status = sm.Closed

PhaseFromStatus(status) ==
  CASE status \in {sm.ReadyForSpec, sm.GeneratingSpec, sm.SpecReview} -> "SPEC"
    [] status \in {sm.ReadyForCode, sm.Implementing, sm.PRReview} -> "CODE"
    [] OTHER -> NoPhase

ProcessingStatusFor(phase) ==
  IF phase = "SPEC" THEN sm.GeneratingSpec ELSE sm.Implementing

SuccessStatusFor(phase) ==
  IF phase = "SPEC" THEN sm.SpecReview ELSE sm.PRReview

ErrorStatusFor(phase) ==
  IF phase = "SPEC" THEN sm.ReadyForSpec ELSE sm.ReadyForCode

=============================================================================
