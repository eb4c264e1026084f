----------------------------- MODULE MergeCheck -----------------------------
(***************************************************************************)
(* What reconcile relies on when it asks whether a task's PR is merged: a  *)
(* "merged" is true when it is given, an "open" was true when the question *)
(* was asked, and anything else is "unsure", on which nothing is done.     *)
(***************************************************************************)

VARIABLES
  isMerged, \* a merged PR of the task can be found
  before,   \* the same when the question was asked
  answer

Init == isMerged \in BOOLEAN /\ before = FALSE /\ answer = "unsure"

Merge == ~isMerged /\ isMerged' = TRUE /\ UNCHANGED <<before, answer>>

Ask ==
  /\ answer # "asked" /\ answer' = "asked"
  /\ before' = isMerged
  /\ UNCHANGED isMerged

Reply ==
  /\ answer = "asked"
  /\ \/ isMerged /\ answer' = "merged"
     \/ ~before /\ answer' = "open"
     \/ answer' = "unsure"
  /\ UNCHANGED <<isMerged, before>>

Next == Merge \/ Ask \/ Reply

Spec == Init /\ [][Next]_<<isMerged, before, answer>>
=============================================================================
