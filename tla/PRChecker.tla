----------------------------- MODULE PRChecker -----------------------------
(***************************************************************************)
(* The PR checker (internal/github/pr_checker.go) for one task: a search   *)
(* by branch name, then a fallback to a search for a marker in the body.   *)
(* Meanwhile people open, close, reopen and merge PRs, GitHub's search     *)
(* index lags behind, and the repository may be hidden from the token.     *)
(***************************************************************************)
EXTENDS Integers

CONSTANTS
  PRs,        \* the pull requests of the repository
  OnBranch,   \* those from the task's branch (feature/ or spec/clickup-...)
  Marked,     \* those with the task's marker in the body (Closes or Refs CU-...)
  MaxTroubles \* bound: calls that fail and times the repository is hidden

ASSUME PRAssumption == OnBranch \subseteq PRs /\ Marked \subseteq PRs /\ MaxTroubles \in Nat

VARIABLES
  pr,        \* pull request -> its state
  indexed,   \* merged PRs the search index knows as merged
  visible,   \* the token can see the repository
  troubles,  \* see MaxTroubles
  pc,        \* the checker: "idle", or the search it does next
  branchErr, \* the branch search has failed
  notFound,  \* the branch search was answered by 404
  answer,    \* of the last check
  findable   \* what could be found when that check began

world == <<pr, indexed, visible>>
checker == <<pc, branchErr, notFound, answer, findable>>
vars == <<world, troubles, checker>>

PRStates == {"absent", "open", "closed", "merged"}

TypeOK ==
  /\ pr \in [PRs -> PRStates]
  /\ indexed \subseteq {p \in PRs : pr[p] = "merged"}
  /\ visible \in BOOLEAN /\ troubles \in 0 .. MaxTroubles
  /\ pc \in {"idle", "branch", "search"}
  /\ branchErr \in BOOLEAN /\ notFound \in BOOLEAN /\ findable \in BOOLEAN
  /\ answer \in {"asked", "merged", "open", "error"}
  /\ pc = "idle" <=> answer # "asked"

Init ==
  /\ pr \in [PRs -> PRStates] /\ indexed = {}
  /\ visible = TRUE /\ troubles = 0
  /\ pc = "idle" /\ answer = "error"
  /\ branchErr = FALSE /\ notFound = FALSE /\ findable = FALSE

-----------------------------------------------------------------------------
(* GitHub *)

BranchHits == {p \in OnBranch : pr[p] = "merged"}

BodyHits == indexed \cap Marked

Trouble == troubles < MaxTroubles /\ troubles' = troubles + 1

PRMoves == {<<"absent", "open">>, <<"open", "closed">>, <<"closed", "open">>, <<"open", "merged">>}

MovePR(p, state) ==
  /\ <<pr[p], state>> \in PRMoves
  /\ pr' = [pr EXCEPT ![p] = state]
  /\ UNCHANGED <<indexed, visible, troubles, checker>>

Index(p) ==
  /\ pr[p] = "merged"
  /\ indexed' = indexed \cup {p}
  /\ UNCHANGED <<pr, visible, troubles, checker>>

Hide == visible /\ visible' = FALSE /\ Trouble /\ UNCHANGED <<pr, indexed, checker>>

Show == ~visible /\ visible' = TRUE /\ UNCHANGED <<pr, indexed, troubles, checker>>

-----------------------------------------------------------------------------
(* mergedWithFallback *)

Check ==
  /\ pc = "idle"
  /\ pc' = "branch" /\ answer' = "asked"
  /\ branchErr' = FALSE /\ notFound' = FALSE
  /\ findable' = (BranchHits \cup BodyHits # {})
  /\ UNCHANGED <<world, troubles>>

Verdict(a) == pc' = "idle" /\ answer' = a /\ UNCHANGED <<branchErr, notFound>>

ToFallback(err, missing) ==
  pc' = "search" /\ branchErr' = err /\ notFound' = missing /\ UNCHANGED answer

\* Mutants: the loop over the PRs does not return at the first merged one; it asks
\* that every PR of the branch be merged.
BranchSearch_GoesOn ==
  /\ pc = "branch"
  /\ visible /\ pc' = "search" /\ UNCHANGED <<branchErr, notFound, troubles>>
  /\ answer' = IF BranchHits # {} THEN "merged" ELSE answer
  /\ UNCHANGED <<world, findable>>
BranchSearch_Every ==
  /\ pc = "branch"
  /\ \/ visible /\ BranchHits = OnBranch /\ Verdict("merged") /\ UNCHANGED troubles
     \/ visible /\ BranchHits # OnBranch /\ ToFallback(FALSE, FALSE) /\ UNCHANGED troubles
  /\ UNCHANGED <<world, findable>>

\* isBranchPRMerged: any merged PR of the branch decides; 404 counts as not found.
BranchSearch ==
  /\ pc = "branch"
  /\ \/ visible /\ BranchHits # {} /\ Verdict("merged") /\ UNCHANGED troubles
     \/ visible /\ BranchHits = {} /\ ToFallback(FALSE, FALSE) /\ UNCHANGED troubles
     \/ ~visible /\ ToFallback(FALSE, TRUE) /\ UNCHANGED troubles
     \/ Trouble /\ ToFallback(TRUE, FALSE)
  /\ UNCHANGED <<world, findable>>

\* Mutant: the error of the branch search is forgotten.
BodySearch_ForgetsError ==
  /\ pc = "search"
  /\ \/ visible /\ BodyHits # {} /\ Verdict("merged") /\ UNCHANGED troubles
     \/ visible /\ BodyHits = {} /\ Verdict("open") /\ UNCHANGED troubles
     \/ ~visible /\ Verdict("error") /\ UNCHANGED troubles
     \/ Trouble /\ Verdict("error")
  /\ UNCHANGED <<world, findable>>

\* isBodySearchMerged, and what mergedWithFallback makes of both: a failed branch
\* search is only made up for by a merged PR.
BodySearch ==
  /\ pc = "search"
  /\ \/ visible /\ BodyHits # {} /\ Verdict("merged") /\ UNCHANGED troubles
     \/ visible /\ BodyHits = {} /\ ~branchErr /\ Verdict("open") /\ UNCHANGED troubles
     \/ visible /\ BodyHits = {} /\ branchErr /\ Verdict("error") /\ UNCHANGED troubles
     \/ ~visible /\ Verdict("error") /\ UNCHANGED troubles
     \/ Trouble /\ Verdict("error")
  /\ UNCHANGED <<world, findable>>

CheckerStep == Check \/ BranchSearch \/ BodySearch

Next ==
  \/ CheckerStep
  \/ \E p \in PRs : Index(p) \/ \E state \in PRStates : MovePR(p, state)
  \/ Hide \/ Show

Spec == Init /\ [][Next]_vars

\* reconcile asks again at every tick, and a repository is not hidden for ever.
Fairness == WF_vars(CheckerStep) /\ WF_vars(Show)

FairSpec == Spec /\ Fairness

-----------------------------------------------------------------------------
(* Properties *)

\* The checker implements MergeCheck: two searches at different times, with merges,
\* failures and a lagging index between them, never give a wrong "merged", nor an
\* "open" for a PR that could have been found all along.  A 404 makes it unsure.
Atomic == INSTANCE MergeCheck WITH
  isMerged <- BranchHits \cup BodyHits # {},
  before   <- findable,
  answer   <- IF answer = "error" \/ (answer = "open" /\ notFound) THEN "unsure" ELSE answer

ChecksAtomically == Atomic!Spec

\* A merge that can be found is found in the end, whichever search fails meanwhile.
MergeNoticed == (BranchHits \cup BodyHits # {}) ~> answer = "merged"

=============================================================================
