------------------------------ MODULE Service ------------------------------
(***************************************************************************)
(* One project from end to end: its Orchestrator, the workflow runs it     *)
(* starts, the pull requests these open, the people who merge them, and    *)
(* crashes of the process, which systemd restarts.                         *)
(*                                                                         *)
(* A step of the orchestrator is one of module Orchestrator, joined with   *)
(* what it does to the runs, or finds out about the pull requests.  Nobody *)
(* but the runs reports for an agent: BoardMoves is people's only.         *)
(***************************************************************************)
EXTENDS Orchestrator

CONSTANTS
  SpecInRepo,  \* spec_output = "repo": a SPEC run opens a PR as well
  MaxMishaps   \* bound: crashes with a restart, and misreports of runs, together

ASSUME ServiceAssumption ==
  SpecInRepo \in BOOLEAN /\ MaxMishaps \in Nat

VARIABLES
  runs,     \* task -> phase -> its workflow runs that have not reported yet
  prs,      \* task -> phase -> what there is on its branch: "open", "merged" PRs
  failing,  \* task -> phase -> its runs that fail after their success report
  restarts, \* crashes so far
  late,     \* error reports so far of runs that had reported success
  misreports, \* runs so far that ended without a report, or fail after a success report
  stranded  \* history: tasks given up in a processing status, see GivenUp

actorVars == <<runs, prs, failing, restarts, late, misreports>>
serviceVars == <<vars, actorVars>>
allVars == <<serviceVars, stranded>>

Counters == [Tasks -> [Phases -> Nat]]

ServiceTypeOK ==
  /\ TypeOK
  /\ runs \in Counters /\ failing \in Counters
  /\ prs \in [Tasks -> [Phases -> SUBSET {"open", "merged"}]]
  /\ restarts \in Nat /\ misreports \in Nat /\ restarts + misreports <= MaxMishaps
  /\ late \in Nat
  /\ stranded \subseteq Tasks

ServiceInit ==
  /\ Init
  /\ runs = [t \in Tasks |-> [ph \in Phases |-> 0]]
  /\ prs = [t \in Tasks |-> [ph \in Phases |-> {}]]
  /\ failing = runs
  /\ restarts = 0 /\ late = 0 /\ misreports = 0 /\ stranded = {}

-----------------------------------------------------------------------------
(* The orchestrator's steps *)

IsMerged(t, ph) == "merged" \in prs[t][ph]

RunStarted(t, ph) == runs' = [runs EXCEPT ![t][ph] = @ + 1]

\* Mutants: the dispatch is sent twice, as by a client that retries; an
\* accepted dispatch starts no run.
RunsAfter_Twice(p) ==
  IF pc[p] # "trigger" THEN UNCHANGED runs
  ELSE \/ runs' = [runs EXCEPT ![task[p]][phase[p]] = @ + 2]
       \/ pc'[p] # "mark" /\ UNCHANGED runs
RunsAfter_Dropped(p) == UNCHANGED runs

\* TriggerWorkflow: an accepted dispatch starts a run, a failed one may have.
RunsAfter(p) ==
  IF pc[p] # "trigger" THEN UNCHANGED runs
  ELSE \/ RunStarted(task[p], phase[p])
       \/ pc'[p] # "mark" /\ UNCHANGED runs

\* The answer of checkMerged is what GitHub has, unless the call failed.
CheckFailed == cancelled \/ faults' # faults

\* Mutant: a merged PR is reported as not merged.
Verdict_Missed == pc[Main] = "check_pr" => pc'[Main] # "advance"

Verdict ==
  pc[Main] = "check_pr" =>
    IF pc'[Main] = "advance" THEN IsMerged(task[Main], phase[Main])
    ELSE CheckFailed \/ ~IsMerged(task[Main], phase[Main])

ServedMain == MainStep /\ Verdict /\ UNCHANGED actorVars

ServedDispatch(p) == DispatchStep(p) /\ RunsAfter(p) /\ UNCHANGED <<prs, failing, restarts, late, misreports>>

ServedCallback(h) == CallbackStep(h) /\ UNCHANGED actorVars

-----------------------------------------------------------------------------
(* Runs, people, crashes *)

Opened(t, ph) == [prs EXCEPT ![t][ph] = @ \cup {"open"}]

\* Mutant: an end is counted twice.
Ended_Unstarted(t, ph) == runs' = [runs EXCEPT ![t][ph] = @ - 1]

Ended(t, ph) == runs[t][ph] > 0 /\ runs' = [runs EXCEPT ![t][ph] = @ - 1]

OpensPRs(ph) == ph = "CODE" \/ SpecInRepo

PRAfter(t, ph) == prs' = prs \/ (OpensPRs(ph) /\ prs' = Opened(t, ph))

MishapsLeft == restarts + misreports < MaxMishaps

Misreport == MishapsLeft /\ misreports' = misreports + 1

\* In repo mode a spec run does not report success without a PR on its branch.
\* The job may yet fail: a step after the report, or the report's lost answer.
RunSucceeds(t, ph) ==
  /\ Ended(t, ph)
  /\ PRAfter(t, ph)
  /\ ph = "SPEC" /\ SpecInRepo => prs'[t][ph] # {}
  /\ board' = Written(t, SuccessStatusFor(ph))
  /\ \/ UNCHANGED <<failing, misreports>>
     \/ Misreport /\ failing' = [failing EXCEPT ![t][ph] = @ + 1]
  /\ UNCHANGED <<sharedVars, faults, cancelled, localVars, loopVars, restarts, late>>

RunFails(t, ph) ==
  /\ Ended(t, ph)
  /\ PRAfter(t, ph)
  /\ board' = Written(t, ErrorStatusFor(ph))
  /\ UNCHANGED <<sharedVars, faults, cancelled, localVars, loopVars, failing, restarts, late, misreports>>

\* The error status over the success status, or over what came after it.
RunFailsLate(t, ph) ==
  /\ failing[t][ph] > 0
  /\ failing' = [failing EXCEPT ![t][ph] = @ - 1]
  /\ late' = late + 1
  /\ board' = Written(t, ErrorStatusFor(ph))
  /\ UNCHANGED <<sharedVars, faults, cancelled, localVars, loopVars, runs, prs, restarts, misreports>>

\* The time limit of the job ends a run without its reporting steps, or its error
\* report does not get through.
RunVanishes(t, ph) ==
  /\ Ended(t, ph)
  /\ PRAfter(t, ph)
  /\ Misreport
  /\ UNCHANGED <<vars, failing, restarts, late>>

MergePR(t, ph) ==
  /\ "open" \in prs[t][ph]
  /\ prs' = [prs EXCEPT ![t][ph] = {"merged"}]
  /\ UNCHANGED <<vars, runs, failing, restarts, late, misreports>>

\* Crash at any point, and a new process.  What was in memory is gone; the board,
\* the runs and the PRs are not.
Restart ==
  /\ MishapsLeft /\ restarts' = restarts + 1
  /\ claimed' = {} /\ running' = {} /\ active' = 0
  /\ retryTimers' = [t \in Tasks |-> NoTimer]
  /\ done' = FALSE /\ cancelled' = FALSE
  /\ pc' = [p \in Process |-> IF p = Main THEN "boot" ELSE "idle"]
  /\ task' = [p \in Process |-> NoTask]
  /\ phase' = [p \in Process |-> NoPhase]
  /\ attempt' = [p \in Process |-> 0]
  /\ todo' = {} /\ list' = {}
  /\ UNCHANGED <<callVars, runs, prs, failing, late, misreports>>

Actors ==
  \/ \E t \in Tasks, ph \in Phases :
       \/ RunSucceeds(t, ph) \/ RunFails(t, ph) \/ RunFailsLate(t, ph)
       \/ RunVanishes(t, ph) \/ MergePR(t, ph)
  \/ Restart

ServiceStep ==
  \/ ServedMain
  \/ \E p \in Process : ServedDispatch(p)
  \/ \E h \in Callbacks : Fire(h) /\ UNCHANGED actorVars
  \/ \E h \in Callbacks : ServedCallback(h)
  \/ Environment /\ UNCHANGED actorVars
  \/ Actors
  \/ Terminated /\ UNCHANGED actorVars

-----------------------------------------------------------------------------
(* Who looks after a task, and the steps that give one up *)

HasRun(t) == \E ph \in Phases : runs[t][ph] > 0

\* Somebody is about to start a run for t, or to take its status back.
Handled(t) ==
  \/ \E p \in Process : pc[p] \in {"trigger", "revert"} /\ task[p] = t
  \/ pc[Main] = "boot"
  \/ pc[Main] = "recover" /\ [task |-> t, phase |-> PhaseFromStatus(board[t])] \in list

\* What this code does not repair before its next start, if it leaves the task in its
\* processing status: a failed update that took effect, a failed revert, a failed
\* recovery (of all tasks, of one), a run that ends in silence.
GivenUp(t) ==
  \/ \E p \in Process : pc[p] = "update" /\ pc'[p] = "release_state" /\ task[p] = t
  \/ \E p \in Process : pc[p] = "revert" /\ pc'[p] # "revert" /\ task[p] = t
  \/ pc[Main] = "boot" /\ pc'[Main] = "reconcile"
  \/ pc[Main] = "recover" /\ \E e \in list \ list' : e.task = t
  \/ misreports' # misreports /\ HasRun(t) /\ ~HasRun(t)'

Stranding ==
  stranded' = {t \in Tasks : /\ IsProcessingStatus(board'[t]) /\ ~Handled(t)'
                             /\ t \in stranded \/ GivenUp(t)}

ServiceNext == ServiceStep /\ Stranding

ServiceSpec == ServiceInit /\ [][ServiceNext]_allVars

\* As in module Orchestrator; nothing is assumed of runs and people.
ServiceFairness ==
  /\ WF_serviceVars(ServedMain \/ ServedDispatch(Main))
  /\ SF_serviceVars(StartShutdown /\ UNCHANGED actorVars)
  /\ \A h \in Callbacks :
       /\ WF_serviceVars(Fire(h) /\ UNCHANGED actorVars)
       /\ WF_serviceVars(ServedCallback(h) \/ ServedDispatch(h))

FairServiceSpec == ServiceSpec /\ ServiceFairness

-----------------------------------------------------------------------------
(* Properties *)

\* People leave the tasks in progress to the runs, the other statuses are theirs.
Calm ==
  \A move \in BoardMoves : ~IsProcessingStatus(move[1]) /\ ~IsProcessingStatus(move[2])

LiveRuns(t) == runs[t]["SPEC"] + runs[t]["CODE"]

\* No call has failed, but for a stop of the process, no process has crashed and no
\* run has failed after it had reported success.
Undisturbed == faults = 0 /\ restarts = 0 /\ late = 0

\* The retries that may yet dispatch t.
Retries(t) == {h \in Callbacks : pc[h] \in CallbackPCs \ {"idle"} /\ task[h] = t}

\* No task is worked on twice at the same time: in-memory state, held by a single
\* authority, prevents double execution (SPEC.md:29), but for what failures leave
\* behind.  A failed call may cost a run whose answer was lost and a retry, which may
\* start another one; a crash may cost one more, as the run goes on; so may an error
\* report that follows a success, as it can undo the status of a newer run.  Retries of
\* a process that is being stopped come to nothing: every call of theirs fails.
RunsBounded ==
  \A t \in Tasks :
    LiveRuns(t) + (IF cancelled THEN 0 ELSE Cardinality(Retries(t))) <= 1 + 2 * faults + restarts + late

\* A task shown as being worked on is, across failed calls, retries, crashes and stops:
\* some run, some dispatch or the recovery at start will take it out of its processing
\* status, unless one of the steps GivenUp names has left it there.
ProcessingIsReal ==
  \A t \in Tasks : IsProcessingStatus(board[t]) => HasRun(t) \/ Handled(t) \/ t \in stranded

\* Up to the first failing call, the first crash and the first late failure, the
\* orchestrator tracks the task a run works on, or is about to mark it running, so that
\* it is not lost sight of when the run reports.
RunsTracked ==
  Undisturbed => \A t \in Tasks : HasRun(t) =>
    \/ t \in running
    \/ pc[Main] = "mark" /\ task[Main] = t
    \/ cancelled

\* A merged PR closes its task: "after the merge the orchestrator moves it to CLOSED
\* automatically" (SPEC.md:171), while the process that saw the task into review runs
\* and its calls succeed.
MergeCloses ==
  \A t \in Tasks :
    (board[t] = sm.PRReview /\ IsMerged(t, "CODE"))
      ~> (board[t] # sm.PRReview \/ cancelled \/ ~Undisturbed)

\* Recovery from transient failures (SPEC.md:32): whatever calls fail and whenever the
\* process crashes, a task in a processing status without a run gets one, or its status
\* is taken back, unless one of the steps GivenUp names has left it there.
StuckTaskRecovers ==
  \A t \in Tasks :
    (IsProcessingStatus(board[t]) /\ ~HasRun(t))
      ~> (~IsProcessingStatus(board[t]) \/ HasRun(t) \/ t \in stranded)

\* Restart recovery from what ClickUp shows (SPEC.md:339): whatever the process before
\* has left behind, stranded tasks included, the next one takes every task out of its
\* processing status, unless its own recovery of the task fails.
CrashRecovers ==
  \A t \in Tasks :
    (pc[Main] = "boot" /\ IsProcessingStatus(board[t]))
      ~> (~IsProcessingStatus(board[t]) \/ t \in stranded)

=============================================================================
