------------------------------ MODULE Startup ------------------------------
(***************************************************************************)
(* The process around the orchestrators (cmd/server/main.go): initProjects *)
(* checks every configured project against its ClickUp board, main starts  *)
(* the HTTP server and one goroutine per project, then waits for a signal  *)
(* or for the server to fail.                                              *)
(*                                                                         *)
(* An orchestrator is reduced to what main sees of it: Run returns some    *)
(* time after the context is cancelled (ShutdownTerminates of module       *)
(* Orchestrator).                                                          *)
(***************************************************************************)
EXTENDS Integers, Sequences, Functions

CONSTANT ProjectCount  \* len(cfg.Projects): what config validation let through

ASSUME StartupAssumption == ProjectCount \in Nat \ {0}

Projects == 1 .. ProjectCount

VARIABLES
  pc,        \* where main is
  next,      \* index of its range loop over cfg.Projects
  orchs,     \* projectInstances.orchs: the projects that were not skipped
  run,       \* project -> the goroutine of its orchestrator
  server,    \* the HTTP server's goroutine
  wg,        \* main's WaitGroup: goroutines added and not done yet
  signalled  \* ctx is cancelled

vars == <<pc, next, orchs, run, server, wg, signalled>>

Ended == {"stopped", "exited", "panicked", "killed"}

TypeOK ==
  /\ pc \in {"init", "serve", "launch", "select", "wait"} \cup Ended
  /\ next \in 1 .. ProjectCount + 1
  /\ orchs \in Seq(Projects) /\ IsInjective(orchs)
  /\ run \in [Projects -> {"none", "running", "returned"}]
  /\ server \in {"off", "up", "failed", "closed"}
  /\ wg \in Nat /\ signalled \in BOOLEAN

Init ==
  /\ pc = "init" /\ next = 1 /\ orchs = <<>>
  /\ run = [p \in Projects |-> "none"]
  /\ server = "off" /\ wg = 0 /\ signalled = FALSE

-----------------------------------------------------------------------------
(* main *)

\* validateStatuses fails when GetStatuses does or the board lacks a status of the
\* mapping; the project is then left out.
InitProject ==
  /\ pc = "init" /\ next <= ProjectCount
  /\ orchs' \in {orchs, Append(orchs, next)}
  /\ next' = next + 1
  /\ UNCHANGED <<pc, run, server, wg, signalled>>

InitDone ==
  /\ pc = "init" /\ next > ProjectCount
  /\ pc' = IF orchs = <<>> THEN "exited" ELSE "serve"
  /\ next' = 1
  /\ UNCHANGED <<orchs, run, server, wg, signalled>>

\* Up to and including signal.NotifyContext.
StartServer ==
  /\ pc = "serve"
  /\ pc' = "launch" /\ server' = "up"
  /\ UNCHANGED <<next, orchs, run, wg, signalled>>

\* Mutant: wg.Add(1) is called once, for all.
Start_AddsOnce(i) == run' = [run EXCEPT ![orchs[i]] = "running"] /\ wg' = 1

\* What one iteration of the launch loop does with the entry i of pi.orchs: wg.Add(1),
\* then the goroutine.
Start(i) == run' = [run EXCEPT ![orchs[i]] = "running"] /\ wg' = wg + 1

\* Mutant: the index starts one too late.
Launch_SkipsFirst ==
  /\ pc = "launch" /\ next <= ProjectCount
  /\ IF next < Len(orchs)
     THEN Start(next + 1) /\ next' = next + 1 /\ UNCHANGED pc
     ELSE next' = ProjectCount + 1 /\ UNCHANGED <<run, wg, pc>>
  /\ UNCHANGED <<orchs, server, signalled>>

\* One iteration of the loop over cfg.Projects: it indexes pi.orchs, which is
\* shorter when a project was skipped.
Launch ==
  /\ pc = "launch" /\ next <= ProjectCount
  /\ IF next <= Len(orchs)
     THEN Start(next) /\ next' = next + 1 /\ UNCHANGED pc
     ELSE pc' = "panicked" /\ UNCHANGED <<run, wg, next>>
  /\ UNCHANGED <<orchs, server, signalled>>

Launched ==
  /\ pc = "launch" /\ next > ProjectCount
  /\ pc' = "select"
  /\ UNCHANGED <<next, orchs, run, server, wg, signalled>>

\* Mutant: main does not listen to srvErrCh.
Select_SignalOnly ==
  /\ pc = "select"
  /\ signalled /\ pc' = "wait"
  /\ UNCHANGED <<next, orchs, run, server, wg, signalled>>

\* With both channels ready select takes either.
Select ==
  /\ pc = "select"
  /\ \/ server = "failed" /\ pc' = "exited"
     \/ signalled /\ pc' = "wait"
  /\ UNCHANGED <<next, orchs, run, server, wg, signalled>>

\* wg.Wait returned.
Wait ==
  /\ pc = "wait" /\ wg = 0
  /\ pc' = "stopped"
  /\ UNCHANGED <<next, orchs, run, server, wg, signalled>>

-----------------------------------------------------------------------------
(* The other goroutines, which end with the process *)

\* Before NotifyContext a signal has its default effect.
Signal ==
  /\ pc \notin Ended /\ ~signalled
  /\ IF pc \in {"init", "serve"} THEN pc' = "killed" /\ UNCHANGED signalled
     ELSE signalled' = TRUE /\ UNCHANGED pc
  /\ UNCHANGED <<next, orchs, run, server, wg>>

\* ListenAndServe returns an error: it goes to srvErrCh, which has room for it.
ServerFails ==
  /\ pc \notin Ended /\ server = "up"
  /\ server' = "failed"
  /\ UNCHANGED <<pc, next, orchs, run, wg, signalled>>

\* srv.Shutdown: ListenAndServe returns ErrServerClosed, which is not reported.
CloseServer ==
  /\ pc \notin Ended /\ signalled /\ server = "up"
  /\ server' = "closed"
  /\ UNCHANGED <<pc, next, orchs, run, wg, signalled>>

\* o.Run returns and the deferred wg.Done runs.
RunReturns(p) ==
  /\ pc \notin Ended /\ signalled /\ run[p] = "running"
  /\ run' = [run EXCEPT ![p] = "returned"] /\ wg' = wg - 1
  /\ UNCHANGED <<pc, next, orchs, server, signalled>>

Terminated == pc \in Ended /\ UNCHANGED vars

MainStep ==
  InitProject \/ InitDone \/ StartServer \/ Launch \/ Launched \/ Select \/ Wait

Next ==
  \/ MainStep
  \/ Signal \/ ServerFails \/ CloseServer
  \/ \E p \in Projects : RunReturns(p)
  \/ Terminated

Spec == Init /\ [][Next]_vars

\* main runs while it can, and a cancelled Run returns.  Signals and server
\* failures need not happen.
FairSpec ==
  /\ Spec
  /\ WF_vars(MainStep) /\ WF_vars(CloseServer)
  /\ \A p \in Projects : WF_vars(RunReturns(p))

-----------------------------------------------------------------------------
(* Properties *)

\* Once main waits for a signal, every project that passed the check has had its
\* orchestrator started, and no other project has: the loop over cfg.Projects and
\* the index into pi.orchs agree whenever main gets that far.
ValidProjectsRun ==
  pc \in {"select", "wait", "stopped"} =>
    \A p \in Projects : run[p] # "none" <=> p \in Range(orchs)

\* "service_stopped" is reached only when no orchestrator is still running, whichever
\* returned first and at whatever point of the launch the signal came: the WaitGroup's
\* counter is zero only then.
StopsAfterRuns == pc = "stopped" => \A p \in Projects : run[p] # "running"

\* After a signal, or when its server has failed, the process ends: also when the
\* other comes on top, and whatever order the orchestrators return in.
ProcessEnds == signalled \/ server = "failed" ~> pc \in Ended

\* "Projects that fail validation are skipped and the service goes on with the valid
\* ones" (main.go:128).
SkippingTolerated == pc # "panicked"

=============================================================================
