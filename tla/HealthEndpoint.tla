--------------------------- MODULE HealthEndpoint ---------------------------
(***************************************************************************)
(* GET /health (internal/health/handler.go) in the process of module       *)
(* Startup: one goroutine per project and service pings it, and the        *)
(* handler collects the results as they come into a map from the project's *)
(* name to its services.  Requests share nothing, so one is followed at a  *)
(* time; the process may stop, exit or panic while it is served.           *)
(***************************************************************************)
EXTENDS Startup

CONSTANT Name  \* project -> "owner/repo"

ASSUME HealthAssumption == DOMAIN Name = Projects

VARIABLES
  handler,   \* "idle", "collect", "answered"
  pinging,   \* goroutines whose result has not been collected
  shown,     \* the map: name and service -> "ok", "error"
  degraded,
  received   \* results collected so far

requestVars == <<handler, pinging, shown, degraded, received>>
endpointVars == <<vars, requestVars>>

Services == {"clickup", "github"}

Keys == {<<Name[p], s>> : p \in Projects, s \in Services}

\* Mutant: the handler is given the configured projects, not those that passed.
Watched_All == Projects

\* h.projects = pi.pingers, which initProjects extends together with pi.orchs.
Watched == Range(orchs)

HealthTypeOK ==
  /\ TypeOK
  /\ handler \in {"idle", "collect", "answered"}
  /\ pinging \subseteq Projects \X Services
  /\ shown \in UNION {[K -> {"ok", "error"}] : K \in SUBSET Keys}
  /\ degraded \in BOOLEAN
  /\ received \in 0 .. 2 * Len(orchs)

HealthInit ==
  /\ Init
  /\ handler = "idle" /\ pinging = {}
  /\ shown = [k \in {} |-> "ok"] /\ degraded = FALSE /\ received = 0

\* Mutant: the handler's variables live on from one request to the next.
Ask_NotReset ==
  /\ server = "up" /\ handler # "collect"
  /\ handler' = "collect" /\ pinging' = Watched \X Services
  /\ UNCHANGED <<shown, degraded, received>>

\* A request, the next one after an answer: nothing is left of the last one.
Ask ==
  /\ server = "up" /\ handler # "collect"
  /\ handler' = "collect" /\ pinging' = Watched \X Services
  /\ shown' = [k \in {} |-> "ok"] /\ degraded' = FALSE /\ received' = 0

\* Mutant: a project's entry is made anew for each result.
Shown_Fresh(ping, res) ==
  LET key == <<Name[ping[1]], ping[2]>>
      kept == {k \in DOMAIN shown : k[1] # key[1]} \cup {key}
  IN  [k \in kept |-> IF k = key THEN res ELSE shown[k]]

\* A later result of the same name and service replaces an earlier one.
Shown(ping, res) ==
  LET key == <<Name[ping[1]], ping[2]>>
  IN  [k \in DOMAIN shown \cup {key} |-> IF k = key THEN res ELSE shown[k]]

\* Ping answers or fails, at the latest by its timeout.  The channel has room for
\* every result and the handler takes them in any order, so sending and collecting
\* are one step.
Collect(ping) ==
  /\ handler = "collect" /\ ping \in pinging
  /\ pinging' = pinging \ {ping}
  /\ \E res \in {"ok", "error"} :
       shown' = Shown(ping, res) /\ degraded' = (degraded \/ res = "error")
  /\ received' = received + 1
  /\ UNCHANGED handler

\* Mutant: the handler waits for a result that never comes.
Answer_OneMore ==
  /\ handler = "collect" /\ received > 2 * Len(orchs)
  /\ handler' = "answered" /\ UNCHANGED <<pinging, shown, degraded, received>>

Answer ==
  /\ handler = "collect" /\ received = 2 * Len(orchs)
  /\ handler' = "answered" /\ UNCHANGED <<pinging, shown, degraded, received>>

\* A handler at work goes on while the server is being shut down, and until the
\* process ends.
Serving(step) == pc \notin Ended /\ step /\ UNCHANGED vars

HealthNext ==
  \/ Next /\ UNCHANGED requestVars
  \/ Serving(Ask \/ Answer)
  \/ \E ping \in Projects \X Services : Serving(Collect(ping))

HealthSpec == HealthInit /\ [][HealthNext]_endpointVars

\* As in Startup; pings have a time limit and the handler collects what there is.
HealthFairness ==
  /\ WF_endpointVars(MainStep /\ UNCHANGED requestVars)
  /\ WF_endpointVars(CloseServer /\ UNCHANGED requestVars)
  /\ \A p \in Projects : WF_endpointVars(RunReturns(p) /\ UNCHANGED requestVars)
  /\ \A ping \in Projects \X Services : WF_endpointVars(Serving(Collect(ping)))
  /\ WF_endpointVars(Serving(Answer))

FairHealthSpec == HealthSpec /\ HealthFairness

-----------------------------------------------------------------------------
(* Properties *)

\* Whatever the order of the results, an answer speaks of every project that passed
\* the check at start, of both its services, and of no project that was skipped
\* (handler.go:71-84, main.go:68).
AnswerComplete ==
  handler = "answered" =>
    DOMAIN shown = {<<Name[p], s>> : p \in Range(orchs), s \in Services}

\* Whoever gets a 503 finds the failing service in the body, and none in a 200
\* (handler.go:73-81), but for projects of one repository, of which the later result
\* hides the earlier.
FailuresShown ==
  handler = "answered" =>
    LET failing == \E k \in DOMAIN shown : shown[k] = "error"
        namesShared == \E p, q \in Range(orchs) : p # q /\ Name[p] = Name[q]
    IN  /\ failing => degraded
        /\ degraded => failing \/ namesShared

\* Every request is answered unless the process ends first, also while it is being
\* stopped (handler.go:71).
RequestAnswered == handler = "collect" ~> (handler = "answered" \/ pc \in Ended)

=============================================================================
