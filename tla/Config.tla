------------------------------- MODULE Config -------------------------------
(***************************************************************************)
(* Loading the configuration (internal/config): the environment gives the  *)
(* tokens, a YAML file the projects.  An entry of the file that does not   *)
(* pass validation is skipped and the others are loaded; an entry may      *)
(* leave out any field, and rename some of the statuses.                   *)
(*                                                                         *)
(* What is loaded is what the other modules take for granted: mode and     *)
(* projects are the inputs of AppAuthenticator, Startup and Orchestrator.  *)
(***************************************************************************)
EXTENDS Integers, Sequences, FiniteSets

CONSTANTS
  Texts,       \* the texts an entry may hold
  Normal,      \* text -> the text trimmed and in lower case
  Nil,         \* a field, or the whole status_mapping, that is left out
  Envs,        \* environments
  Files,       \* contents of the projects file
  Unreadable,  \* a file that is missing, or not YAML
  IntMax       \* 2^63: an int is in -IntMax .. IntMax - 1

AppFields ==
  {"GITHUB_APP_ID", "GITHUB_APP_INSTALLATION_ID", "GITHUB_APP_PRIVATE_KEY"}

\* The fields of rawStatusMappingConfig, to be kept those of StatusMapping.
Fields == {"ReadyForSpec", "GeneratingSpec", "SpecReview",
           "ReadyForCode", "Implementing", "PRReview", "Closed"}

Ints == -IntMax .. IntMax - 1

\* A variable that is not set is as one set to "".
Environment ==
  [token : BOOLEAN, pat : BOOLEAN, app : [AppFields -> {"unset", "malformed", "valid"}]]

RawProject ==
  [list : Texts, owner : Texts, repo : Texts, spec : Texts,
   mapping : [Fields -> Texts] \cup {Nil},
   poll : Ints \cup {Nil}, tasks : Ints \cup {Nil}, shutdown : Ints \cup {Nil}]

ASSUME TextAssumption == Normal \in [Texts -> Texts] /\ "" \in Texts /\ Normal[""] = ""

ASSUME InputAssumption ==
  /\ Envs \subseteq Environment
  /\ \A content \in Files : content = Unreadable \/ content \in Seq(RawProject)
  /\ Nil \notin Ints \cup [Fields -> Texts]

ASSUME WidthAssumption == IntMax \in Nat /\ IntMax > 30000

Mapping(m) == INSTANCE StatusMapping
                WITH sm <- m, OtherStatuses <- {}, NoPhase <- Nil

Default == Mapping(Nil)!DefaultStatusMapping
Phases == Mapping(Nil)!Phases

\* What a status of a loaded project may be called.
Names == Texts \cup {Default[f] : f \in Fields}

VARIABLES
  env,      \* what os.Getenv answers
  file,     \* what os.ReadFile and yaml.Unmarshal answer
  pc,       \* where Load is
  mode,     \* AuthMode
  next,     \* index of the range loop over the entries
  projects, \* the projects loaded so far
  skipped   \* indices of the entries skipped so far

vars == <<env, file, pc, mode, next, projects, skipped>>

-----------------------------------------------------------------------------
(* Validation of one entry *)

resolve(v, default) == IF v = Nil THEN default ELSE v

resolvePollIntervalMS(v) == resolve(v, 10000)
resolveMaxConcurrentTasks(v) == resolve(v, 0)
resolveShutdownTimeoutMS(v) == resolve(v, 30000)

resolveSpecOutput(raw) == IF raw = "" THEN "clickup" ELSE Normal[raw]

\* An override is normalised before it is compared with anything, a field left out
\* keeps its default.
resolveStatusMapping(raw) ==
  [f \in Fields |-> IF raw = Nil \/ raw[f] = "" THEN Default[f] ELSE Normal[raw[f]]]

\* Mutant: only the names in the file are compared with each other.
validateStatusMapping_RawNames(raw) ==
  LET sm == resolveStatusMapping(raw)
  IN  /\ \A f \in Fields : sm[f] # ""
      /\ raw # Nil => \A f, g \in Fields : raw[f] = raw[g] => f = g \/ raw[f] = ""

validateStatusMapping(raw) ==
  LET sm == resolveStatusMapping(raw)
  IN  (\A f \in Fields : sm[f] # "") /\ Mapping(sm)!validateStatusMapping

\* Mutant: the poll interval is tested as the limit is, so that 0 passes.
Accepted_ZeroPoll(p) ==
  /\ "" \notin {p.list, p.owner, p.repo}
  /\ resolveSpecOutput(p.spec) \in {"clickup", "repo"}
  /\ validateStatusMapping(p.mapping)
  /\ resolvePollIntervalMS(p.poll) >= 0
  /\ resolveMaxConcurrentTasks(p.tasks) >= 0
  /\ resolveShutdownTimeoutMS(p.shutdown) > 0

Accepted(p) ==
  /\ "" \notin {p.list, p.owner, p.repo}
  /\ resolveSpecOutput(p.spec) \in {"clickup", "repo"}
  /\ validateStatusMapping(p.mapping)
  /\ resolvePollIntervalMS(p.poll) > 0
  /\ resolveMaxConcurrentTasks(p.tasks) >= 0
  /\ resolveShutdownTimeoutMS(p.shutdown) > 0

\* The ProjectConfig made of an accepted entry.
buildProjectConfig(p) ==
  [list |-> p.list, repo |-> <<p.owner, p.repo>>,
   spec |-> resolveSpecOutput(p.spec),
   mapping |-> resolveStatusMapping(p.mapping),
   poll |-> resolvePollIntervalMS(p.poll),
   tasks |-> resolveMaxConcurrentTasks(p.tasks),
   shutdown |-> resolveShutdownTimeoutMS(p.shutdown)]

-----------------------------------------------------------------------------
(* Load *)

Init ==
  /\ env \in Envs /\ file \in Files
  /\ pc = "auth" /\ mode = "none" /\ next = 1
  /\ projects = <<>> /\ skipped = {}

\* Mutant: one App variable is enough.
AuthMode_AnyField(e) ==
  LET hasApp == \E f \in AppFields : e.app[f] # "unset"
  IN  IF ~e.token \/ e.pat = hasApp THEN "none"
      ELSE IF e.pat THEN "pat" ELSE "app"

\* A PAT and App variables exclude each other; of the latter all are needed.
\* "none" is an error.
AuthMode(e) ==
  LET hasApp == \E f \in AppFields : e.app[f] # "unset"
  IN  IF ~e.token \/ e.pat = hasApp THEN "none"
      ELSE IF e.pat THEN "pat"
      ELSE IF \A f \in AppFields : e.app[f] = "valid" THEN "app" ELSE "none"

loadGitHubAuth ==
  /\ pc = "auth"
  /\ mode' = AuthMode(env)
  /\ pc' = IF mode' = "none" THEN "failed" ELSE "open"
  /\ UNCHANGED <<env, file, next, projects, skipped>>

OpenFile ==
  /\ pc = "open"
  /\ pc' = IF file \in {Unreadable, <<>>} THEN "failed" ELSE "build"
  /\ UNCHANGED <<env, file, mode, next, projects, skipped>>

\* Mutant: the loop ends at an entry that is not accepted.
LoadEntry_StopsAtError ==
  /\ pc = "build" /\ next <= Len(file)
  /\ LET p == file[next]
     IN  IF Accepted(p)
         THEN projects' = Append(projects, buildProjectConfig(p)) /\ next' = next + 1
              /\ UNCHANGED skipped
         ELSE skipped' = skipped \cup {next} /\ next' = Len(file) + 1
              /\ UNCHANGED projects
  /\ UNCHANGED <<env, file, pc, mode>>

LoadEntry ==
  /\ pc = "build" /\ next <= Len(file)
  /\ LET p == file[next]
     IN  IF Accepted(p)
         THEN projects' = Append(projects, buildProjectConfig(p)) /\ UNCHANGED skipped
         ELSE skipped' = skipped \cup {next} /\ UNCHANGED projects
  /\ next' = next + 1
  /\ UNCHANGED <<env, file, pc, mode>>

Loaded ==
  /\ pc = "build" /\ next > Len(file)
  /\ pc' = IF projects = <<>> THEN "failed" ELSE "loaded"
  /\ UNCHANGED <<env, file, mode, next, projects, skipped>>

Returned == pc \in {"failed", "loaded"} /\ UNCHANGED vars

Next == loadGitHubAuth \/ OpenFile \/ LoadEntry \/ Loaded \/ Returned

Spec == Init /\ [][Next]_vars

-----------------------------------------------------------------------------
(* Properties *)

\* What is required is there, no interval is zero or below, no limit negative.
Project ==
  LET given == Texts \ {""}
  IN  [list : given, repo : given \X given, spec : {"clickup", "repo"},
       mapping : [Fields -> Names \ {""}],
       poll : Ints \cap (Nat \ {0}), tasks : Ints \cap Nat, shutdown : Ints \cap (Nat \ {0})]

TypeOK ==
  /\ env \in Envs /\ file \in Files
  /\ pc \in {"auth", "open", "build", "loaded", "failed"}
  /\ mode \in {"none", "pat", "app"}
  /\ next \in Nat \ {0}
  /\ skipped \subseteq 1 .. next - 1
  /\ projects \in Seq(Project)

\* However the statuses of a project are renamed, and whatever is left to its default:
\* the status dispatch writes is one the next start recovers and no tick dispatches,
\* its phase is read back, success takes the task out of both, and a revert returns it
\* to a status dispatched in the same phase (orchestrator.go:202, :241, :374, :386).
LoadedMappingsWork ==
  \A i \in DOMAIN projects : \A phase \in Phases :
    LET m == projects[i].mapping
        processing == Mapping(m)!ProcessingStatusFor(phase)
        success == Mapping(m)!SuccessStatusFor(phase)
        error == Mapping(m)!ErrorStatusFor(phase)
    IN  /\ Mapping(m)!IsProcessingStatus(processing)
        /\ ~Mapping(m)!IsTriggerStatus(processing)
        /\ ~Mapping(m)!IsProcessingStatus(success) /\ ~Mapping(m)!IsTriggerStatus(success)
        /\ Mapping(m)!IsTriggerStatus(error) /\ ~Mapping(m)!IsProcessingStatus(error)
        /\ \A s \in {processing, success, error} :
             Mapping(m)!PhaseFromStatus(s) = phase /\ ~Mapping(m)!IsTerminalStatus(s)

AcceptedUpTo(n) == {i \in 1 .. n : Accepted(file[i])}

\* An entry that is not accepted costs the service that project and no other: what is
\* loaded is each accepted entry as it would be alone, at its place among the accepted
\* ones (projects.go:75-82).
EntriesIndependent ==
  pc = "loaded" =>
    LET accepted == AcceptedUpTo(Len(file))
    IN  /\ skipped = DOMAIN file \ accepted
        /\ Len(projects) = Cardinality(accepted)
        /\ \A i \in accepted :
             projects[Cardinality(AcceptedUpTo(i))] = buildProjectConfig(file[i])

\* The service never starts with nothing to do, or with a choice between a PAT and an
\* App, or with an App half configured (config.go:56).
LoadedIsUsable ==
  pc = "loaded" =>
    /\ projects # <<>>
    /\ env.pat = (mode = "pat")
    /\ (\E f \in AppFields : env.app[f] # "unset") = (mode = "app")
    /\ mode = "app" => \A f \in AppFields : env.app[f] = "valid"

=============================================================================
