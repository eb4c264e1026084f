---------------------------- MODULE ConfigProofs ----------------------------
(***************************************************************************)
(* What a loaded configuration guarantees, whatever the environment, the   *)
(* file, and the way texts are normalised.                                 *)
(***************************************************************************)
EXTENDS Config, FiniteSetTheorems, TLAPS

\* A valid mapping gives each phase its own statuses, and each of these one role.
LEMMA ValidMappingWorks ==
  ASSUME NEW m, Mapping(m)!validateStatusMapping, NEW phase \in Phases
  PROVE  LET processing == Mapping(m)!ProcessingStatusFor(phase)
             success == Mapping(m)!SuccessStatusFor(phase)
             error == Mapping(m)!ErrorStatusFor(phase)
         IN  /\ Mapping(m)!IsProcessingStatus(processing)
             /\ ~Mapping(m)!IsTriggerStatus(processing)
             /\ ~Mapping(m)!IsProcessingStatus(success)
             /\ ~Mapping(m)!IsTriggerStatus(success)
             /\ Mapping(m)!IsTriggerStatus(error)
             /\ ~Mapping(m)!IsProcessingStatus(error)
             /\ \A s \in {processing, success, error} :
                  Mapping(m)!PhaseFromStatus(s) = phase /\ ~Mapping(m)!IsTerminalStatus(s)
<1>1. /\ m.ReadyForSpec # m.GeneratingSpec /\ m.ReadyForSpec # m.SpecReview
      /\ m.ReadyForSpec # m.ReadyForCode /\ m.ReadyForSpec # m.Implementing
      /\ m.ReadyForSpec # m.PRReview /\ m.ReadyForSpec # m.Closed
  BY DEF Mapping!validateStatusMapping, Mapping!Fields
<1>2. /\ m.GeneratingSpec # m.SpecReview /\ m.GeneratingSpec # m.ReadyForCode
      /\ m.GeneratingSpec # m.Implementing /\ m.GeneratingSpec # m.PRReview
      /\ m.GeneratingSpec # m.Closed
  BY DEF Mapping!validateStatusMapping, Mapping!Fields
<1>3. /\ m.SpecReview # m.ReadyForCode /\ m.SpecReview # m.Implementing
      /\ m.SpecReview # m.PRReview /\ m.SpecReview # m.Closed
  BY DEF Mapping!validateStatusMapping, Mapping!Fields
<1>4. /\ m.ReadyForCode # m.Implementing /\ m.ReadyForCode # m.PRReview
      /\ m.ReadyForCode # m.Closed
      /\ m.Implementing # m.PRReview /\ m.Implementing # m.Closed /\ m.PRReview # m.Closed
  BY DEF Mapping!validateStatusMapping, Mapping!Fields
<1>5. phase = "SPEC" \/ phase = "CODE"
  BY DEF Phases, Mapping!Phases
<1> QED
  BY <1>1, <1>2, <1>3, <1>4, <1>5
     DEF Mapping!ProcessingStatusFor, Mapping!SuccessStatusFor, Mapping!ErrorStatusFor,
         Mapping!IsProcessingStatus, Mapping!IsTriggerStatus, Mapping!IsTerminalStatus,
         Mapping!PhaseFromStatus

-----------------------------------------------------------------------------
(* Types *)

\* An accepted entry becomes a project with every field in its range.
LEMMA AcceptedBuilds ==
  ASSUME NEW p \in RawProject, Accepted(p)
  PROVE  /\ buildProjectConfig(p) \in Project
         /\ Mapping(buildProjectConfig(p).mapping)!validateStatusMapping
<1>1. Normal \in [Texts -> Texts] /\ \A f \in Fields : Default[f] \in Names
  BY TextAssumption DEF Names
<1>2. resolveStatusMapping(p.mapping) \in [Fields -> Names \ {""}]
  <2>1. p.mapping = Nil \/ p.mapping \in [Fields -> Texts]
    BY DEF RawProject
  <2>2. resolveStatusMapping(p.mapping) \in [Fields -> Names]
    BY <1>1, <2>1 DEF resolveStatusMapping, Names
  <2>3. \A f \in Fields : resolveStatusMapping(p.mapping)[f] # ""
    BY DEF Accepted, validateStatusMapping
  <2> QED BY <2>2, <2>3
<1>3. /\ 10000 \in Ints /\ 0 \in Ints /\ 30000 \in Ints
  BY WidthAssumption, SMT DEF Ints
<1>4. resolvePollIntervalMS(p.poll) \in Ints \cap (Nat \ {0})
  <2>1. resolvePollIntervalMS(p.poll) \in Ints
    BY <1>3 DEF RawProject, resolvePollIntervalMS, resolve
  <2>2. resolvePollIntervalMS(p.poll) > 0
    BY Zenon DEF Accepted
  <2>3. \A n \in Ints : n > 0 => n \in Ints \cap (Nat \ {0})
    BY WidthAssumption, SMT DEF Ints
  <2> QED BY <2>1, <2>2, <2>3, Zenon
<1>5. resolveMaxConcurrentTasks(p.tasks) \in Ints \cap Nat
  <2>1. resolveMaxConcurrentTasks(p.tasks) \in Ints
    BY <1>3 DEF RawProject, resolveMaxConcurrentTasks, resolve
  <2>2. resolveMaxConcurrentTasks(p.tasks) >= 0
    BY Zenon DEF Accepted
  <2>3. \A n \in Ints : n >= 0 => n \in Ints \cap Nat
    BY WidthAssumption, SMT DEF Ints
  <2> QED BY <2>1, <2>2, <2>3, Zenon
<1>6. resolveShutdownTimeoutMS(p.shutdown) \in Ints \cap (Nat \ {0})
  <2>1. resolveShutdownTimeoutMS(p.shutdown) \in Ints
    BY <1>3 DEF RawProject, resolveShutdownTimeoutMS, resolve
  <2>2. resolveShutdownTimeoutMS(p.shutdown) > 0
    BY Zenon DEF Accepted
  <2>3. \A n \in Ints : n > 0 => n \in Ints \cap (Nat \ {0})
    BY WidthAssumption, SMT DEF Ints
  <2> QED BY <2>1, <2>2, <2>3, Zenon
<1>7. resolveSpecOutput(p.spec) \in {"clickup", "repo"}
  BY DEF Accepted
<1>8. p.list \in Texts \ {""} /\ <<p.owner, p.repo>> \in (Texts \ {""}) \X (Texts \ {""})
  BY DEF RawProject, Accepted
<1>9. buildProjectConfig(p) \in Project
  BY <1>2, <1>4, <1>5, <1>6, <1>7, <1>8, Zenon DEF buildProjectConfig, Project
<1>10. Mapping(resolveStatusMapping(p.mapping))!validateStatusMapping
  BY DEF Accepted, validateStatusMapping
<1>11. buildProjectConfig(p).mapping = resolveStatusMapping(p.mapping)
  BY DEF buildProjectConfig
<1> QED BY <1>9, <1>10, <1>11

MappingsValid ==
  \A i \in DOMAIN projects : Mapping(projects[i].mapping)!validateStatusMapping

\* What has to hold before the loop over the entries ends.
AuthSettled ==
  /\ pc = "auth" => mode = "none"
  /\ pc \in {"open", "build", "loaded"} => mode = AuthMode(env) /\ mode # "none"
  /\ pc = "loaded" => projects # <<>>
  /\ pc = "build" => file \in Seq(RawProject)

Inv == TypeOK /\ MappingsValid /\ AuthSettled

LEMMA InitInv == Init => Inv
  BY DEF Init, Inv, TypeOK, MappingsValid, AuthSettled

LEMMA NextInv == Inv /\ [Next]_vars => Inv'
<1> SUFFICES ASSUME Inv, [Next]_vars PROVE Inv'
  OBVIOUS
<1> USE DEF Inv
<1>1. CASE loadGitHubAuth
  <2>1. mode' \in {"none", "pat", "app"}
    BY <1>1 DEF loadGitHubAuth, AuthMode
  <2> QED BY <1>1, <2>1 DEF loadGitHubAuth, TypeOK, MappingsValid, AuthSettled
<1>2. CASE OpenFile
  <2>1. file # Unreadable => file \in Seq(RawProject)
    BY InputAssumption DEF TypeOK
  <2> QED BY <1>2, <2>1 DEF OpenFile, TypeOK, MappingsValid, AuthSettled
<1>3. CASE LoadEntry
  <2> DEFINE p == file[next]
  <2>1. p \in RawProject
    BY <1>3 DEF LoadEntry, AuthSettled, TypeOK
  <2>2. CASE Accepted(p)
    <3> DEFINE q == buildProjectConfig(p)
    <3>1. q \in Project /\ Mapping(q.mapping)!validateStatusMapping
      BY <2>1, <2>2, AcceptedBuilds
    <3>2. projects' = Append(projects, q) /\ skipped' = skipped
      BY <1>3, <2>2 DEF LoadEntry
    <3> HIDE DEF q
    <3>3. projects \in Seq(Project) /\ projects' \in Seq(Project)
      BY <3>1, <3>2 DEF TypeOK
    <3>4. MappingsValid'
      <4>1. DOMAIN projects' = 1 .. Len(projects) + 1
        BY <3>2, <3>3
      <4>2. \A i \in 1 .. Len(projects) : projects'[i] = projects[i]
        BY <3>2, <3>3
      <4>3. projects'[Len(projects) + 1] = q
        BY <3>2, <3>3
      <4> SUFFICES ASSUME NEW i \in DOMAIN projects'
                   PROVE  Mapping(projects'[i].mapping)!validateStatusMapping
        BY DEF MappingsValid
      <4>4. CASE i \in 1 .. Len(projects)
        BY <3>3, <4>2, <4>4 DEF MappingsValid
      <4>5. CASE i = Len(projects) + 1
        BY <3>1, <4>3, <4>5
      <4> QED BY <3>3, <4>1, <4>4, <4>5
    <3>5. skipped' \subseteq 1 .. next' - 1 /\ next' \in Nat \ {0}
      BY <1>3, <3>2 DEF LoadEntry, TypeOK
    <3> QED BY <1>3, <3>3, <3>4, <3>5 DEF LoadEntry, TypeOK, AuthSettled
  <2>3. CASE ~Accepted(p)
    <3>1. projects' = projects /\ skipped' = skipped \cup {next}
      BY <1>3, <2>3 DEF LoadEntry
    <3>2. skipped' \subseteq 1 .. next' - 1 /\ next' \in Nat \ {0}
      BY <1>3, <3>1 DEF LoadEntry, TypeOK
    <3> QED BY <1>3, <3>1, <3>2 DEF LoadEntry, TypeOK, MappingsValid, AuthSettled
  <2> QED BY <2>2, <2>3
<1>4. CASE Loaded
  BY <1>4 DEF Loaded, TypeOK, MappingsValid, AuthSettled
<1>5. CASE Returned \/ UNCHANGED vars
  BY <1>5 DEF Returned, vars, TypeOK, MappingsValid, AuthSettled
<1> QED BY <1>1, <1>2, <1>3, <1>4, <1>5 DEF Next

LEMMA SpecInv == Spec => []Inv
  BY InitInv, NextInv, PTL DEF Spec

-----------------------------------------------------------------------------

\* Every variable of Load stays in its range: no field of a loaded project is left
\* empty or out of the numbers an int holds, its limit is not negative and its times
\* are positive, as Orchestrator and time.NewTicker need them.
THEOREM ConfigTypeCorrect == Spec => []TypeOK
<1>1. Inv => TypeOK
  BY DEF Inv
<1> QED BY <1>1, SpecInv, PTL

\* Whatever names a file gives to the statuses, and whichever it leaves out, a loaded
\* project is one the orchestrator's status changes work for.
THEOREM MappingsWork == Spec => []LoadedMappingsWork
<1>1. Inv => LoadedMappingsWork
  <2> SUFFICES ASSUME MappingsValid, NEW i \in DOMAIN projects, NEW phase \in Phases
               PROVE  LoadedMappingsWork!(i)!(phase)
    BY DEF Inv, LoadedMappingsWork
  <2> QED BY ValidMappingWorks DEF MappingsValid
<1> QED BY <1>1, SpecInv, PTL

\* A configuration that is loaded has a project, and exactly one way to authenticate,
\* complete.
THEOREM UsableConfig == Spec => []LoadedIsUsable
<1>1. Inv => LoadedIsUsable
  <2> SUFFICES ASSUME Inv, pc = "loaded"
               PROVE  /\ projects # <<>>
                      /\ env.pat = (mode = "pat")
                      /\ (\E f \in AppFields : env.app[f] # "unset") = (mode = "app")
                      /\ mode = "app" => \A f \in AppFields : env.app[f] = "valid"
    BY DEF LoadedIsUsable
  <2> DEFINE hasApp == \E f \in AppFields : env.app[f] # "unset"
  <2>1. projects # <<>> /\ mode = AuthMode(env) /\ mode # "none"
    BY DEF Inv, AuthSettled
  <2>2. env.pat \in BOOLEAN
    BY InputAssumption DEF Environment, Inv, TypeOK
  <2>3. env.pat # hasApp
    BY <2>1 DEF AuthMode
  <2>4. CASE env.pat
    BY <2>1, <2>2, <2>3, <2>4 DEF AuthMode
  <2>5. CASE ~env.pat
    BY <2>1, <2>2, <2>3, <2>5 DEF AuthMode
  <2> QED BY <2>2, <2>4, <2>5
<1> QED BY <1>1, SpecInv, PTL

-----------------------------------------------------------------------------
(* Entries *)

\* Every accepted entry the loop has passed is at its place, every other is skipped.
Passed(n) ==
  /\ skipped = (1 .. n) \ AcceptedUpTo(n)
  /\ Len(projects) = Cardinality(AcceptedUpTo(n))
  /\ \A i \in AcceptedUpTo(n) :
       projects[Cardinality(AcceptedUpTo(i))] = buildProjectConfig(file[i])

EntriesPlaced ==
  /\ pc \in {"auth", "open"} => next = 1 /\ projects = <<>> /\ skipped = {}
  /\ pc = "build" => next <= Len(file) + 1 /\ Passed(next - 1)
  /\ pc = "loaded" => file \in Seq(RawProject) /\ Passed(Len(file))

\* The places of the accepted entries are those of a sequence without gaps.
LEMMA Places ==
  ASSUME NEW n \in Nat
  PROVE  /\ IsFiniteSet(AcceptedUpTo(n)) /\ Cardinality(AcceptedUpTo(n)) \in Nat
         /\ \A i \in AcceptedUpTo(n) :
              Cardinality(AcceptedUpTo(i)) \in 1 .. Cardinality(AcceptedUpTo(n))
<1>1. \A k \in Nat : IsFiniteSet(AcceptedUpTo(k)) /\ Cardinality(AcceptedUpTo(k)) \in Nat
  <2> SUFFICES ASSUME NEW k \in Nat
               PROVE  IsFiniteSet(AcceptedUpTo(k)) /\ Cardinality(AcceptedUpTo(k)) \in Nat
    OBVIOUS
  <2>1. IsFiniteSet(1 .. k)
    BY FS_Interval
  <2>2. AcceptedUpTo(k) \subseteq 1 .. k
    BY DEF AcceptedUpTo
  <2>3. IsFiniteSet(AcceptedUpTo(k))
    BY <2>1, <2>2, FS_Subset
  <2> QED BY <2>3, FS_CardinalityType
<1> SUFFICES ASSUME NEW i \in AcceptedUpTo(n)
             PROVE  Cardinality(AcceptedUpTo(i)) \in 1 .. Cardinality(AcceptedUpTo(n))
  BY <1>1
<1>2. i \in 1 .. n /\ i \in AcceptedUpTo(i) /\ AcceptedUpTo(i) \subseteq AcceptedUpTo(n)
  BY DEF AcceptedUpTo
<1>3. Cardinality(AcceptedUpTo(i)) <= Cardinality(AcceptedUpTo(n))
  BY <1>1, <1>2, FS_Subset
<1>4. Cardinality(AcceptedUpTo(i)) # 0
  BY <1>1, <1>2, FS_EmptySet
<1> QED BY <1>1, <1>2, <1>3, <1>4

LEMMA PlacesNext ==
  ASSUME NEW n \in Nat
  PROVE  IF Accepted(file[n + 1])
         THEN /\ AcceptedUpTo(n + 1) = AcceptedUpTo(n) \cup {n + 1}
              /\ Cardinality(AcceptedUpTo(n + 1)) = Cardinality(AcceptedUpTo(n)) + 1
         ELSE AcceptedUpTo(n + 1) = AcceptedUpTo(n)
<1>1. 1 .. n + 1 = (1 .. n) \cup {n + 1} /\ n + 1 \notin AcceptedUpTo(n)
  BY DEF AcceptedUpTo
<1>2. CASE Accepted(file[n + 1])
  <2>1. AcceptedUpTo(n + 1) = AcceptedUpTo(n) \cup {n + 1}
    BY <1>1, <1>2 DEF AcceptedUpTo
  <2> QED BY <1>1, <1>2, <2>1, Places, FS_AddElement
<1>3. CASE ~Accepted(file[n + 1])
  BY <1>1, <1>3 DEF AcceptedUpTo
<1> QED BY <1>2, <1>3

LEMMA EntriesNext == Inv /\ EntriesPlaced /\ [Next]_vars => EntriesPlaced'
<1> SUFFICES ASSUME Inv, EntriesPlaced, [Next]_vars PROVE EntriesPlaced'
  OBVIOUS
<1>1. CASE loadGitHubAuth
  BY <1>1 DEF loadGitHubAuth, EntriesPlaced
<1>2. CASE OpenFile
  <2>1. file # Unreadable => file \in Seq(RawProject)
    BY InputAssumption DEF Inv, TypeOK
  <2>2. AcceptedUpTo(0) = {} /\ Cardinality({}) = 0 /\ (1 .. 0) = {}
    BY FS_EmptySet DEF AcceptedUpTo
  <2>3. next = 1 /\ projects = <<>> /\ skipped = {} /\ next' = 1 /\ pc' \in {"failed", "build"}
        /\ UNCHANGED <<file, projects, skipped>> /\ (pc' = "build" => file # Unreadable)
    BY <1>2 DEF OpenFile, EntriesPlaced
  <2>4. Passed(0)'
    BY <2>2, <2>3, Zenon DEF Passed, AcceptedUpTo
  <2> QED BY <2>1, <2>3, <2>4 DEF EntriesPlaced
<1>3. CASE LoadEntry
  <2> DEFINE n == next - 1
             q == buildProjectConfig(file[next])
  <2>1. /\ n \in Nat /\ next = n + 1 /\ next \in 1 .. Len(file) /\ pc = "build"
        /\ file \in Seq(RawProject) /\ Passed(n) /\ projects \in Seq(Project)
    BY <1>3 DEF LoadEntry, EntriesPlaced, Inv, TypeOK, AuthSettled
  <2>2. /\ pc' = "build" /\ next' = next + 1 /\ file' = file
        /\ next' - 1 = next /\ next' <= Len(file) + 1
    BY <1>3, <2>1 DEF LoadEntry
  <2> HIDE DEF n, q
  <2>3. /\ \A i \in AcceptedUpTo(n) :
             Cardinality(AcceptedUpTo(i)) \in 1 .. Cardinality(AcceptedUpTo(n))
        /\ Cardinality(AcceptedUpTo(n)) \in Nat
    BY <2>1, Places
  <2>4. AcceptedUpTo(n) \subseteq 1 .. n /\ (1 .. next) = (1 .. n) \cup {next} /\ next \notin 1 .. n
    BY <2>1 DEF AcceptedUpTo
  <2>5. \A k : AcceptedUpTo(k)' = AcceptedUpTo(k)
    BY <2>2 DEF AcceptedUpTo
  <2>6. CASE Accepted(file[next])
    <3>1. q \in Project /\ projects' = Append(projects, q) /\ skipped' = skipped
      <4>1. file[next] \in RawProject
        BY <2>1
      <4> QED BY <1>3, <2>6, <4>1, AcceptedBuilds DEF LoadEntry, q
    <3>2. /\ AcceptedUpTo(next) = AcceptedUpTo(n) \cup {next}
          /\ Cardinality(AcceptedUpTo(next)) = Cardinality(AcceptedUpTo(n)) + 1
      BY <2>1, <2>6, PlacesNext
    <3>3. /\ Len(projects') = Len(projects) + 1 /\ projects'[Len(projects) + 1] = q
          /\ \A k \in 1 .. Len(projects) : projects'[k] = projects[k]
      BY <2>1, <3>1
    <3>4. skipped = (1 .. next) \ AcceptedUpTo(next)
      BY <2>1, <2>4, <3>2 DEF Passed
    <3>5. Len(projects) = Cardinality(AcceptedUpTo(n))
      BY <2>1 DEF Passed
    <3>6. ASSUME NEW i \in AcceptedUpTo(next)
          PROVE  projects'[Cardinality(AcceptedUpTo(i))] = buildProjectConfig(file[i])
      <4>1. CASE i \in AcceptedUpTo(n)
        BY <2>1, <2>3, <3>3, <3>5, <4>1 DEF Passed
      <4>2. CASE i = next
        BY <3>2, <3>3, <3>5, <4>2 DEF q
      <4> QED BY <3>2, <3>6, <4>1, <4>2
    <3>7. Passed(next - 1)'
      BY <2>2, <2>5, <3>1, <3>2, <3>3, <3>4, <3>5, <3>6 DEF Passed
    <3> QED BY <2>2, <3>7 DEF EntriesPlaced
  <2>7. CASE ~Accepted(file[next])
    <3>1. projects' = projects /\ skipped' = skipped \cup {next}
      BY <1>3, <2>7 DEF LoadEntry
    <3>2. AcceptedUpTo(next) = AcceptedUpTo(n)
      BY <2>1, <2>7, PlacesNext
    <3>3. skipped' = (1 .. next) \ AcceptedUpTo(next)
      BY <2>1, <2>4, <3>1, <3>2 DEF Passed
    <3> QED BY <2>1, <2>2, <2>5, <3>1, <3>2, <3>3 DEF Passed, EntriesPlaced
  <2> QED BY <2>6, <2>7
<1>4. CASE Loaded
  <2>1. next = Len(file) + 1 /\ file \in Seq(RawProject) /\ Passed(Len(file))
    BY <1>4 DEF Loaded, EntriesPlaced, Inv, TypeOK, AuthSettled
  <2>2. /\ pc' \in {"failed", "loaded"} /\ UNCHANGED <<file, next, projects, skipped>>
    BY <1>4 DEF Loaded
  <2> QED BY <2>1, <2>2 DEF EntriesPlaced, Passed, AcceptedUpTo
<1>5. CASE Returned \/ UNCHANGED vars
  BY <1>5 DEF Returned, vars, EntriesPlaced, Passed, AcceptedUpTo
<1> QED BY <1>1, <1>2, <1>3, <1>4, <1>5 DEF Next

\* Whatever entries a file holds, in whatever order, the rejected ones change nothing
\* about the projects made of the others.
THEOREM EntriesStandAlone == Spec => []EntriesIndependent
<1>1. Init => EntriesPlaced
  BY DEF Init, EntriesPlaced
<1>2. Inv /\ EntriesPlaced => EntriesIndependent
  BY DEF EntriesPlaced, EntriesIndependent, Passed
<1> QED BY <1>1, <1>2, EntriesNext, SpecInv, PTL DEF Spec

=============================================================================
