--------------------------- MODULE StartupProofs ---------------------------
(***************************************************************************)
(* Proofs about Startup and HealthEndpoint, for every number of configured *)
(* projects and every choice of their names.                               *)
(***************************************************************************)
EXTENDS HealthEndpoint, FiniteSetTheorems, TLAPS

\* The projects whose goroutine the loop has started when its index is n.
StartedBefore(n) == {orchs[i] : i \in 1 .. n - 1}

\* What main has done when it is at pc: while it initialises, orchs holds earlier
\* projects only; while it launches, the goroutines started are those of the
\* entries before next; from then on they are those of all entries.
Progress ==
  /\ Len(orchs) <= ProjectCount
  /\ pc = "init" => Len(orchs) < next /\ \A i \in DOMAIN orchs : orchs[i] < next
  /\ pc \in {"init", "serve"} => \A p \in Projects : run[p] = "none"
  /\ pc = "serve" => next = 1
  /\ pc = "launch" =>
       /\ next - 1 <= Len(orchs)
       /\ \A p \in Projects : run[p] # "none" <=> p \in StartedBefore(next)

AtWork == {p \in Projects : run[p] = "running"}

\* The WaitGroup counts the goroutines of the orchestrators that have not returned:
\* no project is started twice, since orchs is injective and next only grows.
Counted == wg = Cardinality(AtWork)

StartupInv == TypeOK /\ Progress /\ Counted /\ ValidProjectsRun /\ StopsAfterRuns

LEMMA AtWorkFinite == IsFiniteSet(AtWork) /\ Cardinality(AtWork) \in Nat
<1>1. IsFiniteSet(Projects)
  BY StartupAssumption, FS_Interval DEF Projects
<1>2. AtWork \subseteq Projects
  BY DEF AtWork
<1> QED
  BY <1>1, <1>2, FS_Subset, FS_CardinalityType

\* Nothing changes but which orchestrators are at work.
LEMMA SameAtWork ==
  ASSUME Counted, UNCHANGED <<run, wg>>
  PROVE  Counted'
BY DEF Counted, AtWork

LEMMA StartupInvInit == Init => StartupInv
  <1> SUFFICES ASSUME Init PROVE StartupInv
    OBVIOUS
  <1> USE StartupAssumption DEF Init
  <1>0. orchs \in Seq(Projects) /\ DOMAIN orchs = {}
    OBVIOUS
  <1>1. TypeOK
    <2>1. IsInjective(orchs)
      BY <1>0, Zenon DEF IsInjective
    <2>2. run \in [Projects -> {"none", "running", "returned"}]
      OBVIOUS
    <2>3. next \in 1 .. ProjectCount + 1
      OBVIOUS
    <2>5. signalled \in BOOLEAN
      OBVIOUS
    <2>4. pc \in {"init", "serve", "launch", "select", "wait"} /\ server \in {"off", "up", "failed", "closed"}
      OBVIOUS
    <2> QED
      BY <1>0, <2>1, <2>2, <2>3, <2>4, <2>5 DEF TypeOK
  <1>2. Progress
    BY DEF Progress, Projects
  <1>3. ValidProjectsRun /\ StopsAfterRuns
    BY DEF ValidProjectsRun, StopsAfterRuns
  <1>4. Counted
    <2>1. AtWork = {}
      BY DEF AtWork
    <2> QED
      BY <2>1, FS_EmptySet DEF Counted
  <1> QED
    BY <1>1, <1>2, <1>3, <1>4 DEF StartupInv

LEMMA StartupInvNext == StartupInv /\ [Next]_vars => StartupInv'
  <1> SUFFICES ASSUME StartupInv, [Next]_vars PROVE StartupInv'
    OBVIOUS
  <1> USE StartupAssumption DEF StartupInv
  <1>1. CASE InitProject
    <2>1. CASE orchs' = orchs
      BY <1>1, <2>1, SameAtWork DEF InitProject, TypeOK, Progress, ValidProjectsRun, StopsAfterRuns, Projects, Ended
    <2>2. CASE orchs' = Append(orchs, next)
      <3> USE <1>1, <2>2 DEF InitProject, TypeOK, Projects
      <3>1. /\ orchs' \in Seq(Projects) /\ Len(orchs') = Len(orchs) + 1
            /\ \A i \in 1 .. Len(orchs) : orchs'[i] = orchs[i]
            /\ orchs'[Len(orchs) + 1] = next
        OBVIOUS
      <3>2. \A i \in DOMAIN orchs : orchs[i] < next
        BY DEF Progress
      <3>3. IsInjective(orchs)'
        BY <3>1, <3>2 DEF IsInjective
      <3>4. TypeOK'
        BY <3>1, <3>3 DEF Ended
      <3>5. Progress'
        BY <3>1, <3>2 DEF Progress
      <3> QED
        BY <3>4, <3>5, SameAtWork DEF ValidProjectsRun, StopsAfterRuns
    <2> QED
      BY <1>1, <2>1, <2>2 DEF InitProject
  <1>2. CASE InitDone
    BY <1>2, SameAtWork DEF InitDone, TypeOK, Progress, ValidProjectsRun, StopsAfterRuns, Projects, Ended
  <1>3. CASE StartServer
    BY <1>3, SameAtWork DEF StartServer, TypeOK, Progress, ValidProjectsRun, StopsAfterRuns, Projects, Ended, StartedBefore
  <1>4. CASE Launch
    <2> USE <1>4 DEF Launch, Start, TypeOK, Projects
    <2>1. CASE next <= Len(orchs)
      <3>1. /\ orchs[next] \in Projects /\ next' = next + 1 /\ pc' = "launch"
            /\ run' = [run EXCEPT ![orchs[next]] = "running"] /\ wg' = wg + 1
        BY <2>1
      <3>2. StartedBefore(next)' = StartedBefore(next) \cup {orchs[next]}
        BY <2>1 DEF StartedBefore
      <3>3. TypeOK'
        BY <3>1 DEF Ended
      <3>4. \A p \in Projects : run'[p] # "none" <=> p \in StartedBefore(next)'
        BY <3>1, <3>2 DEF Progress
      <3>5. Progress'
        BY <2>1, <3>1, <3>4 DEF Progress
      <3>6. Counted'
        <4>1. orchs[next] \notin StartedBefore(next)
          BY <2>1 DEF StartedBefore, IsInjective
        <4>2. run[orchs[next]] = "none"
          BY <3>1, <4>1 DEF Progress
        <4>3. orchs[next] \notin AtWork /\ AtWork' = AtWork \cup {orchs[next]}
          BY <3>1, <4>2 DEF AtWork
        <4> QED
          BY <3>1, <4>3, AtWorkFinite, FS_AddElement DEF Counted
      <3> QED
        BY <3>1, <3>3, <3>5, <3>6 DEF ValidProjectsRun, StopsAfterRuns
    <2>2. CASE ~(next <= Len(orchs))
      BY <2>2, SameAtWork DEF Progress, ValidProjectsRun, StopsAfterRuns, Ended
    <2> QED
      BY <2>1, <2>2
  <1>5. CASE Launched
    <2>1. next - 1 = Len(orchs)
      BY <1>5 DEF Launched, TypeOK, Progress
    <2>2. StartedBefore(next) = Range(orchs)
      BY <2>1, <1>5 DEF StartedBefore, Range, TypeOK
    <2>3. ValidProjectsRun'
      BY <1>5, <2>2 DEF Launched, Progress, ValidProjectsRun
    <2> QED
      BY <1>5, <2>3, SameAtWork DEF Launched, TypeOK, Progress, StopsAfterRuns, Ended
  <1>6. CASE Select
    BY <1>6, SameAtWork DEF Select, TypeOK, Progress, ValidProjectsRun, StopsAfterRuns, Ended
  <1>7. CASE Wait
    <2>1. AtWork = {}
      BY <1>7, AtWorkFinite, FS_EmptySet DEF Wait, Counted
    <2>2. StopsAfterRuns'
      BY <1>7, <2>1 DEF Wait, StopsAfterRuns, AtWork
    <2> QED
      BY <1>7, <2>2, SameAtWork DEF Wait, TypeOK, Progress, ValidProjectsRun, Ended
  <1>8. CASE Signal
    BY <1>8, SameAtWork DEF Signal, TypeOK, Progress, ValidProjectsRun, StopsAfterRuns, Ended, StartedBefore
  <1>9. CASE ServerFails \/ CloseServer
    BY <1>9, SameAtWork DEF ServerFails, CloseServer, TypeOK, Progress, ValidProjectsRun, StopsAfterRuns, Ended, StartedBefore
  <1>10. ASSUME NEW p \in Projects, RunReturns(p) PROVE StartupInv'
    <2>1. p \in AtWork /\ AtWork' = AtWork \ {p}
      BY <1>10 DEF RunReturns, AtWork, TypeOK
    <2>2. Counted' /\ wg' \in Nat
      <3>1. Cardinality(AtWork') = Cardinality(AtWork) - 1 /\ Cardinality(AtWork') \in Nat
        BY <2>1, AtWorkFinite, FS_RemoveElement, FS_Subset, FS_CardinalityType
      <3> QED
        BY <1>10, <3>1 DEF RunReturns, Counted
    <2> QED
      BY <1>10, <2>2 DEF RunReturns, TypeOK, Progress, ValidProjectsRun, StopsAfterRuns, Ended, StartedBefore
  <1>11. CASE UNCHANGED vars
    BY <1>11, SameAtWork DEF vars, TypeOK, Progress, ValidProjectsRun, StopsAfterRuns, Ended, StartedBefore, IsInjective, Projects
  <1> QED
    BY <1>1, <1>2, <1>3, <1>4, <1>5, <1>6, <1>7, <1>8, <1>9, <1>10, <1>11
    DEF Next, MainStep, Terminated

LEMMA StartupInvAlways == Spec => []StartupInv
  BY StartupInvInit, StartupInvNext, PTL DEF Spec

\* Main's index stays in the range of its loops, and no project has two orchestrators.
THEOREM StartupTypeCorrect == Spec => []TypeOK
  BY StartupInvAlways, PTL DEF StartupInv

\* Whatever the number of projects and of skipped ones: if main comes to wait for a
\* signal, the orchestrators running are exactly those of the projects that passed.
THEOREM ProjectsStarted == Spec => []ValidProjectsRun
  BY StartupInvAlways, PTL DEF StartupInv

\* A regular stop leaves no orchestrator running, for any number of projects: wg is
\* added to before each goroutine starts and done once for each.
THEOREM StopIsClean == Spec => []StopsAfterRuns
  BY StartupInvAlways, PTL DEF StartupInv

-----------------------------------------------------------------------------
(* The health endpoint *)

Key(ping) == <<Name[ping[1]], ping[2]>>

Pings == Watched \X Services

Failing == \E k \in DOMAIN shown : shown[k] = "error"

NamesShared == \E p, q \in Range(orchs) : p # q /\ Name[p] = Name[q]

\* No request before the server is up, hence none while orchs grows.
NoneYet == pc \in {"init", "serve"} => server = "off" /\ handler = "idle"

\* What has been received and what is under way are the pings of the request.
Accounted ==
  /\ pinging \subseteq Pings
  /\ handler = "idle" => received = 0 /\ pinging = {} /\ DOMAIN shown = {} /\ ~degraded
  /\ handler # "idle" =>
       /\ received + Cardinality(pinging) = 2 * Len(orchs)
       /\ DOMAIN shown = {Key(ping) : ping \in Pings \ pinging}
  /\ handler = "answered" => pinging = {}

\* FailuresShown at every moment of a request.
Told == (Failing => degraded) /\ (degraded => Failing \/ NamesShared)

RequestTypeOK ==
  /\ handler \in {"idle", "collect", "answered"}
  /\ shown \in UNION {[K -> {"ok", "error"}] : K \in SUBSET Keys}
  /\ degraded \in BOOLEAN
  /\ received \in Nat

RequestInv == RequestTypeOK /\ NoneYet /\ Accounted /\ Told

LEMMA TwoPerProject ==
  ASSUME TypeOK
  PROVE  IsFiniteSet(Pings) /\ Cardinality(Pings) = 2 * Len(orchs)
<1>1. /\ orchs \in Seq(Projects) /\ IsInjective(orchs)
      /\ Len(orchs) \in Nat /\ DOMAIN orchs = 1 .. Len(orchs)
  BY DEF TypeOK
<1>2. IsFiniteSet(1 .. Len(orchs)) /\ Cardinality(1 .. Len(orchs)) = Len(orchs)
  BY <1>1, FS_Interval
<1>3. orchs \in Surjection(1 .. Len(orchs), Range(orchs))
  BY <1>1 DEF Surjection, Range
<1>4. orchs \in Injection(1 .. Len(orchs), Range(orchs))
  BY <1>1, <1>3 DEF Surjection, Injection, IsInjective
<1>5. IsFiniteSet(Watched) /\ Cardinality(Watched) = Len(orchs)
  BY <1>2, <1>3, <1>4, FS_Surjection DEF Watched
<1>6. IsFiniteSet(Services) /\ Cardinality(Services) = 2
  <2>1. IsFiniteSet({"clickup"}) /\ Cardinality({"clickup"}) = 1
    BY FS_Singleton
  <2>2. Services = {"clickup"} \cup {"github"} /\ "github" \notin {"clickup"}
    BY DEF Services
  <2> QED
    BY <2>1, <2>2, FS_AddElement
<1>7. IsFiniteSet(Pings) /\ Cardinality(Pings) = Len(orchs) * 2
  <2>1. /\ IsFiniteSet(Watched \X Services)
        /\ Cardinality(Watched \X Services) = Cardinality(Watched) * Cardinality(Services)
    BY <1>5, <1>6, FS_Product, Zenon
  <2> QED
    BY <2>1, <1>5, <1>6 DEF Pings
<1> QED
  BY <1>1, <1>7

LEMMA PingsAre ==
  ASSUME TypeOK
  PROVE  Pings \subseteq Projects \X Services /\ \A ping \in Pings : Key(ping) \in Keys
<1>1. Watched \subseteq Projects
  BY DEF TypeOK, Watched, Range
<1> QED
  BY <1>1 DEF Pings, Key, Keys

LEMMA RequestInvInit == HealthInit => RequestInv
<1> SUFFICES ASSUME HealthInit PROVE RequestInv
  OBVIOUS
<1>1. /\ DOMAIN shown = {} /\ degraded = FALSE /\ handler = "idle"
      /\ pinging = {} /\ received = 0
  BY DEF HealthInit
<1>2. RequestTypeOK
  <2>1. shown \in [{} -> {"ok", "error"}] /\ {} \in SUBSET Keys
    BY DEF HealthInit
  <2> QED
    BY <1>1, <2>1 DEF RequestTypeOK
<1>3. NoneYet
  BY <1>1 DEF NoneYet, HealthInit, Init
<1> QED
  BY <1>1, <1>2, <1>3 DEF RequestInv, Accounted, Told, Failing

\* A step of the process changes nothing a request relies on.
LEMMA ProcessStep ==
  ASSUME TypeOK, RequestInv, [Next]_vars, UNCHANGED requestVars
  PROVE  RequestInv'
<1>1. UNCHANGED <<handler, pinging, shown, degraded, received>>
  BY DEF requestVars
<1>2. orchs' = orchs \/ pc = "init"
  BY DEF Next, MainStep, InitProject, InitDone, StartServer, Launch, Launched, Select, Wait,
         Signal, ServerFails, CloseServer, RunReturns, Terminated, vars
<1>3. NoneYet'
  BY <1>1 DEF RequestInv, NoneYet,
         Next, MainStep, InitProject, InitDone, StartServer, Launch, Launched, Select, Wait,
         Signal, ServerFails, CloseServer, RunReturns, Terminated, vars, Ended, TypeOK
<1>4. RequestTypeOK'
  BY <1>1 DEF RequestInv, RequestTypeOK, Keys
<1>5. CASE orchs' = orchs
  BY <1>1, <1>3, <1>4, <1>5
  DEF RequestInv, Accounted, Told, Pings, Watched, Failing, NamesShared, Key
<1>6. CASE pc = "init"
  <2>1. handler = "idle"
    BY <1>6 DEF RequestInv, NoneYet
  <2>2. Accounted' /\ Told'
    BY <1>1, <2>1 DEF RequestInv, Accounted, Told, Failing
  <2> QED
    BY <1>3, <1>4, <2>2 DEF RequestInv
<1> QED
  BY <1>2, <1>5, <1>6

LEMMA AskStep ==
  ASSUME TypeOK, RequestInv, Serving(Ask)
  PROVE  RequestInv'
<1>1. /\ UNCHANGED <<pc, orchs, server>> /\ server = "up"
      /\ handler' = "collect" /\ pinging' = Pings
      /\ DOMAIN shown' = {} /\ degraded' = FALSE /\ received' = 0
      /\ shown' \in [{} -> {"ok", "error"}]
  BY DEF Serving, Ask, vars, Pings
<1>2. Pings' = Pings /\ Len(orchs) \in Nat
  BY <1>1 DEF Pings, Watched, TypeOK
<1>3. RequestTypeOK'
  <2>1. {} \in SUBSET Keys
    OBVIOUS
  <2>2. shown' \in UNION {[K -> {"ok", "error"}] : K \in SUBSET Keys}
    <3>1. [{} -> {"ok", "error"}] \in {[K -> {"ok", "error"}] : K \in SUBSET Keys}
      BY <2>1, Zenon
    <3> QED
      BY <1>1, <3>1, Zenon
  <2>3. Keys' = Keys
    BY DEF Keys
  <2>4. received' \in Nat /\ degraded' \in BOOLEAN
    BY <1>1
  <2> QED
    BY <1>1, <2>2, <2>3, <2>4 DEF RequestTypeOK
<1>4. NoneYet'
  BY <1>1 DEF RequestInv, NoneYet
<1>5. Accounted'
  BY <1>1, <1>2, TwoPerProject DEF Accounted
<1>6. Told'
  BY <1>1 DEF Told, Failing
<1> QED
  BY <1>3, <1>4, <1>5, <1>6 DEF RequestInv

LEMMA CollectStep ==
  ASSUME TypeOK, RequestInv, NEW ping \in Projects \X Services, Serving(Collect(ping))
  PROVE  RequestInv'
<1> DEFINE old == DOMAIN shown
           key == Key(ping)
<1>1. PICK res \in {"ok", "error"} :
        shown' = Shown(ping, res) /\ degraded' = (degraded \/ res = "error")
  BY DEF Serving, Collect
<1>2. /\ UNCHANGED <<pc, orchs, server>> /\ handler = "collect" /\ handler' = "collect"
      /\ ping \in pinging /\ pinging' = pinging \ {ping} /\ received' = received + 1
  BY DEF Serving, Collect, vars
<1>3. Pings' = Pings /\ Len(orchs) \in Nat /\ Watched' = Watched
  BY <1>2 DEF Pings, Watched, TypeOK
<1>4. ping \in Pings /\ key \in Keys
  BY <1>2, PingsAre DEF RequestInv, Accounted
<1>5. /\ DOMAIN shown' = old \cup {key}
      /\ \A k \in old \cup {key} : shown'[k] = IF k = key THEN res ELSE shown[k]
  BY <1>1 DEF Shown, Key
<1>6. RequestTypeOK'
  <2>1. old \in SUBSET Keys /\ \A k \in old : shown[k] \in {"ok", "error"}
    BY DEF RequestInv, RequestTypeOK
  <2>2. old \cup {key} \in SUBSET Keys
    BY <2>1, <1>4
  <2>3. shown' \in [old \cup {key} -> {"ok", "error"}]
    BY <1>1, <2>1 DEF Shown, Key
  <2>4. Keys' = Keys
    BY DEF Keys
  <2>5. received' \in Nat /\ degraded' \in BOOLEAN
    BY <1>1, <1>2 DEF RequestInv, RequestTypeOK
  <2> QED
    BY <1>2, <2>2, <2>3, <2>4, <2>5 DEF RequestTypeOK
<1>7. NoneYet'
  BY <1>2 DEF RequestInv, NoneYet
<1>8. Accounted'
  <2>1. IsFiniteSet(pinging) /\ pinging \subseteq Pings
    BY TwoPerProject, FS_Subset DEF RequestInv, Accounted
  <2>2. Cardinality(pinging') = Cardinality(pinging) - 1 /\ Cardinality(pinging) \in Nat
    BY <1>2, <2>1, FS_RemoveElement, FS_CardinalityType
  <2>3. received' + Cardinality(pinging') = 2 * Len(orchs)
    BY <1>2, <1>3, <2>2 DEF RequestInv, RequestTypeOK, Accounted
  <2>4. Pings \ pinging' = (Pings \ pinging) \cup {ping}
    BY <1>2, <1>4
  <2>5. DOMAIN shown' = {Key(q) : q \in Pings \ pinging'}
    <3>1. old = {Key(q) : q \in Pings \ pinging}
      BY <1>2 DEF RequestInv, Accounted
    <3> QED
      BY <1>5, <2>4, <3>1
  <2>6. {Key(q) : q \in Pings \ pinging}' = {Key(q) : q \in Pings \ pinging'}
    BY <1>3 DEF Key
  <2> QED
    BY <1>2, <1>3, <2>1, <2>3, <2>5, <2>6 DEF Accounted
<1>9. Told'
  <2>1. NamesShared' = NamesShared
    BY <1>2 DEF NamesShared
  <2>2. Failing' => degraded'
    BY <1>1, <1>5 DEF RequestInv, Told, Failing
  <2>3. ASSUME degraded', ~NamesShared PROVE Failing'
    <3>1. CASE res = "error"
      BY <1>5, <3>1 DEF Failing
    <3>2. CASE degraded
      <4>1. PICK k \in old : shown[k] = "error"
        BY <2>3, <3>2 DEF RequestInv, Told, Failing
      <4>2. PICK q \in Pings \ pinging : k = Key(q)
        BY <1>2, <4>1 DEF RequestInv, Accounted
      <4>3. q # ping /\ q \in Range(orchs) \X Services /\ ping \in Range(orchs) \X Services
        BY <1>2, <1>4, <4>2 DEF Pings, Watched
      <4>4. q[1] # ping[1] \/ q[2] # ping[2]
        BY <4>3
      <4>5. k # key
        BY <2>3, <4>2, <4>3, <4>4 DEF Key, NamesShared
      <4> QED
        BY <1>5, <4>1, <4>5 DEF Failing
    <3> QED
      BY <1>1, <2>3, <3>1, <3>2
  <2> QED
    BY <2>1, <2>2, <2>3 DEF Told
<1> QED
  BY <1>6, <1>7, <1>8, <1>9 DEF RequestInv

LEMMA AnswerStep ==
  ASSUME TypeOK, RequestInv, Serving(Answer)
  PROVE  RequestInv'
<1>1. /\ UNCHANGED <<pc, orchs, server, pinging, shown, degraded, received>>
      /\ handler = "collect" /\ handler' = "answered" /\ received = 2 * Len(orchs)
  BY DEF Serving, Answer, vars
<1>2. IsFiniteSet(pinging) /\ Cardinality(pinging) \in Nat
  BY TwoPerProject, FS_Subset, FS_CardinalityType DEF RequestInv, Accounted
<1>3. pinging = {}
  <2>1. Cardinality(pinging) = 0
    BY <1>1, <1>2 DEF RequestInv, Accounted, TypeOK
  <2> QED
    BY <1>2, <2>1, FS_EmptySet
<1>4. RequestTypeOK' /\ NoneYet' /\ Told'
  BY <1>1 DEF RequestInv, RequestTypeOK, NoneYet, Told, Failing, NamesShared, Keys
<1>5. Accounted'
  BY <1>1, <1>3 DEF RequestInv, Accounted, Pings, Watched, Key
<1> QED
  BY <1>4, <1>5 DEF RequestInv

LEMMA HealthStep == HealthNext => [Next]_vars
BY DEF HealthNext, Serving

LEMMA RequestInvNext == TypeOK /\ RequestInv /\ [HealthNext]_endpointVars => RequestInv'
<1> SUFFICES ASSUME TypeOK, RequestInv, [HealthNext]_endpointVars PROVE RequestInv'
  OBVIOUS
<1>1. CASE Next /\ UNCHANGED requestVars
  BY <1>1, ProcessStep
<1>2. CASE UNCHANGED endpointVars
  BY <1>2, ProcessStep DEF endpointVars
<1>3. CASE Serving(Ask \/ Answer)
  <2>1. Serving(Ask) \/ Serving(Answer)
    BY <1>3 DEF Serving
  <2> QED
    BY <2>1, AskStep, AnswerStep
<1>4. CASE \E ping \in Projects \X Services : Serving(Collect(ping))
  BY <1>4, CollectStep
<1> QED
  BY <1>1, <1>2, <1>3, <1>4 DEF HealthNext

\* Requests leave the process to itself: what is proved of it holds with them.
LEMMA HealthAlways == HealthSpec => [](StartupInv /\ RequestInv)
<1>1. HealthInit => StartupInv /\ RequestInv
  BY StartupInvInit, RequestInvInit DEF HealthInit
<1>2. StartupInv /\ RequestInv /\ [HealthNext]_endpointVars => (StartupInv /\ RequestInv)'
  <2>1. [HealthNext]_endpointVars => [Next]_vars
    BY HealthStep DEF endpointVars
  <2> QED
    BY <2>1, StartupInvNext, RequestInvNext DEF StartupInv
<1> QED
  BY <1>1, <1>2, PTL DEF HealthSpec

\* For every number of projects the handler's counter and map stay in their ranges.
THEOREM HealthTypeCorrect == HealthSpec => []HealthTypeOK
<1>1. StartupInv /\ RequestInv => HealthTypeOK
  <2> SUFFICES ASSUME StartupInv, RequestInv PROVE HealthTypeOK
    OBVIOUS
  <2>1. TypeOK
    BY DEF StartupInv
  <2>2. pinging \subseteq Projects \X Services /\ IsFiniteSet(pinging)
    BY <2>1, PingsAre, TwoPerProject, FS_Subset DEF RequestInv, Accounted
  <2>3. Cardinality(pinging) \in Nat
    BY <2>2, FS_CardinalityType
  <2>4. received \in 0 .. 2 * Len(orchs)
    BY <2>1, <2>3 DEF RequestInv, RequestTypeOK, Accounted, TypeOK
  <2> QED
    BY <2>1, <2>2, <2>4 DEF RequestInv, RequestTypeOK, HealthTypeOK
<1> QED
  BY <1>1, HealthAlways, PTL

\* In whatever order the pings end and whatever the process does meanwhile, an answer
\* shows both services of every project that passed the check, and nothing else.
THEOREM AnswersAreComplete == HealthSpec => []AnswerComplete
<1>1. RequestInv => AnswerComplete
  <2> SUFFICES ASSUME RequestInv, handler = "answered"
               PROVE  DOMAIN shown = {<<Name[p], s>> : p \in Range(orchs), s \in Services}
    BY DEF AnswerComplete
  <2>1. DOMAIN shown = {Key(ping) : ping \in Pings}
    BY DEF RequestInv, Accounted
  <2>2. DOMAIN shown = {<<Name[ping[1]], ping[2]>> : ping \in Range(orchs) \X Services}
    BY <2>1 DEF Key, Pings, Watched
  <2>3. {<<Name[ping[1]], ping[2]>> : ping \in Range(orchs) \X Services}
          \subseteq {<<Name[p], s>> : p \in Range(orchs), s \in Services}
    OBVIOUS
  <2>4. ASSUME NEW p \in Range(orchs), NEW s \in Services
        PROVE  <<Name[p], s>> \in DOMAIN shown
    <3>1. <<p, s>> \in Range(orchs) \X Services /\ <<p, s>>[1] = p /\ <<p, s>>[2] = s
      OBVIOUS
    <3> QED
      BY <2>2, <3>1
  <2> QED
    BY <2>2, <2>3, <2>4
<1> QED
  BY <1>1, HealthAlways, PTL

\* The status code and the body agree, for projects with names of their own; with
\* shared names a failure in the body still means a 503.
THEOREM FailuresAreShown == HealthSpec => []FailuresShown
<1>1. RequestInv => FailuresShown
  BY DEF RequestInv, Told, Failing, NamesShared, FailuresShown
<1> QED
  BY <1>1, HealthAlways, PTL

=============================================================================
