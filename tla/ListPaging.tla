----------------------------- MODULE ListPaging -----------------------------
(***************************************************************************)
(* GetTasks (internal/clickup/client.go): the pages of a ClickUp list are  *)
(* fetched by number, one after the other, while tasks join and leave the  *)
(* list.  Module Orchestrator takes the answer for the list as it was at   *)
(* one moment; here is when that is justified, and what holds otherwise.   *)
(***************************************************************************)
EXTENDS Integers, SequencesExt

CONSTANTS
  Tasks,
  PageSize,  \* ClickUp: tasks on a page, 100
  MaxChanges \* bound: changes of the list during one call

ASSUME PagingAssumption == PageSize \in Nat \ {0} /\ MaxChanges \in Nat

VARIABLES
  list,    \* the tasks in the order ClickUp returns them
  marking, \* ClickUp marks a full or empty page as the last one, too
  pc,      \* of GetTasks: "fetching", or how the last call ended
  page,    \* the page it asks for next
  got,     \* allTasks
  stayed,  \* the tasks that have been on the list since the call began
  joined,  \* a task has joined the list since
  left,    \* a task has left it since
  changes  \* see MaxChanges

call == <<pc, page, got>>
history == <<stayed, joined, left, changes>>
vars == <<list, marking, call, history>>

TypeOK ==
  /\ list \in Seq(Tasks) /\ got \in Seq(Tasks)
  /\ pc \in {"fetching", "returned", "failed"}
  /\ page \in Nat /\ marking \in BOOLEAN
  /\ stayed \subseteq Tasks
  /\ joined \in BOOLEAN /\ left \in BOOLEAN
  /\ changes \in 0 .. MaxChanges
  /\ pc = "failed" => got = <<>>

Init ==
  /\ list = <<>> /\ got = <<>> /\ marking \in BOOLEAN
  /\ pc = "returned" /\ page = 0
  /\ stayed = {} /\ joined = FALSE /\ left = FALSE /\ changes = 0

-----------------------------------------------------------------------------
(* ClickUp *)

Change == IF pc = "fetching" THEN changes < MaxChanges /\ changes' = changes + 1
          ELSE UNCHANGED changes

Join(t, i) ==
  /\ t \notin ToSet(list)
  /\ list' = InsertAt(list, i, t)
  /\ joined' = TRUE
  /\ Change
  /\ UNCHANGED <<marking, call, stayed, left>>

Leave(i) ==
  /\ list' = RemoveAt(list, i)
  /\ stayed' = stayed \ {list[i]}
  /\ left' = TRUE
  /\ Change
  /\ UNCHANGED <<marking, call, joined>>

\* The tasks of page number n.
PageEnd(n) == IF (n + 1) * PageSize < Len(list) THEN (n + 1) * PageSize ELSE Len(list)

Page(n) == SubSeq(list, n * PageSize + 1, PageEnd(n))

\* last_page: a full page that ends the list, and an empty one, may not be marked.
LastPage(n) ==
  /\ Len(list) <= (n + 1) * PageSize
  /\ Len(Page(n)) \in 1 .. PageSize - 1 \/ marking

-----------------------------------------------------------------------------
(* GetTasks *)

Call ==
  /\ pc # "fetching" /\ pc' = "fetching"
  /\ page' = 0 /\ got' = <<>>
  /\ stayed' = ToSet(list) /\ joined' = FALSE /\ left' = FALSE /\ changes' = 0
  /\ UNCHANGED <<list, marking>>

\* Mutants: the first page is asked for twice; the pages are counted from 1; an empty
\* page without last_page is asked for again.
Fetch_Again ==
  /\ pc = "fetching"
  /\ got' = got \o Page(page)
  /\ pc' = IF LastPage(page) \/ Page(page) = <<>> THEN "returned" ELSE "fetching"
  /\ page' = IF got = <<>> THEN page ELSE page + 1
  /\ UNCHANGED <<list, marking, history>>
Fetch_FromOne ==
  /\ pc = "fetching"
  /\ got' = got \o Page(page + 1)
  /\ pc' = IF LastPage(page + 1) \/ Page(page + 1) = <<>> THEN "returned" ELSE "fetching"
  /\ page' = page + 1
  /\ UNCHANGED <<list, marking, history>>
Fetch_AsksAgain ==
  /\ pc = "fetching"
  /\ got' = got \o Page(page)
  /\ pc' = IF LastPage(page) THEN "returned" ELSE "fetching"
  /\ page' = IF Page(page) = <<>> THEN page ELSE page + 1
  /\ UNCHANGED <<list, marking, history>>

\* One iteration of the loop: the last page, or an empty one, ends it.
Fetch ==
  /\ pc = "fetching"
  /\ got' = got \o Page(page)
  /\ pc' = IF LastPage(page) \/ Page(page) = <<>> THEN "returned" ELSE "fetching"
  /\ page' = page + 1
  /\ UNCHANGED <<list, marking, history>>

\* Mutant: the pages read so far are returned with the error.
FetchFails_Partial ==
  /\ pc = "fetching" /\ pc' = "failed"
  /\ UNCHANGED <<list, marking, page, got, history>>

\* Any failing page fails the call, and nothing is returned.
FetchFails ==
  /\ pc = "fetching" /\ pc' = "failed"
  /\ got' = <<>>
  /\ UNCHANGED <<list, marking, page, history>>

Next ==
  \/ Call \/ Fetch \/ FetchFails
  \/ \E t \in Tasks, i \in 1 .. Len(list) + 1 : Join(t, i)
  \/ \E i \in 1 .. Len(list) : Leave(i)

Spec == Init /\ [][Next]_vars

\* Every request is answered.
FairSpec == Spec /\ WF_vars(Fetch)

-----------------------------------------------------------------------------
(* Properties *)

\* The answer is the list as it is at one moment, the last fetch, provided that no
\* change has touched the pages read before it: whatever happens further on, page
\* boundaries included, is no danger.  Orchestrator relies on it.
ReturnsWhole ==
  [][pc = "fetching" /\ pc' = "returned" /\ IsPrefix(got, list) => got' = list]_vars

\* While tasks only join, none that was there is missed, only read twice.
JoiningLosesNothing == pc = "returned" /\ ~left => stayed \subseteq ToSet(got)

\* While tasks only leave, none is returned twice.
LeavingRepeatsNothing == ~joined => IsInjective(got)

\* Whatever happens at the page boundaries, a change of one kind does one kind of
\* harm only: Claim refuses repeated tasks, and the next tick finds missed ones.
ChangesDoOneHarm == JoiningLosesNothing /\ LeavingRepeatsNothing

\* GetTasks ends, though the number of pages is known only when it has read them.
CallEnds == pc = "fetching" ~> pc # "fetching"

=============================================================================
