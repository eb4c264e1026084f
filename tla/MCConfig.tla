------------------------------ MODULE MCConfig ------------------------------
(***************************************************************************)
(* Small instances of Config for TLC.                                      *)
(***************************************************************************)
EXTENDS Config, FiniteSets, TLC

\* Names that only differ in case and blanks, and a name that is only blanks.
Spelled ==
  (" " :> "") @@ ("Closed " :> "closed") @@ ("PR Review" :> "pr review")
    @@ ("Done" :> "done") @@ ("Repo" :> "repo")

Lower ==
  {"", "done", "r1", "r2", "clickup", "repo"} \cup {Default[f] : f \in Fields}

MCTexts == DOMAIN Spelled \cup Lower
MCNormal == [t \in MCTexts |-> IF t \in DOMAIN Spelled THEN Spelled[t] ELSE t]

Base ==
  [list |-> "r1", owner |-> "r1", repo |-> "r1", spec |-> "", mapping |-> Nil,
   poll |-> Nil, tasks |-> Nil, shutdown |-> Nil]

NoName == [f \in Fields |-> ""]

\* Entries that differ from Base in a field or two.
Entries ==
  {Base, [Base EXCEPT !.list = ""], [Base EXCEPT !.repo = "r2", !.spec = "Repo"],
   [Base EXCEPT !.spec = " "], [Base EXCEPT !.poll = 0], [Base EXCEPT !.tasks = -1],
   [Base EXCEPT !.repo = "", !.shutdown = 1],
   [Base EXCEPT !.shutdown = 0], [Base EXCEPT !.poll = 1, !.tasks = 2],
   [Base EXCEPT !.mapping = [NoName EXCEPT !.Closed = "Done"]],
   [Base EXCEPT !.mapping = [NoName EXCEPT !.ReadyForSpec = "Closed "]]}

\* The mapping renames one or two statuses, the others are left to their defaults.
Renamed ==
  LET names == {"", " ", "Done", "done", "Closed ", "PR Review", "implementing"}
  IN  {[NoName EXCEPT ![f] = a, ![g] = b] :
         f \in Fields, g \in Fields, a \in names, b \in names}

MCFiles ==
  {Unreadable} \cup UNION {[1 .. n -> Entries] : n \in 0 .. 3}
    \cup {<<[Base EXCEPT !.mapping = m]>> : m \in Renamed}

AnyEnv == Environment
=============================================================================
