-------------------------- MODULE PRCheckerProofs --------------------------
(***************************************************************************)
(* PRChecker implements MergeCheck, for any pull requests, whatever their  *)
(* branches and bodies, and any number of failures.                        *)
(***************************************************************************)
EXTENDS PRChecker, TLAPS

Hits == BranchHits \cup BodyHits

\* What could be found when the check began is still there for the searches that
\* are to come.
NothingMissed ==
  /\ pc = "branch" /\ findable => Hits # {}
  /\ pc = "search" /\ findable /\ ~branchErr /\ ~notFound => BodyHits # {}

CheckInv == TypeOK /\ NothingMissed

\* A merge is for good, and so is what the index knows.
LEMMA MergesStay ==
  ASSUME TypeOK, [Next]_vars
  PROVE  BranchHits \subseteq BranchHits' /\ BodyHits \subseteq BodyHits'
<1>1. \A p \in PRs : pr[p] = "merged" => pr'[p] = "merged"
  BY DEF TypeOK, Next, vars, world, CheckerStep, Check, BranchSearch, BodySearch, Index, MovePR,
         PRMoves, Hide, Show
<1>2. indexed \subseteq indexed'
  BY DEF Next, vars, world, CheckerStep, Check, BranchSearch, BodySearch, Index, MovePR, Hide, Show
<1> QED
  BY <1>1, <1>2, PRAssumption DEF BranchHits, BodyHits

LEMMA CheckStart == Init => CheckInv
<1> SUFFICES ASSUME Init PROVE CheckInv
  OBVIOUS
<1>1. TypeOK
  <2>1. indexed \subseteq {p \in PRs : pr[p] = "merged"} /\ troubles \in 0 .. MaxTroubles
    BY PRAssumption DEF Init
  <2> QED
    BY <2>1 DEF Init, TypeOK
<1>2. NothingMissed
  BY DEF Init, NothingMissed
<1> QED
  BY <1>1, <1>2 DEF CheckInv

LEMMA TroublesBounded ==
  ASSUME troubles \in 0 .. MaxTroubles, Trouble \/ UNCHANGED troubles
  PROVE  troubles' \in 0 .. MaxTroubles
BY PRAssumption DEF Trouble

LEMMA CheckNext == CheckInv /\ [Next]_vars => CheckInv'
<1> SUFFICES ASSUME CheckInv, [Next]_vars PROVE CheckInv'
  OBVIOUS
<1> USE PRAssumption DEF CheckInv, TypeOK
<1>0. BranchHits \subseteq BranchHits' /\ BodyHits \subseteq BodyHits'
  BY MergesStay
<1>1. CASE Check
  <2>1. TypeOK'
    BY <1>1 DEF Check, world
  <2>2. Hits' = Hits
    BY <1>1 DEF Check, world, Hits, BranchHits, BodyHits
  <2>3. NothingMissed'
    BY <1>1, <2>2 DEF Check, NothingMissed, Hits
  <2> QED
    BY <2>1, <2>3
<1>2. CASE BranchSearch
  <2>1. TypeOK'
    <3>1. UNCHANGED <<world, findable>> /\ troubles' \in 0 .. MaxTroubles
      <4>1. Trouble \/ UNCHANGED troubles
        BY <1>2 DEF BranchSearch
      <4> QED
        BY <1>2, <4>1, TroublesBounded DEF BranchSearch
    <3>2. /\ pc' \in {"idle", "search"} /\ (pc' = "idle" <=> answer' # "asked")
          /\ answer' \in {"asked", "merged"}
          /\ branchErr' \in BOOLEAN /\ notFound' \in BOOLEAN
      BY <1>2 DEF BranchSearch, Verdict, ToFallback
    <3> QED
      BY <3>1, <3>2 DEF world
  <2>2. NothingMissed'
    BY <1>0, <1>2 DEF BranchSearch, Verdict, ToFallback, NothingMissed, Hits
  <2> QED
    BY <2>1, <2>2
<1>3. CASE BodySearch
  <2>1. TypeOK'
    BY <1>3 DEF BodySearch, Verdict, Trouble, world
  <2>2. NothingMissed'
    BY <1>3 DEF BodySearch, Verdict, NothingMissed
  <2> QED
    BY <2>1, <2>2
<1>4. ASSUME UNCHANGED checker PROVE NothingMissed'
  BY <1>0, <1>4 DEF checker, NothingMissed, Hits
<1>5. ASSUME NEW p \in PRs, Index(p) PROVE CheckInv'
  <2>1. TypeOK'
    BY <1>5 DEF Index, checker
  <2> QED
    BY <1>4, <1>5, <2>1 DEF Index
<1>6. ASSUME NEW p \in PRs, NEW state \in PRStates, MovePR(p, state) PROVE CheckInv'
  <2>1. TypeOK'
    BY <1>6 DEF MovePR, PRMoves, checker
  <2> QED
    BY <1>4, <1>6, <2>1 DEF MovePR
<1>7. CASE Hide \/ Show
  <2>1. TypeOK'
    <3>1. troubles' \in 0 .. MaxTroubles /\ visible' \in BOOLEAN /\ UNCHANGED <<pr, indexed>>
      <4>1. Trouble \/ UNCHANGED troubles
        BY <1>7 DEF Hide, Show
      <4> QED
        BY <1>7, <4>1, TroublesBounded DEF Hide, Show
    <3> QED
      BY <1>7, <3>1 DEF Hide, Show, checker
  <2> QED
    BY <1>4, <1>7, <2>1 DEF Hide, Show
<1>8. CASE UNCHANGED vars
  <2>1. TypeOK'
    BY <1>8 DEF vars, world, checker
  <2> QED
    BY <1>4, <1>8, <2>1 DEF vars
<1> QED
  BY <1>1, <1>2, <1>3, <1>5, <1>6, <1>7, <1>8 DEF Next, CheckerStep

\* The checker's state is well typed, and it has an answer exactly when it is idle.
THEOREM PRTypeCorrect == Spec => []TypeOK
<1>1. CheckInv => TypeOK
  BY DEF CheckInv
<1> QED
  BY <1>1, CheckStart, CheckNext, PTL DEF Spec

\* Every step of the checker, GitHub and the people is a step of MergeCheck or none.
LEMMA CheckSteps ==
  CheckInv /\ [Next]_vars =>
    [Atomic!Next]_<<BranchHits \cup BodyHits # {}, findable,
                   IF answer = "error" \/ (answer = "open" /\ notFound) THEN "unsure" ELSE answer>>
<1> DEFINE a == IF answer = "error" \/ (answer = "open" /\ notFound) THEN "unsure" ELSE answer
           m == Hits # {}
<1> SUFFICES ASSUME CheckInv, [Next]_vars
             PROVE  Atomic!Next \/ UNCHANGED <<m, findable, a>>
  BY DEF Hits
<1> USE DEF CheckInv
<1>1. (m => m') /\ m \in BOOLEAN /\ m' \in BOOLEAN
  BY MergesStay DEF Hits
<1>2. CASE Check
  <2>1. Hits' = Hits
    BY <1>2 DEF Check, world, Hits, BranchHits, BodyHits
  <2>2. a # "asked" /\ a' = "asked" /\ findable' = m /\ m' = m
    BY <1>2, <2>1 DEF Check, TypeOK, Hits
  <2> QED
    BY <2>2 DEF Atomic!Next, Atomic!Ask, Hits
<1>3. CASE BranchSearch
  <2>1. Hits' = Hits /\ UNCHANGED findable
    BY <1>3 DEF BranchSearch, world, Hits, BranchHits, BodyHits
  <2>2. CASE BranchHits # {} /\ Verdict("merged")
    <3>1. a = "asked" /\ a' = "merged" /\ m
      BY <1>3, <2>2 DEF BranchSearch, Verdict, TypeOK, Hits
    <3> QED
      BY <2>1, <3>1 DEF Atomic!Next, Atomic!Reply, Hits
  <2>3. CASE answer' = answer /\ answer = "asked"
    BY <2>1, <2>3
  <2> QED
    BY <1>3, <2>2, <2>3 DEF BranchSearch, ToFallback, TypeOK
<1>4. CASE BodySearch
  <2>1. Hits' = Hits /\ UNCHANGED findable /\ a = "asked"
    BY <1>4 DEF BodySearch, world, Hits, BranchHits, BodyHits, TypeOK
  <2>2. CASE BodyHits # {} /\ Verdict("merged")
    <3>1. a' = "merged" /\ m
      BY <2>2 DEF Verdict, Hits
    <3> QED
      BY <2>1, <3>1 DEF Atomic!Next, Atomic!Reply, Hits
  <2>3. CASE BodyHits = {} /\ ~branchErr /\ Verdict("open")
    <3>1. a' = "unsure" \/ (a' = "open" /\ ~findable)
      BY <1>4, <2>3 DEF BodySearch, Verdict, NothingMissed, TypeOK
    <3> QED
      BY <2>1, <3>1 DEF Atomic!Next, Atomic!Reply, Hits
  <2>4. CASE Verdict("error")
    <3>1. a' = "unsure"
      BY <2>4 DEF Verdict
    <3> QED
      BY <2>1, <3>1 DEF Atomic!Next, Atomic!Reply, Hits
  <2> QED
    BY <1>4, <2>2, <2>3, <2>4 DEF BodySearch
<1>5. CASE UNCHANGED checker
  <2>1. UNCHANGED <<findable, a>>
    BY <1>5 DEF checker
  <2> QED
    BY <1>1, <2>1 DEF Atomic!Next, Atomic!Merge, Hits
<1> QED
  BY <1>2, <1>3, <1>4, <1>5
  DEF Next, CheckerStep, Index, MovePR, Hide, Show, vars

\* "merged" and "open" mean what reconcile takes them for, although they are put
\* together from two searches.
THEOREM ImplementsMergeCheck == Spec => ChecksAtomically
<1>1. Init => Atomic!Init
  BY DEF Init, Atomic!Init
<1> QED
  BY <1>1, CheckStart, CheckNext, CheckSteps, PTL DEF Spec, ChecksAtomically, Atomic!Spec
=============================================================================
