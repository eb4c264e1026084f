-------------------------- MODULE ListPagingProofs --------------------------
(***************************************************************************)
(* What GetTasks guarantees while the list changes, for any tasks, any     *)
(* page size and any number of changes.                                    *)
(***************************************************************************)
EXTENDS ListPaging, SequenceTheorems, TLAPS

\* The positions of the list that lie on the pages fetched so far.
Read == page * PageSize

\* Every page but the last was full.
Aligned == pc = "fetching" => Len(got) = Read

\* What has not been read yet lies ahead, as long as nothing moves to the left.
NoneSkipped ==
  pc = "fetching" /\ ~left =>
    \A t \in stayed : t \in ToSet(got) \/ \E i \in Read + 1 .. Len(list) : list[i] = t

\* What has been read does not lie ahead, as long as nothing moves to the right.
NoneAgain ==
  pc = "fetching" /\ ~joined => \A i \in Read + 1 .. Len(list) : list[i] \notin ToSet(got)

LEMMA ReadNat == ASSUME TypeOK PROVE Read \in Nat /\ (page + 1) * PageSize = Read + PageSize
BY PagingAssumption DEF TypeOK, Read

\* The page asked for holds the next positions of the list, as many as there are.
LEMMA PageFacts ==
  ASSUME TypeOK
  PROVE  /\ Page(page) \in Seq(Tasks)
         /\ Len(Page(page)) \in 0 .. PageSize
         /\ \A i \in 1 .. Len(Page(page)) : Read + i <= Len(list) /\ Page(page)[i] = list[Read + i]
         /\ Read + Len(Page(page)) < Len(list) => Len(Page(page)) = PageSize
<1> DEFINE e == PageEnd(page)
<1>1. Read \in Nat /\ (page + 1) * PageSize = Read + PageSize
  BY ReadNat
<1>2. list \in Seq(Tasks) /\ Len(list) \in Nat /\ PageSize \in Nat \ {0}
  BY PagingAssumption DEF TypeOK
<1>3. e = IF Read + PageSize < Len(list) THEN Read + PageSize ELSE Len(list)
  BY <1>1 DEF PageEnd
<1>4. e \in Nat /\ e <= Len(list) /\ e <= Read + PageSize
  BY <1>1, <1>2, <1>3
<1>5. Page(page) = SubSeq(list, Read + 1, e)
  BY DEF Page, Read
<1>6. \A i \in Read + 1 .. e : list[i] \in Tasks
  BY <1>1, <1>2, <1>4
<1> HIDE DEF e
<1>7. /\ Page(page) \in Seq(Tasks)
      /\ Len(Page(page)) = IF Read + 1 <= e THEN e - (Read + 1) + 1 ELSE 0
      /\ \A i \in 1 .. e - (Read + 1) + 1 : Page(page)[i] = list[Read + 1 + i - 1]
  BY <1>1, <1>4, <1>5, <1>6, SubSeqProperties
<1> QED
  BY <1>1, <1>2, <1>3, <1>4, <1>7

-----------------------------------------------------------------------------
(* One fetch *)

LEMMA Appended ==
  ASSUME NEW s \in Seq(Tasks), NEW u \in Seq(Tasks)
  PROVE  /\ s \o u \in Seq(Tasks) /\ Len(s \o u) = Len(s) + Len(u)
         /\ \A i \in 1 .. Len(s) : (s \o u)[i] = s[i]
         /\ \A i \in 1 .. Len(u) : (s \o u)[Len(s) + i] = u[i]
         /\ ToSet(s \o u) = ToSet(s) \cup ToSet(u)
<1>1. /\ s \o u \in Seq(Tasks) /\ Len(s \o u) = Len(s) + Len(u)
      /\ Len(s) \in Nat /\ Len(u) \in Nat
      /\ DOMAIN s = 1 .. Len(s) /\ DOMAIN u = 1 .. Len(u)
      /\ DOMAIN (s \o u) = 1 .. Len(s) + Len(u)
  BY LenProperties
<1>2. \A i \in 1 .. Len(s) + Len(u) : (s \o u)[i] = IF i <= Len(s) THEN s[i] ELSE u[i - Len(s)]
  BY ConcatProperties
<1>3. \A i \in 1 .. Len(s) : (s \o u)[i] = s[i]
  BY <1>1, <1>2
<1>4. \A i \in 1 .. Len(u) : (s \o u)[Len(s) + i] = u[i]
  BY <1>1, <1>2
<1>5. ToSet(s \o u) \subseteq ToSet(s) \cup ToSet(u)
  <2> SUFFICES ASSUME NEW i \in 1 .. Len(s) + Len(u)
               PROVE  (s \o u)[i] \in ToSet(s) \cup ToSet(u)
    BY <1>1 DEF ToSet
  <2>1. CASE i <= Len(s)
    BY <1>1, <1>2, <2>1 DEF ToSet
  <2>2. CASE i > Len(s)
    <3>1. i - Len(s) \in 1 .. Len(u) /\ (s \o u)[i] = u[i - Len(s)]
      BY <1>1, <1>2, <2>2
    <3> QED
      BY <1>1, <3>1 DEF ToSet
  <2> QED
    BY <1>1, <2>1, <2>2
<1>6. ToSet(s) \subseteq ToSet(s \o u)
  BY <1>1, <1>3 DEF ToSet
<1>7. ToSet(u) \subseteq ToSet(s \o u)
  <2> SUFFICES ASSUME NEW i \in 1 .. Len(u) PROVE u[i] \in ToSet(s \o u)
    BY <1>1 DEF ToSet
  <2>1. Len(s) + i \in 1 .. Len(s) + Len(u)
    BY <1>1
  <2> QED
    BY <1>1, <1>4, <2>1 DEF ToSet
<1> QED
  BY <1>1, <1>3, <1>4, <1>5, <1>6, <1>7

\* A fetch reads on to the end of its page; it goes on only after a full page, and it
\* returns only at the end of the list.
LEMMA FetchFacts ==
  ASSUME TypeOK, Fetch
  PROVE  /\ Read' = Read + PageSize
         /\ pc' = "fetching" => Len(Page(page)) = PageSize
         /\ pc' # "fetching" => pc' = "returned" /\ Len(list) <= Read + Len(Page(page))
<1>1. Read \in Nat /\ (page + 1) * PageSize = Read + PageSize
  BY ReadNat
<1>2. Read' = Read + PageSize
  BY <1>1 DEF Fetch, Read
<1>3. /\ Page(page) \in Seq(Tasks) /\ Len(Page(page)) \in 0 .. PageSize
      /\ Read + Len(Page(page)) < Len(list) => Len(Page(page)) = PageSize
  BY PageFacts
<1>4. Page(page) = <<>> <=> Len(Page(page)) = 0
  BY <1>3, EmptySeq
<1>5. Len(list) \in Nat /\ PageSize \in Nat \ {0}
  BY PagingAssumption DEF TypeOK
<1>6. ASSUME pc' = "fetching" PROVE Len(Page(page)) = PageSize
  <2>1. ~LastPage(page) /\ Page(page) # <<>>
    BY <1>6 DEF Fetch
  <2>2. Len(list) > Read + PageSize \/ Len(Page(page)) \notin 1 .. PageSize - 1
    BY <1>1, <1>5, <2>1 DEF LastPage
  <2> QED
    BY <1>1, <1>3, <1>4, <1>5, <2>1, <2>2
<1>7. ASSUME pc' # "fetching" PROVE pc' = "returned" /\ Len(list) <= Read + Len(Page(page))
  <2>1. pc' = "returned" /\ (LastPage(page) \/ Page(page) = <<>>)
    BY <1>7 DEF Fetch
  <2>2. Len(list) <= Read + PageSize \/ Len(Page(page)) = 0
    BY <1>1, <1>4, <2>1 DEF LastPage
  <2> QED
    BY <1>1, <1>3, <1>5, <2>1, <2>2
<1> QED
  BY <1>2, <1>6, <1>7

-----------------------------------------------------------------------------
(* One change of the list *)

LEMMA Inserted ==
  ASSUME NEW s \in Seq(Tasks), NEW i \in 1 .. Len(s) + 1, NEW t \in Tasks
  PROVE  /\ InsertAt(s, i, t) \in Seq(Tasks)
         /\ Len(InsertAt(s, i, t)) = Len(s) + 1
         /\ \A j \in 1 .. Len(s) + 1 :
              InsertAt(s, i, t)[j] = IF j < i THEN s[j] ELSE IF j = i THEN t ELSE s[j - 1]
<1> DEFINE a == SubSeq(s, 1, i - 1)
           b == SubSeq(s, i, Len(s))
<1>1. Len(s) \in Nat /\ \A j \in 1 .. Len(s) : s[j] \in Tasks
  OBVIOUS
<1>2. a \in Seq(Tasks) /\ Len(a) = i - 1 /\ \A j \in 1 .. i - 1 : a[j] = s[j]
  BY <1>1
<1>3. b \in Seq(Tasks) /\ Len(b) = Len(s) - i + 1
      /\ \A j \in 1 .. Len(s) - i + 1 : b[j] = s[i + j - 1]
  BY <1>1
<1>4. InsertAt(s, i, t) = (a \o <<t>>) \o b
  BY DEF InsertAt
<1> HIDE DEF a, b
<1>5. <<t>> \in Seq(Tasks) /\ Len(<<t>>) = 1 /\ <<t>>[1] = t
  OBVIOUS
<1>6. /\ a \o <<t>> \in Seq(Tasks) /\ Len(a \o <<t>>) = i
      /\ \A j \in 1 .. i - 1 : (a \o <<t>>)[j] = s[j]
      /\ (a \o <<t>>)[i] = t
  <2>1. a \o <<t>> \in Seq(Tasks) /\ Len(a \o <<t>>) = i
    BY <1>2, <1>5, Appended
  <2>2. \A j \in 1 .. i - 1 : (a \o <<t>>)[j] = a[j]
    BY <1>2, <1>5, Appended
  <2>3. (a \o <<t>>)[Len(a) + 1] = t
    BY <1>2, <1>5, Appended
  <2> QED
    BY <1>2, <2>1, <2>2, <2>3
<1>7. /\ InsertAt(s, i, t) \in Seq(Tasks) /\ Len(InsertAt(s, i, t)) = Len(s) + 1
      /\ \A j \in 1 .. i : InsertAt(s, i, t)[j] = (a \o <<t>>)[j]
      /\ \A j \in 1 .. Len(s) - i + 1 : InsertAt(s, i, t)[i + j] = b[j]
  <2> DEFINE c == a \o <<t>>
  <2>1. c \in Seq(Tasks) /\ Len(c) = i /\ b \in Seq(Tasks) /\ Len(b) = Len(s) - i + 1
    BY <1>3, <1>6
  <2>2. InsertAt(s, i, t) = c \o b
    BY <1>4
  <2> HIDE DEF c
  <2>3. /\ c \o b \in Seq(Tasks) /\ Len(c \o b) = Len(c) + Len(b)
        /\ \A j \in 1 .. Len(c) : (c \o b)[j] = c[j]
        /\ \A j \in 1 .. Len(b) : (c \o b)[Len(c) + j] = b[j]
    BY <2>1, Appended, Zenon
  <2>4. Len(c) + Len(b) = Len(s) + 1
    BY <1>1, <2>1
  <2>5. /\ c \o b \in Seq(Tasks) /\ Len(c \o b) = Len(s) + 1
        /\ \A j \in 1 .. i : (c \o b)[j] = c[j]
        /\ \A j \in 1 .. Len(s) - i + 1 : (c \o b)[i + j] = b[j]
    BY <2>1, <2>3, <2>4, Zenon
  <2> QED
    BY <2>2, <2>5, Zenon DEF c
<1>8. ASSUME NEW j \in 1 .. Len(s) + 1, j > i PROVE InsertAt(s, i, t)[j] = s[j - 1]
  <2>1. j - i \in 1 .. Len(s) - i + 1 /\ i + (j - i) = j /\ i + (j - i) - 1 = j - 1
    BY <1>1, <1>8
  <2> QED
    BY <1>3, <1>7, <2>1
<1> QED
  BY <1>1, <1>6, <1>7, <1>8

LEMMA Removed ==
  ASSUME NEW s \in Seq(Tasks), NEW i \in 1 .. Len(s)
  PROVE  /\ RemoveAt(s, i) \in Seq(Tasks)
         /\ Len(RemoveAt(s, i)) = Len(s) - 1
         /\ \A j \in 1 .. Len(s) - 1 : RemoveAt(s, i)[j] = IF j < i THEN s[j] ELSE s[j + 1]
<1> DEFINE a == SubSeq(s, 1, i - 1)
           b == SubSeq(s, i + 1, Len(s))
<1>1. Len(s) \in Nat /\ \A j \in 1 .. Len(s) : s[j] \in Tasks
  OBVIOUS
<1>2. a \in Seq(Tasks) /\ Len(a) = i - 1 /\ \A j \in 1 .. i - 1 : a[j] = s[j]
  BY <1>1
<1>3. b \in Seq(Tasks) /\ Len(b) = Len(s) - i
      /\ \A j \in 1 .. Len(s) - i : b[j] = s[i + j]
  BY <1>1
<1>4. RemoveAt(s, i) = a \o b
  BY DEF RemoveAt
<1> HIDE DEF a, b
<1>5. /\ RemoveAt(s, i) \in Seq(Tasks) /\ Len(RemoveAt(s, i)) = Len(s) - 1
      /\ \A j \in 1 .. i - 1 : RemoveAt(s, i)[j] = s[j]
      /\ \A j \in 1 .. Len(s) - i : RemoveAt(s, i)[i - 1 + j] = s[i + j]
  <2>1. RemoveAt(s, i) \in Seq(Tasks) /\ Len(RemoveAt(s, i)) = Len(s) - 1
    BY <1>1, <1>2, <1>3, <1>4, Appended
  <2>2. \A j \in 1 .. i - 1 : RemoveAt(s, i)[j] = a[j]
    BY <1>2, <1>3, <1>4, Appended
  <2>3. \A j \in 1 .. Len(s) - i : RemoveAt(s, i)[i - 1 + j] = b[j]
    BY <1>2, <1>3, <1>4, Appended
  <2> QED
    BY <1>2, <1>3, <2>1, <2>2, <2>3
<1>6. ASSUME NEW j \in 1 .. Len(s) - 1, j >= i PROVE RemoveAt(s, i)[j] = s[j + 1]
  <2>1. j - i + 1 \in 1 .. Len(s) - i /\ i - 1 + (j - i + 1) = j /\ i + (j - i + 1) = j + 1
    BY <1>1, <1>6
  <2> QED
    BY <1>5, <2>1
<1>7. ASSUME NEW j \in 1 .. Len(s) - 1, j < i PROVE RemoveAt(s, i)[j] = s[j]
  <2>1. j \in 1 .. i - 1
    BY <1>1, <1>7
  <2> QED
    BY <1>5, <2>1
<1>8. \A j \in 1 .. Len(s) - 1 : RemoveAt(s, i)[j] = IF j < i THEN s[j] ELSE s[j + 1]
  <2> TAKE j \in 1 .. Len(s) - 1
  <2>1. j < i \/ (~(j < i) /\ j >= i)
    BY <1>1
  <2> QED
    BY <1>6, <1>7, <2>1
<1> QED
  BY <1>5, <1>8

-----------------------------------------------------------------------------
(* Types *)

LEMMA TypeStep == TypeOK /\ [Next]_vars => TypeOK'
<1> SUFFICES ASSUME TypeOK, [Next]_vars PROVE TypeOK'
  OBVIOUS
<1> USE PagingAssumption
<1>1. ASSUME NEW t \in Tasks, NEW i \in 1 .. Len(list) + 1, Join(t, i) PROVE TypeOK'
  <2>1. list' \in Seq(Tasks)
    BY <1>1, Inserted DEF TypeOK, Join
  <2>2. changes' \in 0 .. MaxChanges
    BY <1>1 DEF TypeOK, Join, Change
  <2> QED
    BY <1>1, <2>1, <2>2 DEF TypeOK, Join, call
<1>2. ASSUME NEW i \in 1 .. Len(list), Leave(i) PROVE TypeOK'
  <2>1. list' \in Seq(Tasks)
    BY <1>2, Removed DEF TypeOK, Leave
  <2>2. changes' \in 0 .. MaxChanges
    BY <1>2 DEF TypeOK, Leave, Change
  <2> QED
    BY <1>2, <2>1, <2>2 DEF TypeOK, Leave, call
<1>3. CASE Call
  <2>1. ToSet(list) \subseteq Tasks
    BY DEF TypeOK, ToSet
  <2>2. <<>> \in Seq(Tasks) /\ 0 \in 0 .. MaxChanges
    OBVIOUS
  <2> QED
    BY <1>3, <2>1, <2>2 DEF TypeOK, Call
<1>4. CASE Fetch
  <2>1. got' \in Seq(Tasks)
    BY <1>4, PageFacts, Appended DEF TypeOK, Fetch
  <2>2. pc' = "returned" \/ pc' = "fetching"
    BY <1>4 DEF Fetch
  <2> QED
    BY <1>4, <2>1, <2>2 DEF TypeOK, Fetch, history
<1>5. CASE FetchFails
  <2>1. <<>> \in Seq(Tasks)
    OBVIOUS
  <2> QED
    BY <1>5, <2>1 DEF TypeOK, FetchFails, history
<1>6. CASE UNCHANGED vars
  BY <1>6 DEF TypeOK, vars, call, history
<1> QED
  BY <1>1, <1>2, <1>3, <1>4, <1>5, <1>6 DEF Next

\* The type invariant: nothing is returned with an error, and pages are numbered on.
THEOREM PagingTypeCorrect == Spec => []TypeOK
<1>1. ASSUME Init PROVE TypeOK
  <2>1. <<>> \in Seq(Tasks) /\ 0 \in 0 .. MaxChanges
    BY PagingAssumption
  <2>2. list \in Seq(Tasks) /\ got \in Seq(Tasks) /\ changes \in 0 .. MaxChanges
    BY <1>1, <2>1 DEF Init
  <2> QED
    BY <1>1, <2>2 DEF Init, TypeOK
<1> QED
  BY <1>1, TypeStep, PTL DEF Spec

-----------------------------------------------------------------------------
(* Position of what is read and what is not *)

\* A fetch moves the next positions of the list from ahead to behind.
LEMMA FetchMoves ==
  ASSUME TypeOK, Aligned, Fetch
  PROVE  /\ Len(got') = Read + Len(Page(page))
         /\ \A i \in 1 .. Len(got) : got'[i] = got[i]
         /\ \A i \in Len(got) + 1 .. Len(got') : i <= Len(list) /\ got'[i] = list[i]
         /\ ToSet(got') = ToSet(got) \cup {list[i] : i \in Read + 1 .. Read + Len(Page(page))}
<1>1. /\ got \in Seq(Tasks) /\ Len(got) = Read /\ Read \in Nat
      /\ Page(page) \in Seq(Tasks) /\ Len(Page(page)) \in Nat
      /\ got' = got \o Page(page)
  BY ReadNat, PageFacts, PagingAssumption DEF TypeOK, Aligned, Fetch
<1>2. \A i \in 1 .. Len(Page(page)) : Read + i <= Len(list) /\ Page(page)[i] = list[Read + i]
  BY PageFacts
<1>3. /\ Len(got') = Read + Len(Page(page))
      /\ \A i \in 1 .. Len(got) : got'[i] = got[i]
      /\ ToSet(got') = ToSet(got) \cup ToSet(Page(page))
  BY <1>1, Appended
<1>4. \A i \in 1 .. Len(Page(page)) : got'[Read + i] = Page(page)[i]
  BY <1>1, Appended
<1>5. ASSUME NEW i \in Len(got) + 1 .. Len(got') PROVE i <= Len(list) /\ got'[i] = list[i]
  <2>1. i - Read \in 1 .. Len(Page(page)) /\ Read + (i - Read) = i
    BY <1>1, <1>3
  <2> QED
    BY <1>2, <1>4, <2>1
<1>6. ToSet(Page(page)) = {list[i] : i \in Read + 1 .. Read + Len(Page(page))}
  <2>1. DOMAIN Page(page) = 1 .. Len(Page(page))
    BY <1>1
  <2>2. \A i \in 1 .. Len(Page(page)) :
          Read + i \in Read + 1 .. Read + Len(Page(page)) /\ Page(page)[i] = list[Read + i]
    BY <1>1, <1>2
  <2>3. \A k \in Read + 1 .. Read + Len(Page(page)) :
          k - Read \in 1 .. Len(Page(page)) /\ Page(page)[k - Read] = list[k]
    <3> TAKE k \in Read + 1 .. Read + Len(Page(page))
    <3>1. k - Read \in 1 .. Len(Page(page)) /\ Read + (k - Read) = k
      BY <1>1
    <3> QED
      BY <1>2, <3>1
  <2> QED
    BY <2>1, <2>2, <2>3 DEF ToSet
<1> QED
  BY <1>3, <1>5, <1>6

LEMMA AlignedStep == TypeOK /\ Aligned /\ [Next]_vars => Aligned'
<1> SUFFICES ASSUME TypeOK, Aligned, [Next]_vars PROVE Aligned'
  OBVIOUS
<1>1. CASE Call
  <2>1. Len(<<>>) = 0 /\ 0 * PageSize = 0
    BY PagingAssumption
  <2> QED
    BY <1>1, <2>1 DEF Call, Aligned, Read
<1>2. CASE Fetch
  <2>1. Len(got') = Read + Len(Page(page)) /\ Read' = Read + PageSize
    BY <1>2, FetchMoves, FetchFacts
  <2>2. pc' = "fetching" => Len(Page(page)) = PageSize
    BY <1>2, FetchFacts
  <2> QED
    BY <2>1, <2>2 DEF Aligned
<1>3. CASE FetchFails
  BY <1>3 DEF FetchFails, Aligned
<1>4. ASSUME UNCHANGED call PROVE Aligned'
  BY <1>4 DEF Aligned, Read, call
<1> QED
  BY <1>1, <1>2, <1>3, <1>4 DEF Next, Join, Leave, vars

LEMMA JoinShifts ==
  ASSUME TypeOK, NEW t \in Tasks, NEW i \in 1 .. Len(list) + 1, Join(t, i)
  PROVE  /\ list' \in Seq(Tasks) /\ Len(list') = Len(list) + 1
         /\ \A j \in 1 .. Len(list) + 1 :
              list'[j] = IF j < i THEN list[j] ELSE IF j = i THEN t ELSE list[j - 1]
<1>0. list \in Seq(Tasks)
  BY DEF TypeOK
<1>1. list' = InsertAt(list, i, t)
  BY DEF Join
<1>2. InsertAt(list, i, t) \in Seq(Tasks) /\ Len(InsertAt(list, i, t)) = Len(list) + 1
  BY <1>0, Inserted
<1>3. ASSUME NEW j \in 1 .. Len(list) + 1
      PROVE  InsertAt(list, i, t)[j] = IF j < i THEN list[j] ELSE IF j = i THEN t ELSE list[j - 1]
  BY <1>0, Inserted
<1>4. list' \in Seq(Tasks) /\ Len(list') = Len(list) + 1
  BY <1>1, <1>2, Zenon
<1>5. ASSUME NEW j \in 1 .. Len(list) + 1
      PROVE  list'[j] = IF j < i THEN list[j] ELSE IF j = i THEN t ELSE list[j - 1]
  BY <1>1, <1>3, Zenon
<1> QED
  BY <1>4, <1>5, Zenon

LEMMA LeaveShifts ==
  ASSUME TypeOK, NEW i \in 1 .. Len(list), Leave(i)
  PROVE  /\ list' \in Seq(Tasks) /\ Len(list') = Len(list) - 1
         /\ \A j \in 1 .. Len(list) - 1 : list'[j] = IF j < i THEN list[j] ELSE list[j + 1]
<1>0. list \in Seq(Tasks)
  BY DEF TypeOK
<1>1. list' = RemoveAt(list, i)
  BY DEF Leave
<1>2. RemoveAt(list, i) \in Seq(Tasks) /\ Len(RemoveAt(list, i)) = Len(list) - 1
  BY <1>0, Removed
<1>3. ASSUME NEW j \in 1 .. Len(list) - 1
      PROVE  RemoveAt(list, i)[j] = IF j < i THEN list[j] ELSE list[j + 1]
  BY <1>0, Removed
<1>4. list' \in Seq(Tasks) /\ Len(list') = Len(list) - 1
  BY <1>1, <1>2, Zenon
<1>5. ASSUME NEW j \in 1 .. Len(list) - 1
      PROVE  list'[j] = IF j < i THEN list[j] ELSE list[j + 1]
  BY <1>1, <1>3, Zenon
<1> QED
  BY <1>4, <1>5, Zenon

LEMMA DistinctStep == TypeOK /\ IsInjective(list) /\ [Next]_vars => IsInjective(list)'
<1> SUFFICES ASSUME TypeOK, IsInjective(list), [Next]_vars PROVE IsInjective(list)'
  OBVIOUS
<1>1. list \in Seq(Tasks) /\ Len(list) \in Nat /\ DOMAIN list = 1 .. Len(list)
  BY DEF TypeOK
<1>2. \A a, b \in 1 .. Len(list) : list[a] = list[b] => a = b
  BY <1>1 DEF IsInjective
<1>3. ASSUME NEW t \in Tasks, NEW i \in 1 .. Len(list) + 1, Join(t, i) PROVE IsInjective(list)'
  <2>1. \A a \in 1 .. Len(list) : list[a] # t
    BY <1>1, <1>3 DEF Join, ToSet
  <2>2. /\ list' \in Seq(Tasks) /\ Len(list') = Len(list) + 1
        /\ \A j \in 1 .. Len(list) + 1 :
             list'[j] = IF j < i THEN list[j] ELSE IF j = i THEN t ELSE list[j - 1]
    BY <1>3, JoinShifts
  <2>3. DOMAIN list' = 1 .. Len(list) + 1
    BY <2>2
  <2>4. ASSUME NEW a \in 1 .. Len(list) + 1, NEW b \in 1 .. Len(list) + 1, list'[a] = list'[b]
        PROVE  a = b
    <3>1. CASE a < i /\ b < i
      BY <1>1, <1>2, <2>2, <2>4, <3>1
    <3>2. CASE a < i /\ b > i
      <4>1. list'[a] = list[a] /\ list'[b] = list[b - 1] /\ b - 1 \in 1 .. Len(list)
        <5>1. b - 1 \in 1 .. Len(list) /\ ~(b < i) /\ b # i
          BY <1>1, <3>2
        <5> QED
          BY <2>2, <3>2, <5>1
      <4>2. a \in 1 .. Len(list)
        BY <1>1, <3>2
      <4>3. list[a] = list[b - 1]
        BY <2>4, <4>1
      <4>4. a = b - 1
        BY <1>2, <4>1, <4>2, <4>3
      <4> QED
        BY <1>1, <3>2, <4>4
    <3>3. CASE a > i /\ b < i
      <4>1. list'[b] = list[b] /\ list'[a] = list[a - 1] /\ a - 1 \in 1 .. Len(list)
        <5>1. a - 1 \in 1 .. Len(list) /\ ~(a < i) /\ a # i
          BY <1>1, <3>3
        <5> QED
          BY <2>2, <3>3, <5>1
      <4>2. b \in 1 .. Len(list) /\ list[a - 1] = list[b]
        BY <1>1, <2>4, <3>3, <4>1
      <4>3. a - 1 = b
        BY <1>2, <4>1, <4>2
      <4> QED
        BY <1>1, <3>3, <4>3
    <3>4. CASE a > i /\ b > i
      <4>1. list'[b] = list[b - 1] /\ list'[a] = list[a - 1]
            /\ a - 1 \in 1 .. Len(list) /\ b - 1 \in 1 .. Len(list)
        BY <1>1, <2>2, <3>4
      <4> QED
        BY <1>1, <1>2, <2>4, <3>4, <4>1
    <3>5. CASE a = i /\ b # i
      <4>1. list'[b] # t
        BY <1>1, <2>1, <2>2, <3>5
      <4> QED
        BY <1>1, <2>2, <2>4, <3>5, <4>1
    <3>6. CASE b = i /\ a # i
      <4>1. list'[a] # t
        BY <1>1, <2>1, <2>2, <3>6
      <4> QED
        BY <1>1, <2>2, <2>4, <3>6, <4>1
    <3> QED
      BY <1>1, <3>1, <3>2, <3>3, <3>4, <3>5, <3>6
  <2> QED
    BY <2>3, <2>4 DEF IsInjective
<1>4. ASSUME NEW i \in 1 .. Len(list), Leave(i) PROVE IsInjective(list)'
  <2>1. /\ list' \in Seq(Tasks) /\ Len(list') = Len(list) - 1
        /\ \A j \in 1 .. Len(list) - 1 : list'[j] = IF j < i THEN list[j] ELSE list[j + 1]
    BY <1>4, LeaveShifts
  <2>2. DOMAIN list' = 1 .. Len(list) - 1
    BY <2>1
  <2>3. ASSUME NEW a \in 1 .. Len(list) - 1, NEW b \in 1 .. Len(list) - 1, list'[a] = list'[b]
        PROVE  a = b
    <3>1. list[IF a < i THEN a ELSE a + 1] = list[IF b < i THEN b ELSE b + 1]
      BY <1>1, <2>1, <2>3
    <3>2. (IF a < i THEN a ELSE a + 1) \in 1 .. Len(list) /\ (IF b < i THEN b ELSE b + 1) \in 1 .. Len(list)
      BY <1>1
    <3>3. (IF a < i THEN a ELSE a + 1) = (IF b < i THEN b ELSE b + 1)
      BY <1>2, <3>1, <3>2
    <3> QED
      BY <1>1, <3>3
  <2> QED
    BY <2>2, <2>3 DEF IsInjective
<1>5. ASSUME UNCHANGED list PROVE IsInjective(list)'
  BY <1>5
<1> QED
  BY <1>3, <1>4, <1>5 DEF Next, Call, Fetch, FetchFails, vars

-----------------------------------------------------------------------------
(* The three guarantees *)

\* What the last fetch returns is the list, if the pages read before it still are its
\* beginning.
LEMMA WholeStep == TypeOK /\ Aligned /\ [Next]_vars =>
  (pc = "fetching" /\ pc' = "returned" /\ IsPrefix(got, list) => got' = list)
<1> SUFFICES ASSUME TypeOK, Aligned, [Next]_vars, pc = "fetching", pc' = "returned",
                    IsPrefix(got, list)
             PROVE  got' = list
  OBVIOUS
<1>1. Fetch
  BY DEF Next, Call, FetchFails, Join, Leave, call, vars
<1>2. /\ list \in Seq(Tasks) /\ got \in Seq(Tasks) /\ Len(got) = Read /\ Read \in Nat
      /\ Len(list) \in Nat
  BY ReadNat DEF TypeOK, Aligned
<1>3. /\ Len(got') = Read + Len(Page(page))
      /\ \A i \in 1 .. Len(got) : got'[i] = got[i]
      /\ \A i \in Len(got) + 1 .. Len(got') : i <= Len(list) /\ got'[i] = list[i]
  BY <1>1, FetchMoves
<1>4. Len(list) <= Read + Len(Page(page)) /\ Len(Page(page)) \in Nat
  BY <1>1, FetchFacts, PageFacts, PagingAssumption
<1>5. Len(got) <= Len(list) /\ \A i \in 1 .. Len(got) : got[i] = list[i]
  BY <1>2 DEF IsPrefix
<1>6. Len(got') = Len(list)
  BY <1>2, <1>3, <1>4, <1>5
<1>7. \A i \in 1 .. Len(list) : got'[i] = list[i]
  BY <1>2, <1>3, <1>4, <1>5, <1>6
<1>8. got' \in Seq(Tasks)
  BY <1>1, <1>2, PageFacts, Appended DEF Fetch
<1> QED
  BY <1>2, <1>6, <1>7, <1>8, SeqEqual

\* The answer is the list at the moment of the last fetch, unless a change has touched
\* the pages read before.
THEOREM AnswerIsWhole == Spec => ReturnsWhole
<1>1. Init => Aligned
  BY DEF Init, Aligned
<1> QED
  BY <1>1, PagingTypeCorrect, AlignedStep, WholeStep, PTL DEF Spec, ReturnsWhole

\* A task that stays on the list is behind or ahead; a task that joins pushes it to the
\* right, at most.
LEMMA JoiningStep ==
  TypeOK /\ Aligned /\ NoneSkipped /\ JoiningLosesNothing /\ [Next]_vars
    => NoneSkipped' /\ JoiningLosesNothing'
<1> SUFFICES ASSUME TypeOK, Aligned, NoneSkipped, JoiningLosesNothing, [Next]_vars
             PROVE  NoneSkipped' /\ JoiningLosesNothing'
  OBVIOUS
<1>1. list \in Seq(Tasks) /\ Len(list) \in Nat /\ DOMAIN list = 1 .. Len(list) /\ Read \in Nat
  BY ReadNat DEF TypeOK
<1>2. CASE Call
  <2>1. Read' = 0
    BY <1>2, PagingAssumption DEF Call, Read
  <2>2. \A t \in ToSet(list) : \E i \in 1 .. Len(list) : list[i] = t
    BY <1>1 DEF ToSet
  <2>3. pc' = "fetching" /\ stayed' = ToSet(list) /\ list' = list
    BY <1>2 DEF Call
  <2> QED
    BY <2>1, <2>2, <2>3 DEF NoneSkipped, JoiningLosesNothing
<1>3. CASE Fetch
  <2>1. pc = "fetching" /\ stayed' = stayed /\ left' = left /\ list' = list
    BY <1>3 DEF Fetch, history
  <2>2. ToSet(got') = ToSet(got) \cup {list[i] : i \in Read + 1 .. Read + Len(Page(page))}
    BY <1>3, FetchMoves
  <2>3. /\ Read' = Read + PageSize
        /\ pc' = "fetching" => Len(Page(page)) = PageSize
        /\ pc' # "fetching" => pc' = "returned" /\ Len(list) <= Read + Len(Page(page))
    BY <1>3, FetchFacts
  <2>4. Len(Page(page)) \in Nat /\ PageSize \in Nat
    BY PageFacts, PagingAssumption
  <2>5. ASSUME ~left', NEW t \in stayed'
        PROVE  \/ t \in ToSet(got')
               \/ \E i \in Read + Len(Page(page)) + 1 .. Len(list) : list[i] = t
    <3>1. t \in ToSet(got) \/ \E i \in Read + 1 .. Len(list) : list[i] = t
      BY <2>1, <2>5 DEF NoneSkipped
    <3>2. ASSUME NEW i \in Read + 1 .. Len(list), list[i] = t
          PROVE  \/ i \in Read + 1 .. Read + Len(Page(page))
                 \/ i \in Read + Len(Page(page)) + 1 .. Len(list)
      BY <1>1, <2>4
    <3> QED
      BY <2>2, <3>1, <3>2
  <2>6. NoneSkipped'
    BY <2>1, <2>3, <2>5 DEF NoneSkipped
  <2>7. ASSUME pc' = "returned", ~left' PROVE stayed' \subseteq ToSet(got')
    <3>1. Len(list) <= Read + Len(Page(page))
      BY <2>3, <2>7
    <3>2. ~ \E i \in Read + Len(Page(page)) + 1 .. Len(list) : TRUE
      BY <1>1, <2>4, <3>1
    <3> QED
      BY <2>5, <2>7, <3>2
  <2> QED
    BY <2>6, <2>7 DEF JoiningLosesNothing
<1>4. CASE FetchFails
  BY <1>4 DEF FetchFails, NoneSkipped, JoiningLosesNothing
<1>5. ASSUME NEW u \in Tasks, NEW k \in 1 .. Len(list) + 1, Join(u, k)
      PROVE  NoneSkipped' /\ JoiningLosesNothing'
  <2>1. pc' = pc /\ got' = got /\ page' = page /\ stayed' = stayed /\ left' = left
    BY <1>5 DEF Join, call
  <2>2. /\ Len(list') = Len(list) + 1
        /\ \A j \in 1 .. Len(list) + 1 :
             list'[j] = IF j < k THEN list[j] ELSE IF j = k THEN u ELSE list[j - 1]
    BY <1>5, JoinShifts
  <2>3. ASSUME NEW i \in Read + 1 .. Len(list)
        PROVE  \E j \in Read + 1 .. Len(list) + 1 : list'[j] = list[i]
    <3>1. CASE i < k
      <4>1. i \in 1 .. Len(list) + 1 /\ i \in Read + 1 .. Len(list) + 1
        BY <1>1
      <4> QED
        BY <2>2, <3>1, <4>1
    <3>2. CASE ~(i < k)
      <4>1. /\ i + 1 \in 1 .. Len(list) + 1 /\ i + 1 \in Read + 1 .. Len(list) + 1
            /\ ~(i + 1 < k) /\ i + 1 # k /\ i + 1 - 1 = i
        BY <1>1, <3>2
      <4>2. list'[i + 1] = list[i + 1 - 1]
        BY <2>2, <4>1
      <4> QED
        BY <4>1, <4>2
    <3> QED
      BY <3>1, <3>2
  <2>4. Read' = Read
    BY <2>1 DEF Read
  <2>5. NoneSkipped'
    <3> SUFFICES ASSUME pc = "fetching", ~left, NEW t \in stayed
                 PROVE  t \in ToSet(got) \/ \E j \in Read + 1 .. Len(list) + 1 : list'[j] = t
      BY <2>1, <2>2, <2>4 DEF NoneSkipped
    <3> QED
      BY <2>3 DEF NoneSkipped
  <2> QED
    BY <2>1, <2>5 DEF JoiningLosesNothing
<1>6. ASSUME NEW i \in 1 .. Len(list), Leave(i) PROVE NoneSkipped' /\ JoiningLosesNothing'
  BY <1>6 DEF Leave, NoneSkipped, JoiningLosesNothing
<1>7. CASE UNCHANGED vars
  BY <1>7 DEF vars, call, history, NoneSkipped, JoiningLosesNothing, Read
<1> QED
  BY <1>2, <1>3, <1>4, <1>5, <1>6, <1>7 DEF Next

\* No task that is there all the time is missed because others join.
THEOREM JoiningIsSafe == Spec => []JoiningLosesNothing
<1>1. Init => Aligned /\ NoneSkipped /\ JoiningLosesNothing
  BY DEF Init, Aligned, NoneSkipped, JoiningLosesNothing
<1> QED
  BY <1>1, PagingTypeCorrect, AlignedStep, JoiningStep, PTL DEF Spec

\* What is ahead has not been read; a task that leaves pulls it to the left, at most.
LEMMA LeavingStep ==
  TypeOK /\ Aligned /\ IsInjective(list) /\ NoneAgain /\ LeavingRepeatsNothing /\ [Next]_vars
    => NoneAgain' /\ LeavingRepeatsNothing'
<1> SUFFICES ASSUME TypeOK, Aligned, IsInjective(list), NoneAgain, LeavingRepeatsNothing, [Next]_vars
             PROVE  NoneAgain' /\ LeavingRepeatsNothing'
  OBVIOUS
<1>1. /\ list \in Seq(Tasks) /\ Len(list) \in Nat /\ DOMAIN list = 1 .. Len(list) /\ Read \in Nat
      /\ got \in Seq(Tasks) /\ Len(got) \in Nat /\ DOMAIN got = 1 .. Len(got)
  BY ReadNat DEF TypeOK
<1>2. \A a, b \in 1 .. Len(list) : list[a] = list[b] => a = b
  BY <1>1 DEF IsInjective
<1>3. ASSUME got' = <<>> PROVE NoneAgain' /\ LeavingRepeatsNothing'
  <2>1. DOMAIN <<>> = {} /\ ToSet(<<>>) = {}
    BY DEF ToSet
  <2> QED
    BY <1>3, <2>1 DEF NoneAgain, LeavingRepeatsNothing, IsInjective
<1>4. CASE Fetch
  <2>1. pc = "fetching" /\ joined' = joined /\ list' = list
    BY <1>4 DEF Fetch, history
  <2>2. /\ Len(got') = Read + Len(Page(page)) /\ Len(got) = Read
        /\ \A i \in 1 .. Len(got) : got'[i] = got[i]
        /\ \A i \in Len(got) + 1 .. Len(got') : i <= Len(list) /\ got'[i] = list[i]
        /\ ToSet(got') = ToSet(got) \cup {list[i] : i \in Read + 1 .. Read + Len(Page(page))}
    BY <1>4, FetchMoves DEF Aligned, Fetch
  <2>3. Len(Page(page)) \in Nat /\ got' \in Seq(Tasks)
    BY <1>1, <1>4, PageFacts, PagingAssumption, Appended DEF Fetch
  <2>4. DOMAIN got' = 1 .. Len(got')
    BY <2>3
  <2>5. ASSUME ~joined, NEW a \in 1 .. Len(got'), NEW b \in 1 .. Len(got'), got'[a] = got'[b]
        PROVE  a = b
    <3>1. ASSUME NEW i \in 1 .. Len(got), NEW k \in Len(got) + 1 .. Len(got')
          PROVE  got'[i] # got'[k]
      <4>1. k \in Read + 1 .. Len(list) /\ got'[k] = list[k]
        BY <1>1, <2>2, <2>3
      <4>2. got'[i] \in ToSet(got)
        BY <1>1, <2>2 DEF ToSet
      <4> QED
        BY <2>1, <2>5, <4>1, <4>2 DEF NoneAgain
    <3>2. ASSUME a \in 1 .. Len(got), b \in 1 .. Len(got) PROVE a = b
      BY <1>1, <2>2, <2>5, <3>2 DEF LeavingRepeatsNothing, IsInjective
    <3>3. ASSUME a \in Len(got) + 1 .. Len(got'), b \in Len(got) + 1 .. Len(got') PROVE a = b
      <4>1. a \in 1 .. Len(list) /\ b \in 1 .. Len(list) /\ list[a] = list[b]
        BY <1>1, <2>2, <2>3, <2>5, <3>3
      <4> QED
        BY <1>2, <4>1
    <3>4. /\ a \in 1 .. Len(got) \/ a \in Len(got) + 1 .. Len(got')
          /\ b \in 1 .. Len(got) \/ b \in Len(got) + 1 .. Len(got')
      BY <1>1
    <3> QED
      BY <2>5, <3>1, <3>2, <3>3, <3>4
  <2>6. LeavingRepeatsNothing'
    BY <2>1, <2>4, <2>5 DEF LeavingRepeatsNothing, IsInjective
  <2>7. ASSUME pc' = "fetching", ~joined, NEW i \in Read' + 1 .. Len(list)
        PROVE  list[i] \notin ToSet(got')
    <3>1. Read' = Read + Len(Page(page))
      BY <1>4, <2>7, FetchFacts
    <3>2. i \in Read + 1 .. Len(list) /\ i \in 1 .. Len(list)
      BY <1>1, <2>3, <2>7, <3>1
    <3>3. list[i] \notin ToSet(got)
      BY <2>1, <2>7, <3>2 DEF NoneAgain
    <3>4. ASSUME NEW k \in Read + 1 .. Read + Len(Page(page)) PROVE list[k] # list[i]
      <4>1. k \in 1 .. Len(list) /\ k # i
        BY <1>1, <2>2, <2>3, <2>7, <3>1
      <4> QED
        BY <1>2, <3>2, <4>1
    <3> QED
      BY <2>2, <3>3, <3>4
  <2> QED
    BY <2>1, <2>6, <2>7 DEF NoneAgain
<1>5. ASSUME NEW k \in 1 .. Len(list), Leave(k) PROVE NoneAgain' /\ LeavingRepeatsNothing'
  <2>1. pc' = pc /\ got' = got /\ page' = page /\ joined' = joined
    BY <1>5 DEF Leave, call
  <2>2. /\ Len(list') = Len(list) - 1
        /\ \A j \in 1 .. Len(list) - 1 : list'[j] = IF j < k THEN list[j] ELSE list[j + 1]
    BY <1>5, LeaveShifts
  <2>3. Read' = Read
    BY <2>1 DEF Read
  <2>4. ASSUME NEW i \in Read + 1 .. Len(list) - 1
        PROVE  \E j \in Read + 1 .. Len(list) : list'[i] = list[j]
    <3>1. i \in 1 .. Len(list) - 1 /\ i \in Read + 1 .. Len(list) /\ i + 1 \in Read + 1 .. Len(list)
      BY <1>1
    <3> QED
      BY <2>2, <3>1
  <2>5. NoneAgain'
    <3> SUFFICES ASSUME pc = "fetching", ~joined, NEW i \in Read + 1 .. Len(list) - 1
                 PROVE  list'[i] \notin ToSet(got)
      BY <2>1, <2>2, <2>3 DEF NoneAgain
    <3> QED
      BY <2>4 DEF NoneAgain
  <2> QED
    BY <2>1, <2>5 DEF LeavingRepeatsNothing
<1>6. ASSUME NEW t \in Tasks, NEW i \in 1 .. Len(list) + 1, Join(t, i)
      PROVE  NoneAgain' /\ LeavingRepeatsNothing'
  BY <1>6 DEF Join, NoneAgain, LeavingRepeatsNothing
<1>7. CASE UNCHANGED vars
  BY <1>7 DEF vars, call, history, NoneAgain, LeavingRepeatsNothing, Read
<1> QED
  BY <1>3, <1>4, <1>5, <1>6, <1>7 DEF Next, Call, FetchFails

\* No task is returned twice because others leave.
THEOREM LeavingIsSafe == Spec => []LeavingRepeatsNothing
<1>1. Init => Aligned /\ IsInjective(list) /\ NoneAgain /\ LeavingRepeatsNothing
  <2>1. DOMAIN <<>> = {}
    OBVIOUS
  <2> QED
    BY <2>1 DEF Init, Aligned, NoneAgain, LeavingRepeatsNothing, IsInjective
<1> QED
  BY <1>1, PagingTypeCorrect, AlignedStep, DistinctStep, LeavingStep, PTL DEF Spec

\* For every list and page size: joining tasks only cause repetitions, leaving tasks
\* only omissions.
THEOREM OneHarmOnly == Spec => []ChangesDoOneHarm
BY JoiningIsSafe, LeavingIsSafe, PTL DEF ChangesDoOneHarm
=============================================================================
