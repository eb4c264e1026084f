----------------------- MODULE AppAuthenticatorProofs -----------------------
(***************************************************************************)
(* Theorems about AppAuthenticator, for any callers and any lifetimes,     *)
(* margins and timeouts that satisfy AuthAssumption.                       *)
(***************************************************************************)
EXTENDS AppAuthenticator, TLAPS

\* A token is cached exactly if a refresh has succeeded, and it is as good as the
\* slowest refresh allows.
CacheSound ==
  /\ expiresAt = 0 <=> renewed = 0
  /\ renewed # 0 => expiresAt >= renewed + TokenLife - InstallTimeout

\* Nothing outlives its timeout.
InTime ==
  \A c \in Callers :
    /\ pc[c] = "refreshing" => now <= at[c] + InstallTimeout
    /\ pc[c] \in Sending => now <= at[c] + RequestTimeout

\* What a token has left when it is handed out.
LifeLeft ==
  \A c \in Callers :
    /\ pc[c] = "sending" => header[c] > at[c] + RequestTimeout
    /\ pc[c] = "fallback" => header[c] > at[c]

AuthInv == TypeOK /\ CacheSound /\ InTime /\ LifeLeft /\ RefreshesSpaced

\* The five lengths of time, one by one.
LEMMA Lengths ==
  /\ TokenLife \in Nat /\ Margin \in Nat /\ InstallTimeout \in Nat /\ RequestTimeout \in Nat
  /\ MaxTime \in Nat
  /\ Margin > RequestTimeout /\ TokenLife > InstallTimeout + RequestTimeout
  /\ NoCaller \notin Callers
BY AuthAssumption

LEMMA AuthStart == Init => AuthInv
<1> SUFFICES ASSUME Init PROVE AuthInv
  OBVIOUS
<1>1. TypeOK
  BY Lengths DEF Init, TypeOK, Sending
<1> QED
  BY <1>1 DEF Init, AuthInv, CacheSound, InTime, LifeLeft, Sending, RefreshesSpaced

LEMMA AuthNext == AuthInv /\ [Next]_vars => AuthInv'
<1> SUFFICES ASSUME AuthInv, [Next]_vars PROVE AuthInv'
  OBVIOUS
<1> USE Lengths DEF AuthInv, TypeOK, Sending
<1>1. ASSUME NEW c \in Callers, Call(c) PROVE AuthInv'
  <2> USE <1>1 DEF Call, Move
  <2>1. TypeOK'
    OBVIOUS
  <2>2. CacheSound' /\ InTime' /\ LifeLeft' /\ RefreshesSpaced'
    BY DEF CacheSound, InTime, LifeLeft, RefreshesSpaced
  <2> QED
    BY <2>1, <2>2
<1>2. ASSUME NEW c \in Callers, Lock(c) PROVE AuthInv'
  <2>1. CASE Fresh /\ Hand(c, expiresAt, "sending") /\ UNCHANGED <<lock, now, expiresAt, renewed>>
    <3> USE <2>1, <1>2 DEF Lock, Fresh, Hand, Move
    <3>1. TypeOK'
      OBVIOUS
    <3>2. CacheSound' /\ InTime'
      BY DEF CacheSound, InTime
    <3>3. LifeLeft'
      BY DEF LifeLeft
    <3>4. RefreshesSpaced'
      BY DEF RefreshesSpaced
    <3> QED
      BY <3>1, <3>2, <3>3, <3>4
  <2>2. CASE /\ ~Fresh /\ Move(c, "refreshing") /\ lock' = c
             /\ UNCHANGED <<header, now, expiresAt, renewed>>
    <3> USE <2>2, <1>2 DEF Lock, Move
    <3>1. TypeOK'
      OBVIOUS
    <3>2. CacheSound' /\ InTime' /\ LifeLeft'
      BY DEF CacheSound, InTime, LifeLeft
    <3>3. RefreshesSpaced'
      BY DEF RefreshesSpaced, CacheSound, Fresh
    <3> QED
      BY <3>1, <3>2, <3>3
  <2> QED
    BY <1>2, <2>1, <2>2 DEF Lock
<1>3. ASSUME NEW c \in Callers, Renew(c) PROVE AuthInv'
  <2>1. PICK issued \in at[c] .. now :
          expiresAt' = issued + TokenLife /\ Hand(c, issued + TokenLife, "sending")
    BY <1>3 DEF Renew
  <2>2. now <= issued + InstallTimeout /\ issued \in Nat
    BY <1>3, <2>1 DEF InTime, Renew
  <2> USE <1>3, <2>1, <2>2 DEF Renew, Hand, Move
  <2>3. TypeOK'
    OBVIOUS
  <2>4. CacheSound'
    BY DEF CacheSound
  <2>5. InTime'
    BY DEF InTime
  <2>6. LifeLeft'
    BY DEF LifeLeft
  <2>7. RefreshesSpaced'
    BY DEF RefreshesSpaced
  <2> QED
    BY <2>3, <2>4, <2>5, <2>6, <2>7
<1>4. ASSUME NEW c \in Callers, RefreshFails(c) PROVE AuthInv'
  <2>1. CASE now < expiresAt /\ Hand(c, expiresAt, "fallback")
    <3> USE <1>4, <2>1 DEF RefreshFails, Hand, Move
    <3>1. TypeOK'
      OBVIOUS
    <3>2. CacheSound' /\ InTime' /\ LifeLeft' /\ RefreshesSpaced'
      BY DEF CacheSound, InTime, LifeLeft, RefreshesSpaced
    <3> QED
      BY <3>1, <3>2
  <2>2. CASE Leave(c)
    <3> USE <1>4, <2>2 DEF RefreshFails, Leave
    <3>1. TypeOK'
      OBVIOUS
    <3>2. CacheSound' /\ InTime' /\ LifeLeft' /\ RefreshesSpaced'
      BY DEF CacheSound, InTime, LifeLeft, RefreshesSpaced
    <3> QED
      BY <3>1, <3>2
  <2> QED
    BY <1>4, <2>1, <2>2 DEF RefreshFails
<1>5. ASSUME NEW c \in Callers, Answered(c) PROVE AuthInv'
  <2> USE <1>5 DEF Answered, Leave
  <2>1. TypeOK'
    OBVIOUS
  <2>2. CacheSound' /\ InTime' /\ LifeLeft' /\ RefreshesSpaced'
    BY DEF CacheSound, InTime, LifeLeft, RefreshesSpaced
  <2> QED
    BY <2>1, <2>2
<1>6. CASE Tick
  <2> USE <1>6 DEF Tick
  <2>1. TypeOK'
    OBVIOUS
  <2>2. CacheSound' /\ InTime' /\ LifeLeft' /\ RefreshesSpaced'
    BY DEF CacheSound, InTime, LifeLeft, RefreshesSpaced
  <2> QED
    BY <2>1, <2>2
<1>7. CASE TimeOver \/ UNCHANGED vars
  BY <1>7 DEF TimeOver, vars, CacheSound, InTime, LifeLeft, RefreshesSpaced
<1> QED
  BY <1>1, <1>2, <1>3, <1>4, <1>5, <1>6, <1>7 DEF Next

LEMMA AuthAlways == Spec => []AuthInv
BY AuthStart, AuthNext, PTL DEF Spec

\* The state is well typed, one caller at a time refreshes, and a header is set
\* exactly while a request is on its way.
THEOREM AuthTypeCorrect == Spec => []TypeOK
<1>1. AuthInv => TypeOK
  BY DEF AuthInv
<1> QED
  BY <1>1, AuthAlways, PTL

\* SetAuth never hands out a token that has expired, by whichever of its three ways.
THEOREM TokensValid == Spec => []HandedValid
<1>1. AuthInv => HandedValid
  <2> SUFFICES ASSUME AuthInv, NEW c \in Callers, pc[c] \in Sending, at[c] = now
               PROVE  header[c] > now
    BY DEF HandedValid
  <2> QED
    BY Lengths DEF AuthInv, LifeLeft, TypeOK, Sending
<1> QED
  BY <1>1, AuthAlways, PTL

\* The refresh margin covers the request that follows: a token that is not a
\* fallback outlives it.
THEOREM MarginCoversRequest == Spec => []OutlivesRequest
<1>1. AuthInv => OutlivesRequest
  <2> SUFFICES ASSUME AuthInv, NEW c \in Callers, pc[c] = "sending"
               PROVE  header[c] > now
    BY DEF OutlivesRequest
  <2> QED
    BY Lengths DEF AuthInv, LifeLeft, InTime, TypeOK, Sending
<1> QED
  BY <1>1, AuthAlways, PTL

\* Queueing callers do not refresh one after the other once a refresh has succeeded.
THEOREM NoNeedlessRefresh == Spec => []RefreshesSpaced
<1>1. AuthInv => RefreshesSpaced
  BY DEF AuthInv
<1> QED
  BY <1>1, AuthAlways, PTL
=============================================================================
