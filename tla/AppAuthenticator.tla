-------------------------- MODULE AppAuthenticator --------------------------
(***************************************************************************)
(* The GitHub App authenticator (internal/github/auth.go): one cached      *)
(* installation token, shared by every caller of SetAuth.  The loops of    *)
(* all projects, their retry callbacks and the pings of /health are such   *)
(* callers.  The mutex is held while a token is fetched.                   *)
(*                                                                         *)
(* A token is represented by the time it expires, in the same unit as the  *)
(* clock.  A caller is followed until the request it wanted to send has    *)
(* been answered.                                                          *)
(***************************************************************************)
EXTENDS Integers, FiniteSets

CONSTANTS
  Callers,
  NoCaller,
  TokenLife,      \* GitHub: lifetime of an installation token, one hour
  Margin,         \* tokenRefreshMargin, 5 minutes
  InstallTimeout, \* installTokenTimeout, 30 seconds
  RequestTimeout, \* defaultHTTPTimeout of the caller's request, 30 seconds
  MaxTime         \* bound: the clock stops here

ASSUME AuthAssumption ==
  /\ NoCaller \notin Callers
  /\ {TokenLife, Margin, InstallTimeout, RequestTimeout, MaxTime} \subseteq Nat
  /\ Margin > RequestTimeout
  /\ TokenLife > InstallTimeout + RequestTimeout

VARIABLES
  now,       \* time.Now()
  expiresAt, \* the cached token, 0 = none
  renewed,   \* when the cached token arrived, 0 = never
  lock,      \* holder of mu, or NoCaller
  pc,        \* caller -> where it is
  at,        \* caller -> when it got there
  header     \* caller -> the token in its Authorization header, 0 = none

vars == <<now, expiresAt, renewed, lock, pc, at, header>>

\* "fallback" sends with the old token because the refresh has failed.
Sending == {"sending", "fallback"}

TypeOK ==
  /\ now \in Nat \ {0} /\ expiresAt \in Nat /\ renewed \in Nat
  /\ lock \in Callers \cup {NoCaller}
  /\ pc \in [Callers -> {"idle", "waiting", "refreshing"} \cup Sending]
  /\ at \in [Callers -> 0 .. now]
  /\ header \in [Callers -> Nat]
  /\ \A c \in Callers : (pc[c] = "refreshing" <=> lock = c) /\ (header[c] # 0 <=> pc[c] \in Sending)

Init ==
  /\ now = 1 /\ expiresAt = 0 /\ renewed = 0
  /\ lock = NoCaller
  /\ pc = [c \in Callers |-> "idle"]
  /\ at = [c \in Callers |-> 0]
  /\ header = [c \in Callers |-> 0]

-----------------------------------------------------------------------------

Move(c, place) == pc' = [pc EXCEPT ![c] = place] /\ at' = [at EXCEPT ![c] = now]

\* The call is over.
Leave(c) ==
  /\ pc' = [pc EXCEPT ![c] = "idle"]
  /\ at' = [at EXCEPT ![c] = 0]
  /\ header' = [header EXCEPT ![c] = 0]

Hand(c, token, place) == header' = [header EXCEPT ![c] = token] /\ Move(c, place)

\* Mutant: the margin is taken on the wrong side of the expiry.
Fresh_LateMargin == expiresAt # 0 /\ now <= expiresAt + Margin

Fresh == expiresAt # 0 /\ now <= expiresAt - Margin

Call(c) ==
  /\ pc[c] = "idle"
  /\ Move(c, "waiting")
  /\ UNCHANGED <<now, expiresAt, renewed, lock, header>>

\* Mutant: the decision to refresh was taken before the lock was, as in a check
\* outside the critical section.
Lock_StaleCheck(c) ==
  /\ pc[c] = "waiting" /\ lock = NoCaller
  /\ \/ Fresh /\ Hand(c, expiresAt, "sending") /\ UNCHANGED lock
     \/ ~Fresh /\ Move(c, "refreshing") /\ lock' = c /\ UNCHANGED header
     \/ /\ at[c] > expiresAt - Margin \/ at[c] < renewed
        /\ Move(c, "refreshing") /\ lock' = c /\ UNCHANGED header
  /\ UNCHANGED <<now, expiresAt, renewed>>

\* SetAuth gets the mutex: with a fresh token it is through, otherwise it refreshes.
Lock(c) ==
  /\ pc[c] = "waiting" /\ lock = NoCaller
  /\ \/ Fresh /\ Hand(c, expiresAt, "sending") /\ UNCHANGED lock
     \/ ~Fresh /\ Move(c, "refreshing") /\ lock' = c /\ UNCHANGED header
  /\ UNCHANGED <<now, expiresAt, renewed>>

\* refreshToken succeeds: the token was issued some time during the request.
Renew(c) ==
  /\ pc[c] = "refreshing"
  /\ \E issued \in at[c] .. now :
       expiresAt' = issued + TokenLife /\ Hand(c, issued + TokenLife, "sending")
  /\ renewed' = now
  /\ lock' = NoCaller
  /\ UNCHANGED now

\* Mutants: the old token is tested against the time the refresh began; a failed
\* refresh returns without unlocking.
RefreshFails_OldTime(c) ==
  /\ pc[c] = "refreshing"
  /\ \/ expiresAt # 0 /\ at[c] < expiresAt /\ Hand(c, expiresAt, "fallback")
     \/ (expiresAt = 0 \/ at[c] >= expiresAt) /\ Leave(c)
  /\ lock' = NoCaller
  /\ UNCHANGED <<now, expiresAt, renewed>>
RefreshFails_KeepsLock(c) ==
  /\ pc[c] = "refreshing"
  /\ Leave(c)
  /\ UNCHANGED <<now, expiresAt, renewed, lock>>

\* refreshToken fails: timeout, refusal, or the caller's context is cancelled.  The
\* old token serves as long as it is valid; otherwise SetAuth returns the error.
RefreshFails(c) ==
  /\ pc[c] = "refreshing"
  /\ \/ expiresAt # 0 /\ now < expiresAt /\ Hand(c, expiresAt, "fallback")
     \/ (expiresAt = 0 \/ now >= expiresAt) /\ Leave(c)
  /\ lock' = NoCaller
  /\ UNCHANGED <<now, expiresAt, renewed>>

\* The caller's request has been answered, or has timed out.
Answered(c) ==
  /\ pc[c] \in Sending
  /\ Leave(c)
  /\ UNCHANGED <<now, expiresAt, renewed, lock>>

\* Neither a refresh nor a request outlives its timeout.
Tick ==
  /\ now < MaxTime
  /\ \A c \in Callers :
       /\ pc[c] = "refreshing" => now < at[c] + InstallTimeout
       /\ pc[c] \in Sending => now < at[c] + RequestTimeout
  /\ now' = now + 1
  /\ UNCHANGED <<expiresAt, renewed, lock, pc, at, header>>

TimeOver == now = MaxTime /\ UNCHANGED vars

Next ==
  \/ \E c \in Callers : Call(c) \/ Lock(c) \/ Renew(c) \/ RefreshFails(c) \/ Answered(c)
  \/ Tick \/ TimeOver

Spec == Init /\ [][Next]_vars

\* A refresh ends, by its timeout at the latest, and the mutex starves nobody.
Fairness ==
  \A c \in Callers : SF_vars(Lock(c)) /\ WF_vars(Renew(c) \/ RefreshFails(c))

FairSpec == Spec /\ Fairness

-----------------------------------------------------------------------------
(* Properties *)

\* No caller is handed a token that has expired by then, however long the refresh
\* took and whichever way it ended.
HandedValid == \A c \in Callers : pc[c] \in Sending /\ at[c] = now => header[c] > now

\* A request is still authorised when it reaches GitHub, at any time before it times
\* out: the margin covers it, unless the token is an old one used as fallback.
OutlivesRequest == \A c \in Callers : pc[c] = "sending" => header[c] > now

\* Callers that queue while one of them refreshes do not refresh again: after a
\* success the next refresh starts only when the new token comes near its end.
RefreshesSpaced ==
  \A c \in Callers :
    pc[c] = "refreshing" /\ renewed # 0 => at[c] > renewed + TokenLife - InstallTimeout - Margin

\* Every call of SetAuth returns, however many callers queue and refreshes fail.
CallReturns == \A c \in Callers : pc[c] = "waiting" ~> pc[c] \in Sending \cup {"idle"}

=============================================================================
