------------------------------ MODULE Backoff ------------------------------
(***************************************************************************)
(* How long a retry waits: calcRetryDelay and addJitter in milliseconds    *)
(* (internal/orchestrator/orchestrator.go).  Module Orchestrator lets its  *)
(* timers expire at any time; these are the times.                         *)
(***************************************************************************)
EXTENDS Integers

retryBaseDelayMS == 10000
retryMaxDelayMS == 300000
retryMaxExponent == 5

AtMost(n, bound) == IF n > bound THEN bound ELSE n

\* 1 << exp; a negative count panics.
Shifted(exp) == <<1, 2, 4, 8, 16, 32>>[exp + 1]

calcRetryDelay(n) ==
  AtMost(retryBaseDelayMS * Shifted(AtMost(n - 1, retryMaxExponent)), retryMaxDelayMS)

\* 0.75 + rand * 0.5, in per cent.
Factors == 75 .. 124

addJitter(base) == {AtMost((base * f) \div 100, retryMaxDelayMS) : f \in Factors}

Delays(n) == addJitter(calcRetryDelay(n))

-----------------------------------------------------------------------------

\* SPEC.md section 8.4, docs/flow.md:87.
Documented(n) == AtMost(retryBaseDelayMS * 2^(n - 1), retryMaxDelayMS)

\* The two caps of calcRetryDelay, on the exponent and on the delay, agree with the
\* documented formula, which has the second one only.
FollowsFormula(n) == calcRetryDelay(n) = Documented(n)

\* The jitter keeps a delay within a quarter of the formula, and positive.
NearFormula(n) ==
  \A d \in Delays(n) :
    /\ 0 < d /\ d <= retryMaxDelayMS
    /\ 100 * d >= 75 * calcRetryDelay(n) /\ 100 * d < 125 * calcRetryDelay(n)

\* The jitter never undoes the back-off: a retry waits longer than the one before,
\* until the delays come near the maximum.
Grows(n) ==
  \A d \in Delays(n), later \in Delays(n + 1) :
    later > d \/ 100 * later >= 75 * retryMaxDelayMS

=============================================================================
