---------------------------- MODULE BackoffProofs ----------------------------
(***************************************************************************)
(* The delays of module Backoff, for any number of attempts.               *)
(***************************************************************************)
EXTENDS Backoff, TLAPS

LEMMA BaseDelays ==
  ASSUME NEW n \in Nat \ {0}
  PROVE  calcRetryDelay(n) = IF n = 1 THEN 10000 ELSE IF n = 2 THEN 20000
           ELSE IF n = 3 THEN 40000 ELSE IF n = 4 THEN 80000 ELSE IF n = 5 THEN 160000 ELSE 300000
<1>1. ASSUME n > 5 PROVE calcRetryDelay(n) = 300000
  <2>1. AtMost(n - 1, retryMaxExponent) = 5
    BY <1>1, SMT DEF AtMost, retryMaxExponent
  <2>2. calcRetryDelay(n) = AtMost(10000 * Shifted(5), 300000)
    BY <2>1, SMT DEF calcRetryDelay, retryBaseDelayMS, retryMaxDelayMS
  <2>3. Shifted(5) = 32
    BY SMT DEF Shifted
  <2> QED
    BY <2>2, <2>3, SMT DEF AtMost
<1>2. ASSUME n \in 1 .. 5 PROVE calcRetryDelay(n) = AtMost(10000 * Shifted(n - 1), 300000)
  <2>1. AtMost(n - 1, retryMaxExponent) = n - 1
    BY <1>2, SMT DEF AtMost, retryMaxExponent
  <2> QED
    BY <2>1, SMT DEF calcRetryDelay, retryBaseDelayMS, retryMaxDelayMS
<1>3. Shifted(0) = 1 /\ Shifted(1) = 2 /\ Shifted(2) = 4 /\ Shifted(3) = 8 /\ Shifted(4) = 16
  BY SMT DEF Shifted
<1>4. n > 5 \/ n = 1 \/ n = 2 \/ n = 3 \/ n = 4 \/ n = 5
  BY SMT
<1> QED
  BY <1>1, <1>2, <1>3, <1>4, SMT DEF AtMost

\* The range of the delays of one attempt.
LEMMA JitterRange ==
  ASSUME NEW n \in Nat \ {0}, NEW d \in addJitter(calcRetryDelay(n))
  PROVE  /\ d \in Nat \ {0} /\ d <= 300000
         /\ 100 * d >= 75 * calcRetryDelay(n)
         /\ 100 * d <= 124 * calcRetryDelay(n)
<1>1. PICK f \in 75 .. 124 : d = AtMost((calcRetryDelay(n) * f) \div 100, 300000)
  BY SMT DEF addJitter, Factors, retryMaxDelayMS
<1>2. ASSUME NEW b \in {10000, 20000, 40000, 80000, 160000, 300000}, calcRetryDelay(n) = b
      PROVE  /\ d \in Nat \ {0} /\ d <= 300000
             /\ 100 * d >= 75 * b /\ 100 * d <= 124 * b
  <2>1. d = AtMost((b * f) \div 100, 300000)
    BY <1>1, <1>2, SMT
  <2>2. (b * f) \div 100 = (b \div 100) * f
    BY <1>2, SMT
  <2> QED
    BY <1>2, <2>1, <2>2, SMT DEF AtMost
<1>3. calcRetryDelay(n) \in {10000, 20000, 40000, 80000, 160000, 300000}
  BY BaseDelays, SMT
<1> QED
  BY <1>2, <1>3, SMT

\* For every attempt the jittered delay is positive, at most the maximum, and within a
\* quarter of the delay without jitter.
THEOREM DelaysNearFormula == \A n \in Nat \ {0} : NearFormula(n)
<1> SUFFICES ASSUME NEW n \in Nat \ {0}, NEW d \in addJitter(calcRetryDelay(n))
             PROVE  /\ 0 < d /\ d <= retryMaxDelayMS
                    /\ 100 * d >= 75 * calcRetryDelay(n) /\ 100 * d < 125 * calcRetryDelay(n)
  BY DEF NearFormula, Delays
<1>1. /\ d \in Nat \ {0} /\ d <= 300000
      /\ 100 * d >= 75 * calcRetryDelay(n) /\ 100 * d <= 124 * calcRetryDelay(n)
  BY JitterRange
<1>2. calcRetryDelay(n) \in Nat \ {0}
  BY BaseDelays, SMT
<1> QED
  BY <1>1, <1>2, SMT DEF retryMaxDelayMS

\* For every attempt the next one waits longer, jitter or not, until the delays come
\* near the maximum.
THEOREM DelaysGrow == \A n \in Nat \ {0} : Grows(n)
<1> SUFFICES ASSUME NEW n \in Nat \ {0},
                    NEW d \in addJitter(calcRetryDelay(n)),
                    NEW later \in addJitter(calcRetryDelay(n + 1))
             PROVE  later > d \/ 100 * later >= 75 * retryMaxDelayMS
  BY DEF Grows, Delays
<1>1. n + 1 \in Nat \ {0}
  BY SMT
<1>2. /\ d \in Nat /\ 100 * d <= 124 * calcRetryDelay(n)
      /\ later \in Nat /\ 100 * later >= 75 * calcRetryDelay(n + 1)
  BY <1>1, JitterRange, SMT
<1>3. CASE n >= 5
  <2>1. calcRetryDelay(n + 1) = 300000
    BY <1>1, <1>3, BaseDelays, SMT
  <2>2. 75 * calcRetryDelay(n + 1) = 75 * retryMaxDelayMS
    BY <2>1, SMT DEF retryMaxDelayMS
  <2> QED
    BY <1>2, <2>2, SMT
<1>4. CASE n < 5
  <2>1. calcRetryDelay(n + 1) = 2 * calcRetryDelay(n) /\ calcRetryDelay(n) \in Nat \ {0}
    BY <1>1, <1>4, BaseDelays, SMT
  <2> QED
    BY <1>2, <2>1, SMT
<1> QED
  BY <1>3, <1>4
=============================================================================
