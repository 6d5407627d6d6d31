----------------------------- MODULE DelaysProofs -----------------------------
(***************************************************************************)
(* What Delays computes, for every delay, granularity and bound.           *)
(***************************************************************************)
EXTENDS Delays, TLAPS

\* Rounding up to a multiple of b covers a (div_ceil in deferred_ttl_ms and
\* millis_ceil).
LEMMA DivCeilCovers ==
  ASSUME NEW a \in Nat, NEW b \in Nat \ {0}
  PROVE  DivCeil(a, b) \in Nat /\ a <= b * DivCeil(a, b)
<1> DEFINE n == a + b - 1
           q == n \div b
<1>1. n \in Nat
  OBVIOUS
<1>2. q \in Nat /\ n = b * q + (n % b) /\ n % b \in 0..(b - 1)
  BY <1>1, SMT
<1>3. QED
  BY <1>1, <1>2, SMT DEF DivCeil

\* The step is a TTL a hold queue can have, for a granularity of zero or an absurd
\* one too (the clamp in deferred_ttl_ms), so that nothing is divided by zero.
LEMMA StepBounds ==
  ASSUME NEW g \in Nat
  PROVE  Step(g) \in Ttls
<1>1. MAX_DEFERRAL_MS \in Nat \ {0}
  BY DelaysAssumption, SMT DEF MAX_DEFERRAL_MS
<1>2. millis_ceil(g) \in Nat
  BY DivCeilCovers, DelaysAssumption DEF millis_ceil
<1>3. QED
  BY <1>1, <1>2, SMT DEF Step, Clamp, Ttls

\* deferred_ttl_ms never shortens a delay: what it does not refuse becomes a TTL of
\* at least that length, at every granularity, and one the broker takes.
THEOREM NeverShortened ==
  ASSUME NEW delay \in Nat, NEW granularity \in Nat,
         deferred_ttl_ms(delay, granularity) # TooLong
  PROVE  /\ deferred_ttl_ms(delay, granularity) \in Ttls
         /\ delay <= PerMs * deferred_ttl_ms(delay, granularity)
<1> DEFINE step == Step(granularity)
           ms   == millis_ceil(delay)
           up   == DivCeil(ms, step) * step
           ttl  == IF up < step THEN step ELSE up
<1>1. step \in Nat \ {0} /\ step <= MAX_DEFERRAL_MS /\ MAX_DEFERRAL_MS \in Nat
  BY StepBounds, DelaysAssumption, SMT DEF Ttls, MAX_DEFERRAL_MS
<1>2. ms \in Nat /\ delay <= PerMs * ms
  BY DivCeilCovers, DelaysAssumption DEF millis_ceil
<1>3. up \in Nat /\ ms <= up
  <2>1. DivCeil(ms, step) \in Nat /\ ms <= step * DivCeil(ms, step)
    BY <1>1, <1>2, DivCeilCovers
  <2> HIDE DEF ms, step
  <2>2. step * DivCeil(ms, step) = DivCeil(ms, step) * step
        /\ DivCeil(ms, step) * step \in Nat
    BY <1>1, <2>1, SMT
  <2>3. QED
    BY <2>1, <2>2
<1>4. deferred_ttl_ms(delay, granularity) = ttl /\ ttl <= MAX_DEFERRAL_MS
  BY DEF deferred_ttl_ms
<1> HIDE DEF up, ms, step
<1>5. ttl \in Ttls /\ ms <= ttl
  BY <1>1, <1>2, <1>3, <1>4, SMT DEF Ttls
<1> HIDE DEF ttl
<1>6. PerMs * ms <= PerMs * ttl
  BY <1>2, <1>5, DelaysAssumption, SMT DEF Ttls, MAX_DEFERRAL_MS
<1>7. delay <= PerMs * ttl
  BY <1>1, <1>2, <1>5, <1>6, DelaysAssumption, SMT DEF Ttls
<1> QED
  BY <1>4, <1>5, <1>7

\* The clamp in deferred_queue_args never bites: x-expires is twice the TTL for every
\* TTL deferred_ttl_ms can return, and within what the broker takes.
THEOREM ExpiryAfterTtl ==
  ASSUME NEW t \in Ttls
  PROVE  Expires(t) = 2 * t /\ Expires(t) <= MAX_TTL_MS
BY DelaysAssumption, SMT DEF Ttls, Expires, Clamp, MAX_DEFERRAL_MS
=============================================================================
