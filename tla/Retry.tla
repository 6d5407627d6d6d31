-------------------------------- MODULE Retry --------------------------------
(***************************************************************************)
(* Retry policies and backoff curves (core/src/retry.rs), and the pacing   *)
(* of reconnects that uses the same curves (rabbitmq/src/reconnect.rs).    *)
(*                                                                         *)
(* A Duration is a natural number of milliseconds; what is below one is    *)
(* cut off.  An f64 factor is a fraction <<num, den>>: a numerator that is *)
(* not positive stands for zero and negative factors, a denominator zero   *)
(* for infinity and NaN.  The result of a jittered curve is random, so a   *)
(* delay is the interval of what may be drawn.                             *)
(***************************************************************************)
EXTENDS Integers

Exactly(d) == [least |-> d, most |-> d]

\* Backoff
NoBackoff    == [kind |-> "none"]
Fixed(delay) == [kind |-> "fixed", delay |-> delay]
exponential_with(base, factor, max, jitter) ==
  [kind |-> "exponential", base |-> base, factor |-> factor, max |-> max, jitter |-> jitter]

\* Backoff::exponential: 1s, doubled, at most 5 minutes, jittered.
DefaultCurve == exponential_with(1000, <<2, 1>>, 300000, TRUE)

\* A factor a curve can grow or shrink by; any other makes it constant.
Usable(factor) == factor[1] > 0 /\ factor[2] > 0

\* The factor is multiplied up, which a fraction does without rounding.
power(n, exponent) ==
  LET to[i \in 0..exponent] == IF i = 0 THEN 1 ELSE n * to[i - 1]
  IN  to[exponent]

\* Faulty variant: the cap is forgotten.
UncappedDelay(base, factor, max, failed_attempt) ==
  LET exponent == (IF failed_attempt = 0 THEN 1 ELSE failed_attempt) - 1
      ratio    == IF Usable(factor) THEN factor ELSE <<1, 1>>
  IN  (base * power(ratio[1], exponent)) \div power(ratio[2], exponent)

\* min(max, base * factor^(failed_attempt - 1)).  The fraction is exact where the
\* code saturates an f64 that overflows; both end at max.
exponential_delay(base, factor, max, failed_attempt) ==
  LET exponent == (IF failed_attempt = 0 THEN 1 ELSE failed_attempt) - 1
      ratio    == IF Usable(factor) THEN factor ELSE <<1, 1>>
      computed == (base * power(ratio[1], exponent)) \div power(ratio[2], exponent)
  IN  IF base = 0 \/ max = 0 THEN 0 ELSE IF computed > max THEN max ELSE computed

full_jitter(delay) == [least |-> 0, most |-> delay]

compute_delay(backoff, failed_attempt) ==
  CASE backoff.kind = "none"  -> Exactly(0)
    [] backoff.kind = "fixed" -> Exactly(backoff.delay)
    [] backoff.kind = "exponential" ->
         LET computed == exponential_delay(backoff.base, backoff.factor, backoff.max,
                                           failed_attempt)
         IN  IF backoff.jitter THEN full_jitter(computed) ELSE Exactly(computed)

\* RetryPolicy
RetryPolicy(max_attempts, backoff) == [max_attempts |-> max_attempts, backoff |-> backoff]
RetryPolicies ==
  [max_attempts : Nat,
   backoff : {NoBackoff} \cup [kind : {"fixed"}, delay : Nat]
               \cup [kind : {"exponential"}, base : Nat, factor : Int \X Int, max : Nat,
                     jitter : BOOLEAN]]

NoRetries                   == RetryPolicy(1, NoBackoff)
exponential(max_attempts)   == RetryPolicy(max_attempts, DefaultCurve)
fixed(max_attempts, delay)  == RetryPolicy(max_attempts, Fixed(delay))

\* RetryDecision: GiveUp, or Retry with the delay of the curve.
GiveUp       == [gives_up |-> TRUE]
Retry(delay) == [gives_up |-> FALSE, delay |-> delay]

decide(policy, failed_attempt) ==
  IF failed_attempt >= policy.max_attempts THEN GiveUp
  ELSE Retry(compute_delay(policy.backoff, failed_attempt))

-----------------------------------------------------------------------------
(***************************************************************************)
(* ReconnectPolicy.  An attempt is the number of consecutive failures      *)
(* before it; max_attempts is a set of at most one limit (an Option).      *)
(***************************************************************************)
BackoffPolicy(max_attempts, backoff) == [max_attempts |-> max_attempts, backoff |-> backoff]

\* 500ms, doubled, at most 30s, jittered, for ever.
default_policy == BackoffPolicy({}, exponential_with(500, <<2, 1>>, 30000, TRUE))

\* The delay before an attempt; the empty set gives up.
next_delay(policy, failures) ==
  IF \E limit \in policy.max_attempts : failures >= limit THEN {}
  ELSE IF failures = 0 THEN {Exactly(0)}
  ELSE {compute_delay(policy.backoff, failures)}
=============================================================================
