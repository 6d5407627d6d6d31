-------------------------------- MODULE Delays --------------------------------
(***************************************************************************)
(* The arithmetic behind a hold queue (rabbitmq/src/topology.rs): which    *)
(* TTL a delay is rounded to, and when the broker deletes the queue.       *)
(*                                                                         *)
(* A Duration is a number of units of which PerMs make a millisecond (in   *)
(* the code a million nanoseconds).  The u128 arithmetic cannot overflow   *)
(* for any Duration, so plain naturals do.                                 *)
(***************************************************************************)
EXTENDS Naturals

CONSTANTS
  PerMs,      \* units of a Duration in a millisecond
  MAX_TTL_MS  \* what the broker takes at most: u32::MAX

ASSUME DelaysAssumption ==
  /\ PerMs \in Nat \ {0}
  /\ MAX_TTL_MS \in Nat \ {0, 1}

MAX_DEFERRAL_MS == MAX_TTL_MS \div 2

\* The TTLs a hold queue can have, and what deferred_ttl_ms answers otherwise.
Ttls == 1..MAX_DEFERRAL_MS
TooLong == 0

DivCeil(a, b) == (a + b - 1) \div b

Clamp(n, low, high) == IF n < low THEN low ELSE IF n > high THEN high ELSE n

millis_ceil(duration) == DivCeil(duration, PerMs)

\* The step a delay is rounded up to: at least a millisecond, and never more than
\* the longest hold.
Step(granularity) == Clamp(millis_ceil(granularity), 1, MAX_DEFERRAL_MS)

\* Faulty variant: a delay past the cap is shortened instead of refused.
ClampedTtl(delay, granularity) ==
  LET step == Step(granularity)
  IN  Clamp(DivCeil(millis_ceil(delay), step) * step, step, MAX_DEFERRAL_MS)

\* A whole number of steps, at least one, or TooLong.
deferred_ttl_ms(delay, granularity) ==
  LET step == Step(granularity)
      up   == DivCeil(millis_ceil(delay), step) * step
      ttl  == IF up < step THEN step ELSE up
  IN  IF ttl <= MAX_DEFERRAL_MS THEN ttl ELSE TooLong

\* x-expires among the arguments of deferred_queue_args.  The others (x-message-ttl,
\* the dead-letter target) are the TTL itself and the queue the message returns to.
Expires(ttl_ms) == Clamp(2 * ttl_ms, 0, MAX_TTL_MS)
=============================================================================
