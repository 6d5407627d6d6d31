------------------------------ MODULE Envelopes ------------------------------
(***************************************************************************)
(* The wire envelope of a job (core/src/envelope.rs), reduced to the       *)
(* fields that scheduling decisions read: which job it is, which attempt,  *)
(* how often the job deferred itself, and the priority it is queued with.  *)
(***************************************************************************)
EXTENDS Naturals

CONSTANTS
  Jobs,          \* job identities (Envelope::job_id)
  MaxAttempts,   \* bound on Envelope::attempt
  MaxDeferrals,  \* bound on Envelope::deferrals
  MaxPriority    \* QueueConfig::max_priority of the queue, 0 when it is None

ASSUME EnvelopeAssumption ==
  /\ MaxAttempts \in Nat \ {0}
  /\ MaxDeferrals \in Nat
  /\ MaxPriority \in 0..255

Envelope ==
  [job       : Jobs,
   attempt   : 1..MaxAttempts,
   deferrals : 0..MaxDeferrals,
   priority  : {0, MaxPriority}]

\* Envelope::new: first attempt, never deferred, lowest priority.
NewEnvelope(j) == [job |-> j, attempt |-> 1, deferrals |-> 0, priority |-> 0]

\* Producer::enqueue_with, Schedule::Deferred: a first attempt that is queued at
\* the queue's top priority.
NewDeferred(j) ==
  [job |-> j, attempt |-> 1, deferrals |-> 0, priority |-> MaxPriority]

\* Envelope::next_attempt: the retry of a failed attempt joins the back of the
\* backlog again, whatever priority the failed attempt was queued with.
NextAttempt(e) == [e EXCEPT !.attempt = @ + 1, !.priority = 0]

\* Envelope::deferred(max_priority.unwrap_or(0)): not an attempt.
Deferred(e) == [e EXCEPT !.deferrals = @ + 1, !.priority = MaxPriority]

=============================================================================
