---------------------------- MODULE MemoryBackend ----------------------------
(***************************************************************************)
(* The in-memory backend (core/src/memory.rs): one named queue of it, with *)
(* the consumers, timers and callers that work on it concurrently.  Queues *)
(* share nothing but the `closed` flag, so one queue is the whole story.   *)
(*                                                                         *)
(* One action is one critical section of the shared mutex, or one step of  *)
(* a task between two of them.  Whatever the code reads under one lock and *)
(* uses under another is therefore interleaved with everything else.       *)
(***************************************************************************)
EXTENDS Envelopes, Sequences, FiniteSets

CONSTANTS
  Consumers,     \* calls of Backend::consume, each with its stream and its task
  Prefetch,      \* QueueConfig::prefetch, 0 for "unlimited"
  MAX_PERMITS,   \* Semaphore::MAX_PERMITS
  NoEnvelope     \* "nothing in hand"

ASSUME MemoryAssumption ==
  /\ Prefetch \in Nat
  /\ MAX_PERMITS \in Nat \ {0}
  /\ NoEnvelope \notin Envelope

VARIABLES
  \* Shared and QueueState: everything under the mutex
  closed,     \* Shared::closed
  pending,    \* QueueState::pending
  settled,    \* QueueState::settled: [env, kind]
  dead,       \* QueueState::dead
  consumers,  \* QueueState::consumers: whose semaphore is registered
  held,       \* QueueState::held
  signal,     \* QueueState::signal: the receivers that have an unseen change
  \* one consumer: its task, its channel and its semaphore
  pc,         \* where consumer_loop is
  hand,       \* the envelope consumer_loop popped and has not sent yet
  chan,       \* the mpsc channel: produced for the stream, not yet read
  rx,         \* the DeliveryReceiver: "none", "open" or "dropped"
  unread,     \* DeliveryReceiver::drop: drained, not yet requeued
  permits,    \* available permits of the prefetch semaphore
  semClosed,  \* the semaphores close() closed
  \* callers and spawned tasks
  calls,      \* publish / defer calls past their closed check
  out,        \* MemoryDelivery values handed out and not settled
  timers,     \* spawned sleep tasks of schedule and hold
  \* what the properties talk about
  accepted,   \* jobs whose publish or defer returned Ok
  gone        \* copies that left the backend unsettled, and why

sharedVars   == <<closed, pending, settled, dead, consumers, held, signal>>
consumerVars == <<pc, hand, chan, rx, unread, permits, semClosed>>
callerVars   == <<calls, out, timers, accepted, gone>>
vars == <<sharedVars, consumerVars, callerVars>>

AckKinds   == {"Succeeded", "Retried", "Deferred"}
ConsumerPc == {"none", "permit", "poll", "wait", "send", "ending", "ended"}
\* How far Delivery::retry / Delivery::defer has come; "held": not settling yet.
Phases     == {"held", "retry", "defer", "retried", "deferred"}
Reasons    == {"refused",    \* schedule or hold with no delay, after a close
               "expired",    \* a timer that fired after the close
               "unread",     \* unread in a stream dropped after the close
               "shutdown",   \* settling failed with ShutDown
               "unsettled"}  \* the caller dropped the delivery

Call     == [env : Envelope, hold : BOOLEAN, delay : {0, 1}]
Timer    == [env : Envelope, hold : BOOLEAN]
Delivery == [env : Envelope, consumer : Consumers, phase : Phases, delay : {0, 1}]

\* consume: the size of a consumer's prefetch window.
Permits == IF Prefetch = 0 THEN MAX_PERMITS ELSE Prefetch

Init ==
  /\ closed = FALSE
  /\ pending = <<>>
  /\ settled = {}
  /\ dead = {}
  /\ consumers = {}
  /\ held = 0
  /\ signal = {}
  /\ pc = [c \in Consumers |-> "none"]
  /\ hand = [c \in Consumers |-> NoEnvelope]
  /\ chan = [c \in Consumers |-> <<>>]
  /\ rx = [c \in Consumers |-> "none"]
  /\ unread = [c \in Consumers |-> <<>>]
  /\ permits = [c \in Consumers |-> 0]
  /\ semClosed = {}
  /\ calls = {}
  /\ out = {}
  /\ timers = {}
  /\ accepted = {}
  /\ gone = {}

-----------------------------------------------------------------------------
(***************************************************************************)
(* Helpers of QueueState.                                                  *)
(***************************************************************************)

\* insert_by_priority: e lands behind the last pending envelope that is at
\* least as important (rposition + 1), or in front when there is none.
InsertByPriority(s, e) ==
  LET Ahead(i) == \E k \in i..Len(s) : s[k].priority >= e.priority
  IN  [i \in 1..(Len(s) + 1) |->
         IF Ahead(i) THEN s[i]
         ELSE IF i = 1 \/ Ahead(i - 1) THEN e
         ELSE s[i - 1]]

\* wake: the new version differs from what every subscribed receiver has seen.
Subscribed == {c \in Consumers : pc[c] \notin {"none", "ended"}}
Wake == signal' = signal \cup Subscribed

Gone(e, why) == [env |-> e, why |-> why]

\* release_hold: saturating.
ReleaseHold(n) == IF n = 0 THEN 0 ELSE n - 1

\* Faulty variant: enqueue_now without its closed check.
EnqueueNowUnchecked(e, why) ==
  /\ pending' = InsertByPriority(pending, e)
  /\ Wake
  /\ UNCHANGED gone

\* enqueue_now, for an envelope that leaves no hold: one critical section.
EnqueueNow(e, why) ==
  \/ /\ closed
     /\ gone' = gone \cup {Gone(e, why)}
     /\ UNCHANGED <<pending, signal>>
  \/ /\ ~closed
     /\ pending' = InsertByPriority(pending, e)
     /\ Wake
     /\ UNCHANGED gone

\* schedule(envelope, delay)
Schedule(e, delay) ==
  \/ /\ delay = 0
     /\ EnqueueNow(e, "refused")
     /\ UNCHANGED <<timers, held>>
  \/ /\ delay # 0
     /\ timers' = timers \cup {[env |-> e, hold |-> FALSE]}
     /\ UNCHANGED <<pending, signal, held, gone>>

\* hold(envelope, delay): like schedule, but the wait is counted.  It does not
\* look at `closed`: a hold may begin after the close.
Hold(e, delay) ==
  \/ /\ delay = 0
     /\ EnqueueNow(e, "refused")
     /\ UNCHANGED <<timers, held>>
  \/ /\ delay # 0
     /\ held' = held + 1
     /\ timers' = timers \cup {[env |-> e, hold |-> TRUE]}
     /\ UNCHANGED <<pending, signal, gone>>

\* Faulty variant: the closed check returns before the hold is released.
TimerFiresKeepsHold(t) ==
  /\ timers' = timers \ {t}
  /\ held' = IF t.hold /\ ~closed THEN ReleaseHold(held) ELSE held
  /\ EnqueueNow(t.env, "expired")
  /\ UNCHANGED <<closed, settled, dead, consumers, calls, out, accepted>>
  /\ UNCHANGED consumerVars

\* The spawned task of schedule or hold wakes up: the hold ends in the same
\* critical section that enqueues the envelope or finds the backend closed.
TimerFires(t) ==
  /\ timers' = timers \ {t}
  /\ held' = IF t.hold THEN ReleaseHold(held) ELSE held
  /\ EnqueueNow(t.env, "expired")
  /\ UNCHANGED <<closed, settled, dead, consumers, calls, out, accepted>>
  /\ UNCHANGED consumerVars

-----------------------------------------------------------------------------
(***************************************************************************)
(* Backend::publish and Backend::defer: the closed check and the enqueue   *)
(* are two critical sections.  A call that finds the backend closed        *)
(* returns ShutDown and changes nothing, so it has no action.              *)
(***************************************************************************)

Submitted == {c.env.job : c \in calls} \cup accepted

\* publish: a first attempt, priority 0.  Producer::enqueue_with sends a
\* deferred enqueue through defer, at the queue's top priority.
PublishCheck(j, hold, delay) ==
  /\ j \notin Submitted
  /\ ~closed
  /\ calls' = calls \cup
       {[env   |-> IF hold THEN NewDeferred(j) ELSE NewEnvelope(j),
         hold  |-> hold,
         delay |-> delay]}
  /\ UNCHANGED <<out, timers, accepted, gone>>
  /\ UNCHANGED <<sharedVars, consumerVars>>

PublishFinish(call) ==
  /\ calls' = calls \ {call}
  /\ accepted' = accepted \cup {call.env.job}
  /\ IF call.hold THEN Hold(call.env, call.delay) ELSE Schedule(call.env, call.delay)
  /\ UNCHANGED <<closed, settled, dead, consumers, out>>
  /\ UNCHANGED consumerVars

\* Faulty variant: close() ends the semaphores but wakes no idle consumer.
CloseQuietly ==
  /\ closed' = TRUE
  /\ semClosed' = semClosed \cup consumers
  /\ consumers' = {}
  /\ UNCHANGED <<pending, settled, dead, held, signal>>
  /\ UNCHANGED <<pc, hand, chan, rx, unread, permits>>
  /\ UNCHANGED callerVars

\* Backend::close: one critical section, and harmless a second time.
Close ==
  /\ closed' = TRUE
  /\ semClosed' = semClosed \cup consumers
  /\ consumers' = {}
  /\ Wake
  /\ UNCHANGED <<pending, settled, dead, held>>
  /\ UNCHANGED <<pc, hand, chan, rx, unread, permits>>
  /\ UNCHANGED callerVars

-----------------------------------------------------------------------------
(***************************************************************************)
(* Backend::consume and the task it spawns.                                *)
(***************************************************************************)

\* consume: on a closed backend the stream is handed out with nobody behind it.
Consume(c) ==
  /\ pc[c] = "none"
  /\ rx' = [rx EXCEPT ![c] = "open"]
  /\ \/ /\ closed
        /\ pc' = [pc EXCEPT ![c] = "ended"]
        /\ UNCHANGED <<consumers, permits>>
     \/ /\ ~closed
        /\ pc' = [pc EXCEPT ![c] = "permit"]
        /\ consumers' = consumers \cup {c}
        /\ permits' = [permits EXCEPT ![c] = Permits]
  /\ UNCHANGED <<closed, pending, settled, dead, held, signal>>
  /\ UNCHANGED <<hand, chan, unread, semClosed>>
  /\ UNCHANGED callerVars

\* Faulty variant: taking a delivery slot without waiting for one.
AcquirePermitUnbounded(c) ==
  /\ pc[c] = "permit"
  /\ \/ /\ rx[c] = "dropped" \/ c \in semClosed
        /\ pc' = [pc EXCEPT ![c] = "ending"]
        /\ UNCHANGED permits
     \/ /\ rx[c] = "open" /\ c \notin semClosed
        /\ permits' = [permits EXCEPT ![c] = @ - 1]
        /\ pc' = [pc EXCEPT ![c] = "poll"]
  /\ UNCHANGED <<hand, chan, rx, unread, semClosed>>
  /\ UNCHANGED <<sharedVars, callerVars>>

\* The first select of consumer_loop; the dropped stream is looked at first.
AcquirePermit(c) ==
  /\ pc[c] = "permit"
  /\ \/ /\ rx[c] = "dropped" \/ c \in semClosed
        /\ pc' = [pc EXCEPT ![c] = "ending"]
        /\ UNCHANGED permits
     \/ /\ rx[c] = "open" /\ c \notin semClosed
        /\ permits[c] > 0
        /\ permits' = [permits EXCEPT ![c] = @ - 1]
        /\ pc' = [pc EXCEPT ![c] = "poll"]
  /\ UNCHANGED <<hand, chan, rx, unread, semClosed>>
  /\ UNCHANGED <<sharedVars, callerVars>>

\* Leaving consumer_loop with the permit in hand drops the permit.
Leave(c) ==
  /\ pc' = [pc EXCEPT ![c] = "ending"]
  /\ permits' = [permits EXCEPT ![c] = @ + 1]

\* Faulty variant: the message is copied off the queue and left on it.
PopFrontPeeks(c) ==
  /\ pc[c] = "poll" /\ ~closed /\ pending # <<>>
  /\ hand' = [hand EXCEPT ![c] = Head(pending)]
  /\ pc' = [pc EXCEPT ![c] = "send"]
  /\ UNCHANGED <<chan, rx, unread, permits, semClosed>>
  /\ UNCHANGED <<sharedVars, callerVars>>

\* The critical section of the inner loop: closed, a message, or nothing yet.
PopFront(c) ==
  /\ pc[c] = "poll"
  /\ \/ /\ closed
        /\ Leave(c)
        /\ UNCHANGED <<pending, hand>>
     \/ /\ ~closed /\ pending # <<>>
        /\ hand' = [hand EXCEPT ![c] = Head(pending)]
        /\ pending' = Tail(pending)
        /\ pc' = [pc EXCEPT ![c] = "send"]
        /\ UNCHANGED permits
     \/ /\ ~closed /\ pending = <<>>
        /\ pc' = [pc EXCEPT ![c] = "wait"]
        /\ UNCHANGED <<pending, hand, permits>>
  /\ UNCHANGED <<closed, settled, dead, consumers, held, signal>>
  /\ UNCHANGED <<chan, rx, unread, semClosed>>
  /\ UNCHANGED callerVars

\* The second select: a dropped stream ends the task, a change since the last
\* look is marked seen and sends it back to poll.  The sender of the signal
\* lives in the QueueState, which is never removed, so changed() never errs.
AwaitSignal(c) ==
  /\ pc[c] = "wait"
  /\ \/ /\ rx[c] = "dropped"
        /\ Leave(c)
        /\ UNCHANGED signal
     \/ /\ rx[c] = "open" /\ c \in signal
        /\ signal' = signal \ {c}
        /\ pc' = [pc EXCEPT ![c] = "poll"]
        /\ UNCHANGED permits
  /\ UNCHANGED <<closed, pending, settled, dead, consumers, held>>
  /\ UNCHANGED <<hand, chan, rx, unread, semClosed>>
  /\ UNCHANGED callerVars

\* tx.send to a stream that still exists: the permit rides in the delivery.
Send(c) ==
  /\ pc[c] = "send" /\ rx[c] = "open"
  /\ chan' = [chan EXCEPT ![c] = Append(@, hand[c])]
  /\ hand' = [hand EXCEPT ![c] = NoEnvelope]
  /\ pc' = [pc EXCEPT ![c] = "permit"]
  /\ UNCHANGED <<rx, unread, permits, semClosed>>
  /\ UNCHANGED <<sharedVars, callerVars>>

\* Faulty variant: a failed send ends the task and swallows the message.
SendFailsSwallows(c) ==
  /\ pc[c] = "send" /\ rx[c] = "dropped"
  /\ hand' = [hand EXCEPT ![c] = NoEnvelope]
  /\ Leave(c)
  /\ UNCHANGED <<chan, rx, unread, semClosed>>
  /\ UNCHANGED <<sharedVars, callerVars>>

\* tx.send to a dropped stream fails: the message goes back to the front of the
\* queue, past insert_by_priority and without a look at `closed`.
SendFails(c) ==
  /\ pc[c] = "send" /\ rx[c] = "dropped"
  /\ pending' = <<hand[c]>> \o pending
  /\ hand' = [hand EXCEPT ![c] = NoEnvelope]
  /\ Wake
  /\ Leave(c)
  /\ UNCHANGED <<closed, settled, dead, consumers, held>>
  /\ UNCHANGED <<chan, rx, unread, semClosed>>
  /\ UNCHANGED callerVars

\* ConsumerGuard::drop, then the task (and its sender) is gone.
Unregister(c) ==
  /\ pc[c] = "ending"
  /\ consumers' = consumers \ {c}
  /\ pc' = [pc EXCEPT ![c] = "ended"]
  /\ UNCHANGED <<closed, pending, settled, dead, held, signal>>
  /\ UNCHANGED <<hand, chan, rx, unread, permits, semClosed>>
  /\ UNCHANGED callerVars

-----------------------------------------------------------------------------
(***************************************************************************)
(* The stream (DeliveryReceiver).                                          *)
(***************************************************************************)

\* Faulty variant: the slot is freed when the delivery is read, not settled.
StreamNextFreesSlot(c) ==
  /\ rx[c] = "open" /\ chan[c] # <<>>
  /\ out' = out \cup
       {[env |-> Head(chan[c]), consumer |-> c, phase |-> "held", delay |-> 0]}
  /\ chan' = [chan EXCEPT ![c] = Tail(@)]
  /\ permits' = [permits EXCEPT ![c] = @ + 1]
  /\ UNCHANGED <<pc, hand, rx, unread, semClosed>>
  /\ UNCHANGED <<calls, timers, accepted, gone>>
  /\ UNCHANGED sharedVars

\* poll_next hands out the next delivery.
StreamNext(c) ==
  /\ rx[c] = "open" /\ chan[c] # <<>>
  /\ out' = out \cup
       {[env |-> Head(chan[c]), consumer |-> c, phase |-> "held", delay |-> 0]}
  /\ chan' = [chan EXCEPT ![c] = Tail(@)]
  /\ UNCHANGED <<pc, hand, rx, unread, permits, semClosed>>
  /\ UNCHANGED <<calls, timers, accepted, gone>>
  /\ UNCHANGED sharedVars

\* DeliveryReceiver::drop up to the lock: close the channel and drain it.  Each
\* drained delivery drops its permit.
DropStream(c) ==
  /\ rx[c] = "open"
  /\ rx' = [rx EXCEPT ![c] = "dropped"]
  /\ unread' = [unread EXCEPT ![c] = chan[c]]
  /\ permits' = [permits EXCEPT ![c] = @ + Len(chan[c])]
  /\ chan' = [chan EXCEPT ![c] = <<>>]
  /\ UNCHANGED <<pc, hand, semClosed>>
  /\ UNCHANGED <<sharedVars, callerVars>>

\* Faulty variant: the unread messages go back without waking anyone.
RequeueUnreadQuietly(c) ==
  /\ unread[c] # <<>> /\ ~closed
  /\ unread' = [unread EXCEPT ![c] = <<>>]
  /\ pending' = unread[c] \o pending
  /\ UNCHANGED <<closed, settled, dead, consumers, held, signal>>
  /\ UNCHANGED <<pc, hand, chan, rx, permits, semClosed>>
  /\ UNCHANGED callerVars

\* DeliveryReceiver::drop under the lock: back to the front, in order.
RequeueUnread(c) ==
  /\ unread[c] # <<>>
  /\ unread' = [unread EXCEPT ![c] = <<>>]
  /\ \/ /\ closed
        /\ gone' = gone \cup {Gone(unread[c][i], "unread") : i \in DOMAIN unread[c]}
        /\ UNCHANGED <<pending, signal>>
     \/ /\ ~closed
        /\ pending' = unread[c] \o pending
        /\ Wake
        /\ UNCHANGED gone
  /\ UNCHANGED <<closed, settled, dead, consumers, held>>
  /\ UNCHANGED <<pc, hand, chan, rx, permits, semClosed>>
  /\ UNCHANGED <<calls, out, timers, accepted>>

-----------------------------------------------------------------------------
(***************************************************************************)
(* The delivery (MemoryDelivery).  Each operation consumes it, and its     *)
(* permit goes back to the semaphore of the consumer that produced it.     *)
(***************************************************************************)

Release(d) ==
  /\ out' = out \ {d}
  /\ permits' = [permits EXCEPT ![d.consumer] = @ + 1]
  /\ UNCHANGED <<pc, hand, chan, rx, unread, semClosed>>

\* Faulty variant: recording an ack leaks the delivery's slot.
RecordAckLeaks(d, kind) ==
  /\ settled' = settled \cup {[env |-> d.env, kind |-> kind]}
  /\ out' = out \ {d}
  /\ UNCHANGED <<closed, pending, dead, consumers, held, signal>>
  /\ UNCHANGED <<calls, timers, accepted, gone>>
  /\ UNCHANGED consumerVars

\* record_ack, the last critical section of ack, retry and defer.
RecordAck(d, kind) ==
  /\ settled' = settled \cup {[env |-> d.env, kind |-> kind]}
  /\ Release(d)
  /\ UNCHANGED <<closed, pending, dead, consumers, held, signal>>
  /\ UNCHANGED <<calls, timers, accepted, gone>>

\* ack works on a closed backend too.
Ack(d) ==
  /\ d.phase = "held"
  /\ RecordAck(d, "Succeeded")

\* A settle that returns ShutDown, or a delivery dropped unsettled: the message
\* is not requeued.
Forget(d, why) ==
  /\ Release(d)
  /\ gone' = gone \cup {Gone(d.env, why)}
  /\ UNCHANGED <<calls, timers, accepted>>
  /\ UNCHANGED sharedVars

DeadLetter(d) ==
  /\ d.phase = "held"
  /\ \/ closed /\ Forget(d, "shutdown")
     \/ /\ ~closed
        /\ dead' = dead \cup {d.env}
        /\ Release(d)
        /\ UNCHANGED <<closed, pending, settled, consumers, held, signal>>
        /\ UNCHANGED <<calls, timers, accepted, gone>>

DropDelivery(d) ==
  /\ d.phase = "held"
  /\ Forget(d, "unsettled")

Advance(d, phase, delay) ==
  out' = (out \ {d}) \cup {[d EXCEPT !.phase = phase, !.delay = delay]}

\* retry and defer, first critical section: is_state_closed.
SettleCheck(d, phase, delay) ==
  /\ d.phase = "held"
  /\ \/ closed /\ Forget(d, "shutdown")
     \/ /\ ~closed
        /\ Advance(d, phase, delay)
        /\ UNCHANGED <<calls, timers, accepted, gone>>
        /\ UNCHANGED <<sharedVars, consumerVars>>

RetryCheck(d, delay) == d.env.attempt < MaxAttempts /\ SettleCheck(d, "retry", delay)
DeferCheck(d, delay) == d.env.deferrals < MaxDeferrals /\ SettleCheck(d, "defer", delay)

\* retry, second critical section: schedule the successor.
RetrySchedule(d) ==
  /\ d.phase = "retry"
  /\ Schedule(NextAttempt(d.env), d.delay)
  /\ Advance(d, "retried", 0)
  /\ UNCHANGED <<closed, settled, dead, consumers, calls, accepted>>
  /\ UNCHANGED consumerVars

\* defer, second critical section: put the successor in hold.
DeferHold(d) ==
  /\ d.phase = "defer"
  /\ Hold(Deferred(d.env), d.delay)
  /\ Advance(d, "deferred", 0)
  /\ UNCHANGED <<closed, settled, dead, consumers, calls, accepted>>
  /\ UNCHANGED consumerVars

\* retry and defer, third critical section: record_ack.
SettleAck(d) ==
  \/ d.phase = "retried"  /\ RecordAck(d, "Retried")
  \/ d.phase = "deferred" /\ RecordAck(d, "Deferred")

-----------------------------------------------------------------------------
ConsumerTask(c) ==
  \/ AcquirePermit(c)
  \/ PopFront(c)
  \/ AwaitSignal(c)
  \/ Send(c)
  \/ SendFails(c)
  \/ Unregister(c)

\* Whoever holds the delivery settles it or drops it.
Settle(d) ==
  \/ Ack(d)
  \/ DeadLetter(d)
  \/ \E delay \in {0, 1} : RetryCheck(d, delay) \/ DeferCheck(d, delay)

SettleOn(d) == RetrySchedule(d) \/ DeferHold(d) \/ SettleAck(d)

Next ==
  \/ \E j \in Jobs, hold \in BOOLEAN, delay \in {0, 1} : PublishCheck(j, hold, delay)
  \/ \E call \in calls : PublishFinish(call)
  \/ \E t \in timers : TimerFires(t)
  \/ Close
  \/ \E c \in Consumers : Consume(c)
  \/ \E c \in Consumers : ConsumerTask(c)
  \/ \E c \in Consumers : StreamNext(c)
  \/ \E c \in Consumers : DropStream(c)
  \/ \E c \in Consumers : RequeueUnread(c)
  \/ \E d \in out : Settle(d)
  \/ \E d \in out : DropDelivery(d)
  \/ \E d \in out : SettleOn(d)

Spec == Init /\ [][Next]_vars

(***************************************************************************)
(* The runtime keeps polling every task that can make progress, sleeps     *)
(* end, and the owner of a stream keeps reading it and settles what it     *)
(* reads (that is what a Worker does).  Nobody has to publish, close, drop *)
(* a stream or drop a delivery.                                            *)
(***************************************************************************)
Fairness ==
  /\ \A c \in Consumers :
       /\ WF_vars(ConsumerTask(c))
       /\ WF_vars(StreamNext(c))
       /\ WF_vars(RequeueUnread(c))
  /\ WF_vars(\E call \in calls : PublishFinish(call))
  /\ \A j \in Jobs :
       /\ WF_vars(\E t \in timers : t.env.job = j /\ TimerFires(t))
       /\ WF_vars(\E d \in out : d.env.job = j /\ Settle(d))
       /\ WF_vars(\E d \in out : d.env.job = j /\ SettleOn(d))

FairSpec == Spec /\ Fairness

-----------------------------------------------------------------------------
(***************************************************************************)
(* Properties.                                                             *)
(***************************************************************************)

SharedType ==
  /\ closed \in BOOLEAN
  /\ pending \in Seq(Envelope)
  /\ settled \subseteq [env : Envelope, kind : AckKinds]
  /\ dead \subseteq Envelope
  /\ consumers \subseteq Consumers
  /\ held \in Nat
  /\ signal \subseteq Consumers

ConsumerType ==
  /\ pc \in [Consumers -> ConsumerPc]
  /\ hand \in [Consumers -> Envelope \cup {NoEnvelope}]
  /\ chan \in [Consumers -> Seq(Envelope)]
  /\ rx \in [Consumers -> {"none", "open", "dropped"}]
  /\ unread \in [Consumers -> Seq(Envelope)]
  /\ permits \in [Consumers -> Nat]
  /\ semClosed \subseteq Consumers

CallerType ==
  /\ calls \subseteq Call
  /\ out \subseteq Delivery
  /\ timers \subseteq Timer
  /\ accepted \subseteq Jobs
  /\ gone \subseteq [env : Envelope, why : Reasons]

\* Every part of the state has its type; in particular no semaphore is ever
\* overdrawn and `held` never goes below zero.
TypeOK == SharedType /\ ConsumerType /\ CallerType

\* Every place that holds a copy of job j which can still be run.  A delivery
\* whose successor has been scheduled is no longer one of them.
Runnable(j) ==
  UNION {
    {<<"pending", i>> : i \in {k \in DOMAIN pending : pending[k].job = j}},
    {<<"hand", c>> : c \in {b \in Consumers : hand[b] # NoEnvelope /\ hand[b].job = j}},
    {<<"chan", x>> : x \in {y \in UNION {{c} \X DOMAIN chan[c] : c \in Consumers} :
                              chan[y[1]][y[2]].job = j}},
    {<<"unread", x>> : x \in {y \in UNION {{c} \X DOMAIN unread[c] : c \in Consumers} :
                                unread[y[1]][y[2]].job = j}},
    {<<"call", x>> : x \in {y \in calls : y.env.job = j}},
    {<<"timer", t>> : t \in {y \in timers : y.env.job = j}},
    {<<"out", d>> : d \in {y \in out : /\ y.env.job = j
                                        /\ y.phase \in {"held", "retry", "defer"}}}}

Finished(j) ==
  \/ \E s \in settled : s.env.job = j /\ s.kind = "Succeeded"
  \/ \E e \in dead : e.job = j

\* The memory backend never duplicates a job: at any moment at most one copy of
\* it can still be run, and none once it succeeded or was dead-lettered, however
\* pop, send, requeue, retry, timers and close interleave.
OneRunnableCopy ==
  \A j \in Jobs :
    /\ Cardinality(Runnable(j)) <= 1
    /\ Finished(j) => Runnable(j) = {}

\* "A message can never vanish just because a consumer went away": a job whose
\* publish returned Ok can still be run, or is finished, unless whoever held its
\* delivery dropped it, or the backend was closed.
NoJobLost ==
  \A j \in accepted :
    \/ Runnable(j) # {}
    \/ Finished(j)
    \/ \E g \in gone : g.env.job = j /\ (closed \/ g.why = "unsettled")

\* MemoryBackend::deferred counts exactly the holds that have not ended: one per
\* live HoldGuard, also when the hold began or ended after a close.
HeldIsExact == held = Cardinality({t \in timers : t.hold})

\* What consumer c has taken off the queue and nobody has settled.
Outstanding(c) ==
  Cardinality({d \in out : d.consumer = c}) + Len(chan[c])
    + (IF hand[c] = NoEnvelope THEN 0 ELSE 1)

\* consume honours prefetch: at most `prefetch` un-acked deliveries per consumer,
\* the ones it has popped but not handed out included.
PrefetchBound == \A c \in Consumers : Outstanding(c) <= Permits

\* "No wakeup can be lost here": a consumer only sleeps on the signal without a
\* pending notification while there is nothing to take and nothing to end for.
NoLostWakeup ==
  \A c \in Consumers :
    pc[c] = "wait" /\ c \notin signal => pending = <<>> /\ ~closed

\* A closed backend accepts nothing: no dead letter is recorded, and pending only
\* gets back what a consumer had popped before the close.
ClosedAcceptsNothing ==
  [][closed => /\ dead' = dead
               /\ \A i \in DOMAIN pending' :
                    \/ \E k \in DOMAIN pending : pending'[i] = pending[k]
                    \/ \E c \in Consumers : pending'[i] = hand[c]]_vars

\* A closed backend ends every consumer task, and so does a dropped stream: no
\* consumer sleeps on its semaphore or its signal forever.
ConsumersEnd ==
  \A c \in Consumers :
    (pc[c] # "none" /\ (closed \/ rx[c] = "dropped")) ~> (pc[c] = "ended")

\* While some stream is read and its deliveries are settled, every accepted job
\* is finished in the end, through all its retries and deferrals.
AcceptedJobsFinish ==
  \A j \in Jobs :
    (j \in accepted /\ \E c \in Consumers : rx[c] = "open")
      ~> \/ Finished(j)
         \/ closed
         \/ \E g \in gone : g.env.job = j
         \/ \A c \in Consumers : rx[c] # "open"

\* "Schedule first, ack second: never lose the message" (retry), "Hold first, ack
\* second" (defer), and "a closed backend rejects it and the original stays
\* unacked": no attempt is acked as retried or deferred while its successor was
\* refused because the backend had been closed.
SuccessorBeforeAck ==
  \A s \in settled :
    /\ s.kind = "Retried"  => Gone(NextAttempt(s.env), "refused") \notin gone
    /\ s.kind = "Deferred" => Gone(Deferred(s.env), "refused") \notin gone

=============================================================================
