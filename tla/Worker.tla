-------------------------------- MODULE Worker --------------------------------
(***************************************************************************)
(* The worker runtime (core/src/worker.rs): Worker::run with its consumer  *)
(* tasks (consume_into), its job tasks (process, dispatch, the handler     *)
(* task, the dead-letter hook, settle), graceful shutdown, and the process *)
(* dying and being started again.                                          *)
(*                                                                         *)
(* The broker behind the Backend trait is external and reduced to its      *)
(* contract: it owns every message copy until the copy is settled, hands   *)
(* copies out on streams, gives out again what a dead process or a failed  *)
(* settle left unacked, and may take a delivery back from a worker that is *)
(* still busy with it because the connection in between was lost.          *)
(***************************************************************************)
EXTENDS Envelopes, Sequences, FiniteSets

CONSTANTS
  Queues,        \* the queues the worker consumes
  QueueOf,       \* Envelope::queue of each job
  Concurrency,   \* WorkerBuilder::concurrency
  Policies,      \* the max_attempts values set_retry_policy may answer
  HasHook,       \* WorkerBuilder::on_dead_letter was called
  HasTimeout,    \* WorkerBuilder::job_timeout was called
  CloseBackend,  \* WorkerBuilder::close_backend_on_shutdown
  PolicyPanics,  \* may set_retry_policy or a Deserialize impl panic?
  MaxFaults,     \* bound on backend errors and panics
  MaxCrashes     \* bound on process deaths

ASSUME WorkerAssumption ==
  /\ QueueOf \in [Jobs -> Queues]
  /\ IsFiniteSet(Queues)
  /\ Concurrency \in Nat \ {0}
  /\ Policies \subseteq 0..MaxAttempts
  /\ {HasHook, HasTimeout, CloseBackend, PolicyPanics} \subseteq BOOLEAN
  /\ MaxFaults \in Nat /\ MaxCrashes \in Nat

VARIABLES
  \* the broker
  copies,          \* every message copy: its envelope and who owns it
  \* Worker::run
  pc,              \* where run() is
  unstarted,       \* queues whose consumer is not started yet
  outcome,         \* what run() will return
  ch,              \* the mpsc channel of ConsumerEvents
  permits,         \* free concurrency slots
  shutdown,        \* WorkerHandle::shutdown was called
  stop,            \* the stop watch the consumer tasks listen to
  settleFailures,  \* WorkerHandle::settle_failures
  \* consume_into, one task per queue
  fwd,             \* where it is
  item,            \* the event it holds between stream.next and tx.send
  \* process, one task per delivery being worked on
  tasks,           \* [tag, stage, op, max, last]
  handlers,        \* the handler tasks that are alive
  \* history
  notified,        \* envelopes the dead-letter hook was called for
  duplicated,      \* jobs that may have two live copies: a settle failed half
                   \* way, or a delivery was taken back
  faults, crashes

brokerVars == <<copies>>
runVars    == <<pc, unstarted, outcome, ch, permits, shutdown, stop, settleFailures>>
fwdVars    == <<fwd, item>>
taskVars   == <<tasks, handlers>>
histVars   == <<notified, duplicated, faults, crashes>>
vars == <<brokerVars, runVars, fwdVars, taskVars, histVars>>

\* A copy is "ready" on its queue, "unacked" with the worker, acked after the
\* job "succeeded", acked because another copy "superseded" it, "dead" on the
\* dead-letter queue, or "returned" to the broker, which gave out a new copy.
Copy == [env : Envelope,
         st  : {"ready", "unacked", "succeeded", "superseded", "dead", "returned"}]
Tags    == 1..Len(copies)

NoItem == [kind |-> "none", tag |-> 0]
Event  == [kind : {"Delivery", "Failed", "Ended"}, tag : Nat]

\* mpsc::channel(queues.len().max(1))
Capacity == IF Queues = {} THEN 1 ELSE Cardinality(Queues)

Stages == {"dispatch", "run", "abort", "hook", "settle"}
Ops    == {"none", "ack", "retry", "defer", "dead_letter"}
Task   == [tag : Nat, stage : Stages, op : Ops, max : Policies \cup {0}, last : BOOLEAN]

WorkerInit ==
  /\ pc = "start"
  /\ unstarted = Queues
  /\ outcome = "Ok"
  /\ ch = <<>>
  /\ permits = Concurrency
  /\ shutdown = FALSE
  /\ stop = FALSE
  /\ settleFailures = 0
  /\ fwd = [q \in Queues |-> "none"]
  /\ item = [q \in Queues |-> NoItem]
  /\ tasks = {}
  /\ handlers = {}

Init ==
  /\ copies = <<>>
  /\ WorkerInit
  /\ notified = {}
  /\ duplicated = {}
  /\ faults = 0
  /\ crashes = 0

-----------------------------------------------------------------------------
(***************************************************************************)
(* The broker and the process around the worker.                           *)
(***************************************************************************)

Fault == faults < MaxFaults /\ faults' = faults + 1
NoFault == UNCHANGED faults

\* A producer publishes a job.
Enqueue(j) ==
  /\ \A t \in Tags : copies[t].env.job # j
  /\ copies' = Append(copies, [env |-> NewEnvelope(j), st |-> "ready"])
  /\ UNCHANGED <<runVars, fwdVars, taskVars, histVars>>

\* The copies some part of the worker still holds.
HeldTags ==
  {item[q].tag : q \in Queues} \cup {ch[i].tag : i \in DOMAIN ch} \cup {t.tag : t \in tasks}

\* What nobody holds any more goes back to its queue once the channel it was
\* delivered on is gone.
Redeliver(t) ==
  /\ copies[t].st = "unacked"
  /\ t \notin HeldTags
  /\ copies' = [copies EXCEPT ![t].st = "ready"]
  /\ UNCHANGED <<runVars, fwdVars, taskVars, histVars>>

\* A connection is lost: the broker gives a delivery out again although the
\* worker still holds it.  Whatever settles the old one will fail.
TakeBack(t) ==
  /\ copies[t].st = "unacked"
  /\ t \in HeldTags
  /\ Fault
  /\ copies' = Append([copies EXCEPT ![t].st = "returned"],
                      [copies[t] EXCEPT !.st = "ready"])
  /\ duplicated' = duplicated \cup {copies[t].env.job}
  /\ UNCHANGED <<runVars, fwdVars, taskVars, notified, crashes>>

Requeued == [t \in Tags |-> IF copies[t].st = "unacked"
                            THEN [copies[t] EXCEPT !.st = "ready"] ELSE copies[t]]

\* A new process starts where the first one did.
WorkerRestarts ==
  /\ pc' = "start"
  /\ unstarted' = Queues
  /\ outcome' = "Ok"
  /\ ch' = <<>>
  /\ permits' = Concurrency
  /\ shutdown' = FALSE
  /\ stop' = FALSE
  /\ settleFailures' = 0
  /\ fwd' = [q \in Queues |-> "none"]
  /\ item' = [q \in Queues |-> NoItem]
  /\ tasks' = {}
  /\ handlers' = {}

\* The process dies at any point and is started again.
Crash ==
  /\ crashes < MaxCrashes
  /\ pc # "done"
  /\ crashes' = crashes + 1
  /\ copies' = Requeued
  /\ WorkerRestarts
  /\ UNCHANGED <<notified, duplicated, faults>>

\* WorkerHandle::shutdown
Shutdown ==
  /\ ~shutdown
  /\ shutdown' = TRUE
  /\ UNCHANGED <<pc, unstarted, outcome, ch, permits, stop, settleFailures>>
  /\ UNCHANGED <<brokerVars, fwdVars, taskVars, histVars>>

-----------------------------------------------------------------------------
(***************************************************************************)
(* Worker::run                                                             *)
(***************************************************************************)

\* The for loop over the queues: backend.consume, then spawn consume_into.  A
\* failed consume breaks out of it and skips the dispatch loop.
StartConsumer ==
  /\ pc = "start"
  /\ \/ \E q \in unstarted :
          /\ fwd' = [fwd EXCEPT ![q] = "pull"]
          /\ unstarted' = unstarted \ {q}
          /\ NoFault
          /\ UNCHANGED <<pc, outcome>>
     \/ /\ unstarted # {}
        /\ Fault
        /\ outcome' = "BackendError"
        /\ pc' = "stopping"
        /\ UNCHANGED <<fwd, unstarted>>
     \/ /\ unstarted = {}
        /\ pc' = "permit"
        /\ NoFault
        /\ UNCHANGED <<fwd, unstarted, outcome>>
  /\ UNCHANGED <<ch, permits, shutdown, stop, settleFailures, item>>
  /\ UNCHANGED <<brokerVars, taskVars, notified, duplicated, crashes>>

\* The top of the dispatch loop and its first select: shutdown is looked at
\* before a slot is taken.
TakePermit ==
  /\ pc = "permit"
  /\ \/ /\ shutdown
        /\ pc' = "stopping"
        /\ UNCHANGED permits
     \/ /\ ~shutdown
        /\ permits > 0
        /\ permits' = permits - 1
        /\ pc' = "recv"
  /\ UNCHANGED <<unstarted, outcome, ch, shutdown, stop, settleFailures>>
  /\ UNCHANGED <<brokerVars, fwdVars, taskVars, histVars>>

\* Every sender is gone: the main task dropped its own, the others ended.
SendersGone == \A q \in Queues : fwd[q] \in {"none", "done"}

NewTask(tag) == [tag |-> tag, stage |-> "dispatch", op |-> "none", max |-> 0, last |-> FALSE]

\* The second select: shutdown first, then the next event.  A delivery takes the
\* slot along into its task; in every other case the slot is dropped.
Receive ==
  /\ pc = "recv"
  /\ \/ /\ shutdown
        /\ pc' = "stopping"
        /\ permits' = permits + 1
        /\ UNCHANGED <<ch, outcome, tasks>>
     \/ /\ ~shutdown /\ ch = <<>> /\ SendersGone
        /\ pc' = "stopping"
        /\ permits' = permits + 1
        /\ UNCHANGED <<ch, outcome, tasks>>
     \/ /\ ~shutdown /\ ch # <<>> /\ Head(ch).kind = "Delivery"
        /\ tasks' = tasks \cup {NewTask(Head(ch).tag)}
        /\ ch' = Tail(ch)
        /\ pc' = "permit"
        /\ UNCHANGED <<outcome, permits>>
     \/ /\ ~shutdown /\ ch # <<>> /\ Head(ch).kind # "Delivery"
        /\ outcome' = IF Head(ch).kind = "Ended" THEN "ConsumerStopped" ELSE "BackendError"
        /\ ch' = Tail(ch)
        /\ permits' = permits + 1
        /\ pc' = "stopping"
        /\ UNCHANGED tasks
  /\ UNCHANGED <<unstarted, shutdown, stop, settleFailures, handlers>>
  /\ UNCHANGED <<brokerVars, fwdVars, histVars>>

\* stop_tx.send_replace(true): before the channel is drained.
StopConsumers ==
  /\ pc = "stopping"
  /\ stop' = TRUE
  /\ pc' = "drain"
  /\ UNCHANGED <<unstarted, outcome, ch, permits, shutdown, settleFailures>>
  /\ UNCHANGED <<brokerVars, fwdVars, taskVars, histVars>>

DrainPermit ==
  /\ pc = "drain"
  /\ permits > 0
  /\ permits' = permits - 1
  /\ pc' = "drainRecv"
  /\ UNCHANGED <<unstarted, outcome, ch, shutdown, stop, settleFailures>>
  /\ UNCHANGED <<brokerVars, fwdVars, taskVars, histVars>>

\* Faulty variant: draining ends when the channel happens to be empty, without
\* waiting for the consumer tasks.
DrainReceiveEarly ==
  /\ pc = "drainRecv"
  /\ \/ /\ ch = <<>>
        /\ pc' = "join"
        /\ permits' = permits + 1
        /\ UNCHANGED <<ch, outcome, tasks>>
     \/ /\ ch # <<>> /\ Head(ch).kind = "Delivery"
        /\ tasks' = tasks \cup {NewTask(Head(ch).tag)}
        /\ ch' = Tail(ch)
        /\ pc' = "drain"
        /\ UNCHANGED <<outcome, permits>>
     \/ /\ ch # <<>> /\ Head(ch).kind # "Delivery"
        /\ outcome' = IF Head(ch).kind = "Failed" /\ outcome = "Ok"
                      THEN "BackendError" ELSE outcome
        /\ ch' = Tail(ch)
        /\ permits' = permits + 1
        /\ pc' = "drain"
        /\ UNCHANGED tasks
  /\ UNCHANGED <<unstarted, shutdown, stop, settleFailures, handlers>>
  /\ UNCHANGED <<brokerVars, fwdVars, histVars>>

\* The drain loop: until every consumer task has finished and the channel is
\* empty.  The first error is kept, an ended stream is no error any more.
DrainReceive ==
  /\ pc = "drainRecv"
  /\ \/ /\ ch = <<>> /\ SendersGone
        /\ pc' = "join"
        /\ permits' = permits + 1
        /\ UNCHANGED <<ch, outcome, tasks>>
     \/ /\ ch # <<>> /\ Head(ch).kind = "Delivery"
        /\ tasks' = tasks \cup {NewTask(Head(ch).tag)}
        /\ ch' = Tail(ch)
        /\ pc' = "drain"
        /\ UNCHANGED <<outcome, permits>>
     \/ /\ ch # <<>> /\ Head(ch).kind # "Delivery"
        /\ outcome' = IF Head(ch).kind = "Failed" /\ outcome = "Ok"
                      THEN "BackendError" ELSE outcome
        /\ ch' = Tail(ch)
        /\ permits' = permits + 1
        /\ pc' = "drain"
        /\ UNCHANGED tasks
  /\ UNCHANGED <<unstarted, shutdown, stop, settleFailures, handlers>>
  /\ UNCHANGED <<brokerVars, fwdVars, histVars>>

\* Both join loops, then backend.close if the builder asked for it.
Finish ==
  /\ pc = "join"
  /\ SendersGone
  /\ tasks = {}
  /\ pc' = "done"
  /\ \/ NoFault /\ UNCHANGED outcome
     \/ /\ CloseBackend
        /\ Fault
        /\ outcome' = IF outcome = "Ok" THEN "BackendError" ELSE outcome
  /\ UNCHANGED <<unstarted, ch, permits, shutdown, stop, settleFailures>>
  /\ UNCHANGED <<brokerVars, fwdVars, taskVars, notified, duplicated, crashes>>

-----------------------------------------------------------------------------
(***************************************************************************)
(* consume_into: one task per queue                                        *)
(***************************************************************************)

\* Faulty variant: the stream is awaited without listening to the stop watch.
PullIgnoresStop(q) ==
  /\ fwd[q] = "pull"
  /\ fwd' = [fwd EXCEPT ![q] = "send"]
  /\ \E t \in Tags :
       /\ copies[t].st = "ready"
       /\ QueueOf[copies[t].env.job] = q
       /\ copies' = [copies EXCEPT ![t].st = "unacked"]
       /\ item' = [item EXCEPT ![q] = [kind |-> "Delivery", tag |-> t]]
  /\ UNCHANGED <<runVars, taskVars, histVars>>

\* The stop watch is looked at first; otherwise the stream yields a delivery, an
\* error, or its end.
Pull(q) ==
  /\ fwd[q] = "pull"
  /\ \/ /\ stop
        /\ fwd' = [fwd EXCEPT ![q] = "done"]
        /\ NoFault
        /\ UNCHANGED <<copies, item>>
     \/ /\ ~stop
        /\ fwd' = [fwd EXCEPT ![q] = "send"]
        /\ \/ \E t \in Tags :
                /\ copies[t].st = "ready"
                /\ QueueOf[copies[t].env.job] = q
                /\ copies' = [copies EXCEPT ![t].st = "unacked"]
                /\ item' = [item EXCEPT ![q] = [kind |-> "Delivery", tag |-> t]]
                /\ NoFault
           \/ \E kind \in {"Failed", "Ended"} :
                /\ Fault
                /\ item' = [item EXCEPT ![q] = [kind |-> kind, tag |-> 0]]
                /\ UNCHANGED copies
  /\ UNCHANGED <<runVars, taskVars, notified, duplicated, crashes>>

\* Faulty variant: the channel takes whatever is sent.
SendUnbounded(q) ==
  /\ fwd[q] = "send"
  /\ ch' = Append(ch, item[q])
  /\ item' = [item EXCEPT ![q] = NoItem]
  /\ fwd' = [fwd EXCEPT ![q] = IF item[q].kind = "Ended" THEN "done" ELSE "pull"]
  /\ UNCHANGED <<pc, unstarted, outcome, permits, shutdown, stop, settleFailures>>
  /\ UNCHANGED <<brokerVars, taskVars, histVars>>

\* tx.send(event).await: what was pulled is always sent, stop or no stop.
Send(q) ==
  /\ fwd[q] = "send"
  /\ Len(ch) < Capacity
  /\ ch' = Append(ch, item[q])
  /\ item' = [item EXCEPT ![q] = NoItem]
  /\ fwd' = [fwd EXCEPT ![q] = IF item[q].kind = "Ended" THEN "done" ELSE "pull"]
  /\ UNCHANGED <<pc, unstarted, outcome, permits, shutdown, stop, settleFailures>>
  /\ UNCHANGED <<brokerVars, taskVars, histVars>>

-----------------------------------------------------------------------------
(***************************************************************************)
(* process and dispatch: one task per delivery                             *)
(***************************************************************************)

Env(t) == copies[t.tag].env

\* Task t goes on with another stage or verdict.
Becomes(t, u) == tasks' = (tasks \ {t}) \cup {u}

\* Faulty variant: the hook is only awaited after the first attempt failed.
VerdictSkipsHook(t, op) ==
  [t EXCEPT !.op = op, !.max = 0,
            !.stage = IF op = "dead_letter" /\ HasHook /\ Env(t).attempt > 1
                      THEN "hook" ELSE "settle"]

\* A verdict is settled at once, a dead-lettering one after its hook.
Verdict(t, op) ==
  [t EXCEPT !.op = op, !.max = 0,
            !.stage = IF op = "dead_letter" /\ HasHook THEN "hook" ELSE "settle"]

\* Faulty variant: one attempt too many.
DecideOffByOne(e, max) ==
  IF e.attempt > max \/ e.attempt = MaxAttempts THEN "dead_letter" ELSE "retry"

\* JobContext::is_last_attempt and RetryPolicy::decide.
IsLastAttempt(e, max) == e.attempt >= max
Decide(e, max) == IF e.attempt >= max THEN "dead_letter" ELSE "retry"

\* No handler is registered for the job type, or the payload does not decode.
\* Which of it happens depends on the version of the application that runs.
Undeliverable(t) ==
  /\ t.stage = "dispatch"
  /\ Becomes(t, Verdict(t, "dead_letter"))
  /\ UNCHANGED <<brokerVars, runVars, fwdVars, handlers, histVars>>

\* set_retry_policy answers for this delivery, the context is built from the
\* answer, and the handler is spawned.
SpawnHandler(t) ==
  /\ t.stage = "dispatch"
  /\ \E max \in Policies :
       Becomes(t, [t EXCEPT !.stage = "run", !.max = max,
                            !.last = IsLastAttempt(Env(t), max)])
  /\ handlers' = handlers \cup {t.tag}
  /\ UNCHANGED <<brokerVars, runVars, fwdVars, histVars>>

\* Decoding and set_retry_policy run in the job task itself: a panic there ends
\* the task.  Its slot is freed, its delivery is dropped, and nothing is counted.
DispatchPanics(t) ==
  /\ PolicyPanics
  /\ t.stage = "dispatch"
  /\ Fault
  /\ tasks' = tasks \ {t}
  /\ permits' = permits + 1
  /\ UNCHANGED <<pc, unstarted, outcome, ch, shutdown, stop, settleFailures>>
  /\ UNCHANGED <<brokerVars, fwdVars, handlers, notified, duplicated, crashes>>

\* The handler returns, or panics (which counts as retryable).
HandlerEnds(t) ==
  /\ t.stage = "run"
  /\ handlers' = handlers \ {t.tag}
  /\ \E op \in {"ack", "dead_letter", "defer", Decide(Env(t), t.max)} :
       /\ op = "defer" => Env(t).deferrals < MaxDeferrals
       /\ Becomes(t, Verdict(t, op))
  /\ UNCHANGED <<brokerVars, runVars, fwdVars, histVars>>

\* Faulty variant: the abort is requested and not awaited.
TimeOutDetaches(t) ==
  /\ HasTimeout
  /\ t.stage = "run"
  /\ Becomes(t, Verdict(t, Decide(Env(t), t.max)))
  /\ UNCHANGED <<brokerVars, runVars, fwdVars, handlers, histVars>>

\* job_timeout elapses: the handler is aborted, and the abort awaited.
TimeOut(t) ==
  /\ HasTimeout
  /\ t.stage = "run"
  /\ Becomes(t, [t EXCEPT !.stage = "abort"])
  /\ UNCHANGED <<brokerVars, runVars, fwdVars, handlers, histVars>>

\* The cancellation landed.  Even if the handler got to its end first, the
\* attempt has failed.
AbortLands(t) ==
  /\ t.stage = "abort"
  /\ handlers' = handlers \ {t.tag}
  /\ Becomes(t, Verdict(t, Decide(Env(t), t.max)))
  /\ UNCHANGED <<brokerVars, runVars, fwdVars, histVars>>

\* notify_dead: the hook ran, or panicked.
NotifyDead(t) ==
  /\ t.stage = "hook"
  /\ notified' = notified \cup {Env(t)}
  /\ Becomes(t, [t EXCEPT !.stage = "settle"])
  /\ UNCHANGED <<brokerVars, runVars, fwdVars, handlers, duplicated, faults, crashes>>

\* The copy that takes over when a delivery is settled with retry, defer or
\* dead_letter: it is published first and the delivery acked afterwards.
Successor(t) ==
  CASE t.op = "retry"       -> [env |-> NextAttempt(Env(t)), st |-> "ready"]
    [] t.op = "defer"       -> [env |-> Deferred(Env(t)), st |-> "ready"]
    [] t.op = "dead_letter" -> [env |-> Env(t), st |-> "dead"]

\* Faulty variant: the delivery is acked before its successor is published, and
\* the publish may fail.
SettleFailsAfterAck(t) ==
  /\ copies[t.tag].st = "unacked"
  /\ Fault
  /\ settleFailures' = settleFailures + 1
  /\ copies' = [copies EXCEPT ![t.tag].st = "superseded"]
  /\ UNCHANGED duplicated

\* The calls of Delivery, when everything works.
SettleOk(t) ==
  /\ copies[t.tag].st = "unacked"
  /\ copies' = IF t.op = "ack"
               THEN [copies EXCEPT ![t.tag].st = "succeeded"]
               ELSE Append([copies EXCEPT ![t.tag].st = "superseded"], Successor(t))
  /\ NoFault
  /\ UNCHANGED <<settleFailures, duplicated>>

\* settle(Err): the delivery is not acked, but what takes over from it may
\* already have been published.  A delivery taken back always ends here.
SettleFails(t) ==
  /\ IF copies[t.tag].st = "unacked" THEN Fault ELSE NoFault
  /\ settleFailures' = settleFailures + 1
  /\ \/ UNCHANGED <<copies, duplicated>>
     \/ /\ t.op # "ack"
        /\ copies' = Append(copies, Successor(t))
        /\ duplicated' = duplicated \cup {Env(t).job}

\* Faulty variant: the slot is not given back when the settle failed or the
\* attempt is retried.
SettleLeaks(t) ==
  /\ t.stage = "settle"
  /\ SettleOk(t) \/ SettleFails(t)
  /\ tasks' = tasks \ {t}
  /\ permits' = IF t.op = "ack" THEN permits + 1 ELSE permits
  /\ UNCHANGED <<pc, unstarted, outcome, ch, shutdown, stop>>
  /\ UNCHANGED <<fwdVars, handlers, notified, crashes>>

Settle(t) ==
  /\ t.stage = "settle"
  /\ SettleOk(t) \/ SettleFails(t)
  /\ tasks' = tasks \ {t}
  /\ permits' = permits + 1
  /\ UNCHANGED <<pc, unstarted, outcome, ch, shutdown, stop>>
  /\ UNCHANGED <<fwdVars, handlers, notified, crashes>>

-----------------------------------------------------------------------------

MainNext == StartConsumer \/ TakePermit \/ Receive \/ StopConsumers
            \/ DrainPermit \/ DrainReceive \/ Finish

TaskNext(t) ==
  \/ Undeliverable(t) \/ SpawnHandler(t) \/ DispatchPanics(t)
  \/ HandlerEnds(t) \/ TimeOut(t) \/ AbortLands(t)
  \/ NotifyDead(t) \/ Settle(t)

BrokerNext ==
  \/ \E j \in Jobs : Enqueue(j)
  \/ \E t \in Tags : Redeliver(t) \/ TakeBack(t)

Next ==
  \/ MainNext
  \/ \E q \in Queues : Pull(q) \/ Send(q)
  \/ \E t \in tasks : TaskNext(t)
  \/ BrokerNext
  \/ Shutdown
  \/ Crash

Spec == Init /\ [][Next]_vars

\* The executor polls every task that can go on; a handler returns or, with a
\* timeout, is cancelled.  Nobody has to enqueue, shut down, crash, or make the
\* broker take anything back.
FairSpec ==
  /\ Spec
  /\ WF_vars(MainNext)
  /\ \A q \in Queues : WF_vars(Pull(q)) /\ WF_vars(Send(q))
  /\ WF_vars(\E t \in tasks : TaskNext(t))

-----------------------------------------------------------------------------
(***************************************************************************)
(* Properties                                                              *)
(***************************************************************************)

\* Every part of the state has its type; a slot is with the semaphore, with the
\* main task, or with a job task (run, process).
TypeOK ==
  /\ copies \in Seq(Copy)
  /\ pc \in {"start", "permit", "recv", "stopping", "drain", "drainRecv", "join", "done"}
  /\ unstarted \subseteq Queues
  /\ outcome \in {"Ok", "BackendError", "ConsumerStopped"}
  /\ ch \in Seq(Event) /\ Len(ch) <= Capacity
  /\ permits \in 0..Concurrency
  /\ shutdown \in BOOLEAN /\ stop \in BOOLEAN
  /\ settleFailures \in Nat
  /\ fwd \in [Queues -> {"none", "pull", "send", "done"}]
  /\ item \in [Queues -> Event \cup {NoItem}]
  /\ tasks \subseteq Task
  /\ handlers \subseteq Tags
  /\ notified \subseteq Envelope
  /\ duplicated \subseteq Jobs
  /\ faults \in 0..MaxFaults /\ crashes \in 0..MaxCrashes

\* No more handlers are alive at any time than WorkerBuilder::concurrency allows,
\* the ones being cancelled after a timeout included, and a slot never gets lost:
\* every one is free, in the main task's hand, or with a job task (worker.rs, the
\* await after task.abort, and the permit each process call owns).
ConcurrencyCap ==
  /\ Cardinality(handlers) <= Concurrency
  /\ permits + Cardinality(tasks) + (IF pc \in {"recv", "drainRecv"} THEN 1 ELSE 0)
       = Concurrency

\* No two handlers work on the same job at the same time unless the broker took a
\* delivery back or a settle failed half way: not across retries, timeouts and
\* deferrals, which publish the next copy while this one's task is still there.
NoOverlap ==
  \A s, t \in handlers :
    s # t /\ copies[s].env.job = copies[t].env.job => copies[s].env.job \in duplicated

\* A delivery that was handed over is never dropped unsettled (the doc of
\* Worker::run): only a settle that failed, and was counted, leaves one behind,
\* and nothing is left in the channel or in a task when run returns.
NeverDroppedUnsettled ==
  /\ Cardinality({t \in Tags : copies[t].st = "unacked" /\ t \notin HeldTags})
       <= settleFailures
  /\ pc = "done" => HeldTags \subseteq {0} /\ handlers = {}

\* With a dead-letter hook, no envelope is on the dead-letter queue that the hook
\* was not called for, on every path that dead-letters and across crashes
\* (notify_dead runs before the settle).
HookBeforeDeadLetter ==
  HasHook => \A t \in Tags : copies[t].st = "dead" => copies[t].env \in notified

\* A handler that was told this is the last attempt is right: no retry of that
\* delivery is published (JobContext::is_last_attempt against the policy dispatch
\* decides with, which set_retry_policy may change between attempts).
LastAttemptHonest == \A t \in tasks : t.last => t.op # "retry"

\* The worker implements the promise of AtLeastOnce: through crashes, failed
\* settles, lost connections and shutdown a job is owed until it succeeded or was
\* dead-lettered.
JobsWith(states) == {copies[t].env.job : t \in {u \in Tags : copies[u].st \in states}}

ALO == INSTANCE AtLeastOnce WITH
         owed      <- JobsWith({"ready", "unacked"}),
         succeeded <- JobsWith({"succeeded"}),
         dead      <- JobsWith({"dead"}),
         notified  <- {e.job : e \in notified}

ImplementsAtLeastOnce == ALO!Spec

\* Once shutdown was called run returns (or the process dies first): the consumers
\* are stopped, the channel is drained with the slots there are, and every job
\* task is joined.
ShutdownTerminates == shutdown ~> (pc = "done" \/ ~shutdown)

\* A job that is ready is worked on until it succeeded or is dead, unless run ends,
\* or the job sits unacked with nobody working on it after a failed settle or a
\* panic in its task.
Stranded(j) == \E t \in Tags : copies[t].env.job = j /\ copies[t].st = "unacked"
                                /\ t \notin HeldTags

JobsFinish ==
  \A j \in Jobs :
    j \in JobsWith({"ready", "unacked"})
      ~> (j \notin JobsWith({"ready", "unacked"}) \/ pc = "done" \/ Stranded(j))
=============================================================================
