------------------------------- MODULE RabbitMq -------------------------------
(***************************************************************************)
(* Processes that share a RabbitMQ broker through RabbitMqBackend: they    *)
(* declare queues, publish, consume, retry, defer and dead-letter, and     *)
(* restore their queues after an outage (rabbitmq/src/backend.rs,          *)
(* delivery.rs, publisher.rs, connection.rs).                              *)
(*                                                                         *)
(* A process works on one delivery or one publish at a time, while a       *)
(* declare and the replay of a reconnect go on beside it.  How a           *)
(* connection is replaced is module Connection, how publishes share        *)
(* channels is module Publisher, and time is left to both: a hold queue    *)
(* releases a message some time, and is deleted some time once it owes     *)
(* none that was published within a TTL of its declaration.                *)
(*                                                                         *)
(* External: the broker, its operator, and the application that enqueues   *)
(* jobs and handles them.                                                  *)
(***************************************************************************)
EXTENDS Topology, Envelopes, FiniteSets, Functions, BagsExt, SequencesExt

CONSTANTS
  Procs,        \* processes, each with a backend of its own
  Workers,      \* the processes that consume
  Producers,    \* and those that enqueue
  Options,      \* RabbitMqOptions of each process
  Calls,        \* the lists of queues a process may declare
  QueueOf,      \* the configuration of the queue of each job
  Poison,       \* jobs whose body is not an envelope
  Waits,        \* the delays that are asked for
  Meddling,     \* what an operator may do: [queue, by], by being what takes its place
  MaxRounds,    \* bound on the retries and deferrals of a job
  MaxJobs,      \* bound on the jobs there are at a time or were accepted
  MaxOutages,   \* bound on lost connections, crashes, broker restarts
  MaxTroubles   \* bound on nacks, lost confirms, channels that do not open, publishes
                \* that wait for too long, and on what the operator does

ASSUME RabbitMqAssumption ==
  /\ Waits \subseteq Nat
  /\ Poison \subseteq Jobs /\ Workers \subseteq Procs /\ Producers \subseteq Procs
  /\ \A p \in Procs : Options[p] \in RabbitMqOptions /\ Options[p].dead_suffix # ""
  /\ \A p \in Procs : Calls[p] \subseteq Seq(QueueConfig)
  /\ \A j \in Jobs : QueueOf[j] \in QueueConfig /\ QueueOf[j].max_priority = MaxPriority
  /\ \A hand \in Meddling : \A d \in hand.by : d.name = hand.queue
  /\ MaxRounds \in Nat /\ MaxJobs \in Nat /\ MaxOutages \in Nat /\ MaxTroubles \in Nat

VARIABLES
  \* the broker
  queues,     \* the declarations of the queues there are
  store,      \* a bag of copies [queue, msg, holder]
  \* per process
  up,         \* the connection is live
  configs,    \* ConnectionHandle::configs
  declaring,  \* what a call of declare still has to declare
  replaying,  \* what redeclare still has to declare
  task,       \* the delivery or the publish it works on
  \* what happened
  accepted,   \* jobs whose publish returned Ok
  done,       \* jobs a handler finished and that were acked
  rejected,   \* jobs that were rejected for want of a dead-letter queue
  reported,   \* processes whose last replay logged an error
  meddled,    \* queues the operator deleted or replaced
  late,       \* copies published to a hold queue a TTL or more after its declaration,
              \* until they are released
  restarts, outages, troubles

brokerVars  == <<queues, store>>
processVars == <<up, configs, declaring, replaying, task>>
jobVars     == <<accepted, done, rejected>>
faultVars   == <<meddled, late, restarts, outages, troubles>>
vars == <<brokerVars, processVars, jobVars, reported, faultVars>>

Nobody == "nobody"
ASSUME NobodyAssumption == Nobody \notin Procs

Idle   == [op |-> "none", at |-> "idle"]

Init ==
  /\ queues = {}
  /\ store = EmptyBag
  /\ up = [p \in Procs |-> TRUE]
  /\ configs = [p \in Procs |-> {}]
  /\ declaring = [p \in Procs |-> <<>>]
  /\ replaying = [p \in Procs |-> <<>>]
  /\ task = [p \in Procs |-> Idle]
  /\ accepted = {} /\ done = {} /\ rejected = {}
  /\ reported = {}
  /\ meddled = {} /\ late = {}
  /\ restarts = 0 /\ outages = 0 /\ troubles = 0

-----------------------------------------------------------------------------
(***************************************************************************)
(* The broker.                                                             *)
(***************************************************************************)
Exists(name) == \E d \in queues : d.name = name

\* A queue that is there is only declared again with what it was declared with.
Agrees(declaration) ==
  \A d \in queues : d.name = declaration.name => d = declaration

Copy(name, msg) == [queue |-> name, msg |-> msg, holder |-> Nobody]

Publish(name, msg) == store' = BagAdd(store, Copy(name, msg))

\* A copy whose holder is gone is ready again.
Ready(c, gone) == IF c.holder \in gone THEN [c EXCEPT !.holder = Nobody] ELSE c

Total(bag, copies) == FoldFunctionOnSet(+, 0, bag, copies)

\* The copies that are left when the queues and the holders are gone.
Without(names, gone) ==
  LET left == {c \in DOMAIN store : c.queue \notin names}
  IN  [c \in {Ready(e, gone) : e \in left} |->
         Total(store, {e \in left : Ready(e, gone) = c})]

Trouble == troubles < MaxTroubles /\ troubles' = troubles + 1

Goto(p, changed) == task' = [task EXCEPT ![p] = changed]

-----------------------------------------------------------------------------
(***************************************************************************)
(* declare, and the replay of a reconnect.                                 *)
(***************************************************************************)

\* declare_topology on a channel.  The queue and its dead-letter queue are two
\* declarations and one step: a cut between them leaves what a refusal of the second
\* one leaves.  What comes after a refused one is not declared.
Accepted(p, config) ==
  LET all   == declare_topology(config, Options[p])
      Ok(n) == short_string(all[n].name) /\ Agrees(all[n])
  IN  {all[i] : i \in {k \in DOMAIN all : \A n \in 1..k : Ok(n)}}

Refused(p, config) ==
  Cardinality(Accepted(p, config)) < Len(declare_topology(config, Options[p]))

\* RabbitMqBackend::declare: every name is checked before the first queue exists.
\* Declaring what is declared changes nothing, so it is not repeated.
Declare(p) ==
  /\ up[p]
  /\ declaring[p] = <<>>
  /\ \E list \in Calls[p] :
       /\ list # <<>>
       /\ \A i \in DOMAIN list :
            check_deferrable_name(list[i].name, Options[p].deferred_suffix)
       /\ \E i \in DOMAIN list : list[i] \notin configs[p] \/ ~Exists(list[i].name)
       /\ declaring' = [declaring EXCEPT ![p] = list]
  /\ UNCHANGED <<brokerVars, up, configs, replaying, task, jobVars, reported, faultVars>>

\* ConnectionHandle::remember: a map by name.
Remember(p, config) ==
  configs' = [configs EXCEPT ![p] = {c \in @ : c.name # config.name} \cup {config}]

\* declare_one: a queue is remembered once all of it was declared.  A refusal ends
\* the call; what was declared before it stays declared and remembered.
DeclareOne(p) ==
  /\ up[p]
  /\ declaring[p] # <<>>
  /\ LET config == Head(declaring[p])
     IN  /\ queues' = queues \cup Accepted(p, config)
         /\ IF Refused(p, config)
            THEN declaring' = [declaring EXCEPT ![p] = <<>>] /\ UNCHANGED configs
            ELSE declaring' = [declaring EXCEPT ![p] = Tail(@)] /\ Remember(p, config)
  /\ UNCHANGED <<store, up, replaying, task, jobVars, reported, faultVars>>

\* Faulty variant: only what a restart keeps is declared again.
ReconnectDurable(p) ==
  /\ ~up[p]
  /\ Options[p].reconnect
  /\ up' = [up EXCEPT ![p] = TRUE]
  /\ \E list \in SetToSeqs({c \in configs[p] : c.durable}) :
       replaying' = [replaying EXCEPT ![p] = list]
  /\ reported' = reported \ {p}
  /\ UNCHANGED <<brokerVars, configs, declaring, task, jobVars, faultVars>>

\* ensure_connected installs the new connection for everybody and then redeclares, on
\* a channel of its own if it gets one, in the order of a HashMap.
Reconnect(p) ==
  /\ ~up[p]
  /\ Options[p].reconnect
  /\ up' = [up EXCEPT ![p] = TRUE]
  /\ \/ /\ \E list \in SetToSeqs(configs[p]) : replaying' = [replaying EXCEPT ![p] = list]
        /\ reported' = reported \ {p}
        /\ UNCHANGED faultVars
     \/ /\ configs[p] # {}
        /\ Trouble
        /\ reported' = reported \cup {p}
        /\ UNCHANGED <<replaying, meddled, late, restarts, outages>>
  /\ UNCHANGED <<brokerVars, configs, declaring, task, jobVars>>

\* redeclare: the first refusal closes the channel and ends the replay.
Redeclare(p) ==
  /\ up[p]
  /\ replaying[p] # <<>>
  /\ LET config == Head(replaying[p])
     IN  /\ queues' = queues \cup Accepted(p, config)
         /\ IF Refused(p, config)
            THEN /\ replaying' = [replaying EXCEPT ![p] = <<>>]
                 /\ reported' = reported \cup {p}
            ELSE replaying' = [replaying EXCEPT ![p] = Tail(@)] /\ UNCHANGED reported
  /\ UNCHANGED <<store, up, configs, declaring, task, jobVars, faultVars>>

-----------------------------------------------------------------------------
(***************************************************************************)
(* Publishing.  A task is what it is for, the step it is at, the message   *)
(* of its delivery, what it sends where, and whether the delivery is still *)
(* the connection's to settle.                                             *)
(***************************************************************************)
Task(op, at, msg, sends, to, live) ==
  [op |-> op, at |-> at, msg |-> msg, sends |-> sends, to |-> to, live |-> live]

Job(msg)   == msg.env.job
Queue(msg) == QueueOf[Job(msg)].name

\* Publisher::config_for: at most one.
config_for(p, name) == {c \in configs[p] : c.name = name}

\* Hold::granularity
Granularity(p, hold) == IF hold = "Retry" THEN Options[p].retry_granularity
                        ELSE Options[p].deferred_granularity

\* publish_held, up to the declaration.  A queue that was never declared here, a delay
\* that is too long and a name that is too long are errors.
publish_held(p, op, msg, next, hold, live) ==
  \E delay \in Waits :
    LET ttl == deferred_ttl_ms(delay, Granularity(p, hold))
        targets == IF ttl = TooLong THEN {}
                   ELSE {d \in {HoldQueue(c, Options[p], ttl) : c \in config_for(p, Queue(msg))} :
                           short_string(d.name)}
    IN  IF targets = {} THEN Goto(p, Idle)
        ELSE \E d \in targets : Goto(p, Task(op, "declare", msg, props_for(next), d, live))

\* The jobs that are on the broker or in a task.
Around == {Job(c.msg) : c \in DOMAIN store}
          \cup {Job(task[p].msg) : p \in {q \in Procs : task[q].at # "idle"}}

\* Producer::enqueue_with: at once, after a delay, or deferred.  A job is enqueued
\* until it is on the broker.
Enqueue(p, j) ==
  /\ p \in Producers
  /\ task[p].at = "idle"
  /\ j \notin Poison \cup accepted \cup Around
  /\ Cardinality(accepted \cup Around) < MaxJobs
  /\ LET msg == props_for(NewEnvelope(j))
     IN  \/ Goto(p, Task("enqueue", "publish", msg, msg, Main(QueueOf[j]), FALSE))
         \/ publish_held(p, "enqueue", msg, NewEnvelope(j), "Retry", FALSE)
         \/ publish_held(p, "enqueue", msg, NewDeferred(j), "Deferral", FALSE)
  /\ UNCHANGED <<brokerVars, up, configs, declaring, replaying, jobVars, reported, faultVars>>

\* Somebody else puts bytes on the queue that are no envelope.
Scribble(j) ==
  /\ j \in Poison \ accepted
  /\ Cardinality(accepted \cup Around) < MaxJobs
  /\ Exists(QueueOf[j].name)
  /\ Publish(QueueOf[j].name, props_for(NewEnvelope(j)))
  /\ accepted' = accepted \cup {j}
  /\ UNCHANGED <<queues, processVars, done, rejected, reported, faultVars>>

\* publish_held declares the hold queue before every publish, on the declaration
\* channel, so a refusal costs nobody else anything.
DeclareHold(p) ==
  /\ up[p]
  /\ task[p].at = "declare"
  /\ IF Agrees(task[p].to)
     THEN /\ queues' = queues \cup {task[p].to}
          /\ Goto(p, [task[p] EXCEPT !.at = "publish"])
     ELSE Goto(p, Idle) /\ UNCHANGED queues
  /\ UNCHANGED <<store, up, configs, declaring, replaying, jobVars, reported, faultVars>>

\* The caller gets Ok; or a delivery can now be settled.
Confirmed(p) ==
  IF task[p].op = "enqueue"
  THEN accepted' = accepted \cup {Job(task[p].msg)} /\ Goto(p, Idle)
  ELSE Goto(p, [task[p] EXCEPT !.at = "settle"]) /\ UNCHANGED accepted

\* The caller gets an error: a delivery is left unacked, except that discard_malformed
\* falls back to a reject.
Failed(p) ==
  Goto(p, IF task[p].op = "malformed" THEN [task[p] EXCEPT !.op = "reject", !.at = "settle"]
          ELSE Idle)

\* ConfirmChannels::acquire, or a reconnect, keeps a publish waiting until the TTL of
\* the hold queue it declared is over.
Wait(p) ==
  /\ task[p].at = "publish"
  /\ task[p].to.args.expires # Absent
  /\ Trouble
  /\ Goto(p, [task[p] EXCEPT !.at = "late"])
  /\ UNCHANGED <<brokerVars, up, configs, declaring, replaying, jobVars, reported>>
  /\ UNCHANGED <<meddled, late, restarts, outages>>

\* The broker takes the message of a publish.
Store(p) ==
  LET name == task[p].to.name
  IN  /\ Publish(name, task[p].sends)
      /\ late' = IF task[p].at = "late" THEN late \cup {Copy(name, task[p].sends)} ELSE late

\* publish_confirmed: mandatory, so a missing queue returns the message, and confirmed;
\* the confirm of a message that was stored may be lost.
PublishConfirmed(p) ==
  /\ up[p]
  /\ task[p].at \in {"publish", "late"}
  /\ LET name == task[p].to.name
     IN  \/ /\ Exists(name)
            /\ Store(p)
            /\ Confirmed(p)
            /\ UNCHANGED <<meddled, restarts, outages, troubles>>
         \/ /\ Exists(name)
            /\ Trouble
            /\ Store(p) \/ UNCHANGED <<store, late>>
            /\ Failed(p)
            /\ UNCHANGED <<accepted, meddled, restarts, outages>>
         \/ /\ ~Exists(name)
            /\ Failed(p)
            /\ UNCHANGED <<store, accepted, faultVars>>
  /\ UNCHANGED <<queues, up, configs, declaring, replaying, done, rejected, reported>>

\* The connection died under the call.  A call that finds it dead before it starts
\* waits for the reconnect instead, which is PublishConfirmed later on.
Interrupted(p) ==
  /\ ~up[p]
  /\ task[p].at \in {"declare", "publish", "late"}
  /\ Failed(p)
  /\ UNCHANGED <<brokerVars, up, configs, declaring, replaying, jobVars, reported, faultVars>>

-----------------------------------------------------------------------------
(***************************************************************************)
(* Consuming and settling.                                                 *)
(***************************************************************************)

\* dead_letter, and discard_malformed: to the dead-letter queue if this backend has
\* any, else back to the broker, which drops it.
GiveUp(p, op, msg, sends, live) ==
  IF Options[p].declare_dead_letter_queues
  THEN Goto(p, Task(op, "publish", msg, sends, Dead(QueueOf[Job(msg)], Options[p]), live))
  ELSE Goto(p, Task("reject", "settle", msg, msg, Main(QueueOf[Job(msg)]), live))

\* delivery_stream: a body that does not decode never reaches the worker.
Receive(p) ==
  /\ p \in Workers
  /\ up[p]
  /\ task[p].at = "idle"
  /\ \E c \in DOMAIN store :
       /\ c.holder = Nobody
       /\ config_for(p, c.queue) # {}
       /\ store' = BagAdd(BagRemove(store, c), [c EXCEPT !.holder = p])
       /\ IF Job(c.msg) \in Poison
          THEN GiveUp(p, "malformed", c.msg, malformed_props(c.msg.env, c.queue), TRUE)
          ELSE Goto(p, Task("run", "run", c.msg, c.msg, Main(QueueOf[Job(c.msg)]), TRUE))
  /\ UNCHANGED <<queues, up, configs, declaring, replaying, jobVars, reported, faultVars>>

Rounds(env) == env.attempt - 1 + env.deferrals

\* Faulty variant: the original is acked before the retry is published.
AckFirst(p) ==
  /\ task[p].at = "run"
  /\ LET msg == task[p].msg
         env == msg.env
     IN  /\ Rounds(env) < MaxRounds
         /\ task[p].live
         /\ store' = BagRemove(store, [queue |-> Queue(msg), msg |-> msg, holder |-> p])
         /\ publish_held(p, "enqueue", msg, NextAttempt(env), "Retry", FALSE)
  /\ UNCHANGED <<queues, up, configs, declaring, replaying, jobVars, reported, faultVars>>

\* What the worker does with the delivery: ack, retry, defer or dead_letter.
Handled(p) ==
  /\ task[p].at = "run"
  /\ LET msg == task[p].msg
         env == msg.env
     IN  \/ Goto(p, [task[p] EXCEPT !.op = "ack", !.at = "settle"])
         \/ /\ Rounds(env) < MaxRounds
            /\ publish_held(p, "retry", msg, NextAttempt(env), "Retry", task[p].live)
         \/ /\ Rounds(env) < MaxRounds
            /\ publish_held(p, "defer", msg, Deferred(env), "Deferral", task[p].live)
         \/ GiveUp(p, "dead", msg, dead_letter_props(env, Queue(msg), "dead"), task[p].live)
  /\ UNCHANGED <<brokerVars, up, configs, declaring, replaying, jobVars, reported, faultVars>>

\* ack_original, reject_original.  On a connection that is gone they fail with
\* AlreadySettled, and the broker has taken the delivery back.
Settle(p) ==
  /\ task[p].at = "settle"
  /\ LET msg == task[p].msg
     IN  IF task[p].live
         THEN /\ store' = BagRemove(store, [queue |-> Queue(msg), msg |-> msg, holder |-> p])
              /\ done' = IF task[p].op = "ack" THEN done \cup {Job(msg)} ELSE done
              /\ rejected' = IF task[p].op = "reject" THEN rejected \cup {Job(msg)}
                             ELSE rejected
         ELSE UNCHANGED <<store, done, rejected>>
  /\ Goto(p, Idle)
  /\ UNCHANGED <<queues, up, configs, declaring, replaying, accepted, reported, faultVars>>

-----------------------------------------------------------------------------
(***************************************************************************)
(* What the broker does on its own, and what goes wrong.                   *)
(***************************************************************************)

\* x-message-ttl with a dead-letter target: the message goes on to a queue that may
\* not be there, and nobody is told.
Release(c) ==
  /\ c.holder = Nobody
  /\ \E d \in queues :
       /\ d.name = c.queue
       /\ d.args.dead_letter_to # ""
       /\ store' = IF Exists(d.args.dead_letter_to)
                   THEN BagAdd(BagRemove(store, c), Copy(d.args.dead_letter_to, c.msg))
                   ELSE BagRemove(store, c)
  /\ late' = IF c \in DOMAIN store' THEN late ELSE late \ {c}
  /\ UNCHANGED <<queues, processVars, jobVars, reported, meddled, restarts, outages, troubles>>

\* x-message-ttl without one.
Expire(c) ==
  /\ c.holder = Nobody
  /\ \E d \in queues : /\ d.name = c.queue
                       /\ d.args.message_ttl # Absent
                       /\ d.args.dead_letter_to = ""
  /\ store' = BagRemove(store, c)
  /\ UNCHANGED <<queues, processVars, jobVars, reported, faultVars>>

\* x-expires, twice the TTL after the last declaration: the queue is deleted, and what
\* is in it.  By then a message that was published within a TTL of a declaration has
\* been released (LostOnlyIfLate of module Publisher); a later one need not be.
DeleteUnused(d) ==
  /\ d.args.expires # Absent
  /\ \A c \in DOMAIN store : c.queue = d.name => c \in late
  /\ \A p \in Procs : task[p].at = "publish" => task[p].to # d
  /\ queues' = queues \ {d}
  /\ store' = Without({d.name}, {})
  /\ UNCHANGED <<processVars, jobVars, reported, faultVars>>

Outage == outages < MaxOutages /\ outages' = outages + 1

\* The delivery a task works on is no longer its connection's.
Detached(gone, names) ==
  [p \in Procs |->
     IF task[p].at # "idle" /\ (p \in gone \/ Queue(task[p].msg) \in names)
     THEN [task[p] EXCEPT !.live = FALSE] ELSE task[p]]

Cut(P) ==
  /\ declaring' = [p \in Procs |-> IF p \in P THEN <<>> ELSE declaring[p]]
  /\ replaying' = [p \in Procs |-> IF p \in P THEN <<>> ELSE replaying[p]]

\* A connection is lost: what it had unacked is ready again.
Drop(p) ==
  /\ up[p]
  /\ Outage
  /\ up' = [up EXCEPT ![p] = FALSE]
  /\ store' = Without({}, {p})
  /\ task' = Detached({p}, {})
  /\ Cut({p})
  /\ UNCHANGED <<queues, configs, jobVars, reported, meddled, late, restarts, troubles>>

\* A process dies and is started again.
Crash(p) ==
  /\ Outage
  /\ up' = [up EXCEPT ![p] = TRUE]
  /\ store' = Without({}, {p})
  /\ configs' = [configs EXCEPT ![p] = {}]
  /\ Goto(p, Idle)
  /\ Cut({p})
  /\ reported' = reported \ {p}
  /\ UNCHANGED <<queues, jobVars, meddled, late, restarts, troubles>>

\* The broker restarts: every connection is lost, and every queue that is not durable.
Restart ==
  /\ Outage
  /\ restarts' = restarts + 1
  /\ LET transient == {d \in queues : ~d.options.durable}
         names     == {d.name : d \in transient}
     IN  /\ queues' = queues \ transient
         /\ store' = Without(names, Procs)
  /\ up' = [p \in Procs |-> FALSE]
  /\ task' = Detached(Procs, {})
  /\ Cut(Procs)
  /\ UNCHANGED <<configs, jobVars, reported, meddled, late, troubles>>

\* An operator deletes a queue, or replaces it by one with other arguments.
Meddle(d) ==
  /\ Trouble
  /\ \E hand \in Meddling :
       /\ hand.queue = d.name
       /\ queues' = (queues \ {d}) \cup hand.by
  /\ meddled' = meddled \cup {d.name}
  /\ store' = Without({d.name}, {})
  /\ task' = Detached({}, {d.name})
  /\ UNCHANGED <<up, configs, declaring, replaying, jobVars, reported>>
  /\ UNCHANGED <<late, restarts, outages>>

-----------------------------------------------------------------------------
Process(p) ==
  \/ Declare(p) \/ DeclareOne(p)
  \/ Reconnect(p) \/ Redeclare(p)
  \/ \E j \in Jobs : Enqueue(p, j)
  \/ DeclareHold(p) \/ Wait(p) \/ PublishConfirmed(p) \/ Interrupted(p)
  \/ Receive(p) \/ Handled(p) \/ Settle(p)

Broker ==
  \/ \E c \in DOMAIN store : Release(c) \/ Expire(c)
  \/ \E d \in queues : DeleteUnused(d) \/ Meddle(d)
  \/ Restart

Next ==
  \/ \E p \in Procs : Process(p) \/ Drop(p) \/ Crash(p)
  \/ \E j \in Jobs : Scribble(j)
  \/ Broker

Spec == Init /\ [][Next]_vars

-----------------------------------------------------------------------------
(***************************************************************************)
(* Properties.                                                             *)
(***************************************************************************)

\* A job whose publish returned Ok is on the broker until a handler finished it,
\* through lost connections, crashes, lost confirms and broker restarts.  It can only
\* disappear by what was asked for: a message TTL, a reject where there are no
\* dead-letter queues or none that takes a malformed body, an operator's hand on one
\* of its queues, a restart when its queue is not durable, or the x-expires of a hold
\* queue that it reached a TTL or more after the queue was declared.
OfJob(j, name) ==
  \/ name = QueueOf[j].name
  \/ \E p \in Procs : name = dead_queue_name(QueueOf[j].name, Options[p].dead_suffix)
  \/ \E p \in Procs, ttl \in Ttls :
       name = deferred_queue_name(QueueOf[j].name, Options[p].deferred_suffix, ttl)

NothingLost ==
  \A j \in accepted :
    \/ \E c \in DOMAIN store : Job(c.msg) = j
    \/ j \in done \cup rejected
    \/ QueueOf[j].message_ttl # {}
    \/ ~QueueOf[j].durable /\ restarts > 0
    \/ \E name \in meddled : OfJob(j, name)
    \/ \E c \in late : Job(c.msg) = j

\* The queues that anybody declares or enqueues for, and the names of their dead-letter
\* and hold queues.
Known == {QueueOf[j] : j \in Jobs}
           \cup UNION {UNION {Range(list) : list \in Calls[p]} : p \in Procs}
DeadName(c, p) == dead_queue_name(c.name, Options[p].dead_suffix)
HoldName(c, p, ttl) == deferred_queue_name(c.name, Options[p].deferred_suffix, ttl)

\* What the code leaves to its users: everybody means the same by a queue's name, and
\* no queue is called what another one's dead-letter or hold queue is called.
NamesApart ==
  /\ \A c \in Known : c.name # ""
  /\ \A c, d \in Known : c.name = d.name => c = d
  /\ \A c, d \in Known : \A p \in Procs : DeadName(c, p) # d.name
  /\ \A c, d \in Known : \A p, q \in Procs : \A ttl \in Ttls :
       /\ HoldName(c, p, ttl) # d.name
       /\ HoldName(c, p, ttl) # DeadName(d, q)
       /\ \A other \in Ttls :
            HoldName(c, p, ttl) = HoldName(d, q, other) => c.name = d.name /\ ttl = other

\* An operator may delete a hold queue, and puts nothing else in its place.
HoldsUnreplaced ==
  \A hand \in Meddling : \A d \in hand.by : \A c \in Known : \A p \in Procs :
    \A ttl \in Ttls : d.name # HoldName(c, p, ttl)

\* Processes that agree about a queue and not about options, declaring hold queues
\* for each other's jobs, never lock each other out: the broker refuses no hold queue
\* (its arguments follow from its name), whatever becomes of the queue it is for.
HoldsAgree == \A p \in Procs : task[p].at = "declare" => Agrees(task[p].to)

\* A dead letter stays where it is until an operator has a hand on its queue: it does
\* not expire, is not consumed, and outlives a restart even where its queue does not.
IsDead(name) ==
  \E p \in Procs, j \in Jobs :
    /\ Options[p].declare_dead_letter_queues
    /\ name = dead_queue_name(QueueOf[j].name, Options[p].dead_suffix)

Copies(c, bag) == IF c \in DOMAIN bag THEN bag[c] ELSE 0

DeadLettersTerminal ==
  [][\A c \in DOMAIN store :
       Copies(c, store') < Copies(c, store) /\ IsDead(c.queue) => c.queue \in meddled']_vars

\* When a reconnect is through with its replay and logged no error, every queue the
\* process ever declared is there again, dead-letter queues included, unless an
\* operator took it away.
RestoredOrReported ==
  \A p \in Procs :
    up[p] /\ replaying[p] = <<>> /\ p \notin reported =>
      \A c \in configs[p] :
        /\ Exists(c.name) \/ c.name \in meddled
        /\ LET dead == dead_queue_name(c.name, Options[p].dead_suffix)
           IN  Options[p].declare_dead_letter_queues => Exists(dead) \/ dead \in meddled
=============================================================================
