# queuey: a TLA+ verification project

queuey is a job-queue library for Rust. Producers publish jobs, a broker stores
them, and workers run a handler per job with retries, deferrals, dead letters,
timeouts and graceful shutdown. The crates are `core` (the runtime and an in-memory
backend), `rabbitmq` (the production backend), `macros` (derives) and `queuey` (the
facade). This directory models the concurrent parts, the conversation with the broker and
the path from an attribute to a retry policy, checks them with TLC on small instances,
and proves every safety property of the runs that hold for every instance with TLAPS.

## Inventory

| Component | State it keeps | Operations | What makes it correct |
|---|---|---|---|
| Envelope (`core/envelope.rs`) | job id, attempt, deferrals, priority | `new`, `next_attempt`, `deferred` | counters move as scheduled |
| In-memory backend (`core/memory.rs`) | one mutex: pending, settled, dead, registered semaphores, held counter, watch signal, closed flag; one task and one channel per consumer; timer tasks | `publish`, `defer`, `consume`, `close`, stream `next` and drop, `ack`, `retry`, `defer`, `dead_letter` | nothing lost or duplicated; the prefetch window; no lost wakeup; exact counters; a close ends every task |
| Worker (`core/worker.rs`) | dispatch channel, semaphore, stop and shutdown watches, join sets, settle-failure counter | `run`, `consume_into`, `process`, `dispatch`, `notify_dead`, `settle`, `shutdown` | concurrency cap; nothing dropped unsettled; hook before dead letter; shutdown ends |
| Backend contract (`core/backend.rs`) | none | `Backend`, `Delivery` | at-least-once: publish before ack |
| Retry policy (`core/retry.rs`, `core/handler.rs`) | none | `decide`, `delay_for`, `is_last_attempt` | the two attempt comparisons agree; delays stay within bounds |
| Connection handle (`rabbitmq/connection.rs`, `reconnect.rs`) | current connection, generation, reconnect mutex, closing flag and notify, known configs | `ensure_connected`, `install`, `sleep_unless_closing`, `mark_closing`, `close` | single-flight reconnect; no backoff outlives a close; closed stays closed |
| Consumer streams (`rabbitmq/backend.rs`) | lapin consumer, channel, generation | `consume`, `delivery_stream`, `recover`, `discard_malformed` | a stream recovers or says so |
| Confirm pool (`rabbitmq/publisher.rs`) | idle channels, permits, declare channel | `acquire`, `publish_confirmed`, `publish_held`, `close` | one outstanding confirm per channel; close waits for publishes |
| Delivery (`rabbitmq/delivery.rs`) | acker | `ack`, `retry`, `defer`, `dead_letter` | publish first, ack second |
| Topology (`rabbitmq/topology.rs`, `options.rs`, `codec.rs`) | the broker's queues, arguments and messages | names, arguments, `deferred_ttl_ms`, message properties | never early; the queue outlives its messages; a name determines the arguments; dead letters are terminal |
| Worker builder (`core/worker.rs`) | handlers, overrides, selected queues | builder calls, `build` | the most specific policy wins, in whatever order it was given |
| Derives (`macros/`) | compile-time slots | `parse_*`, `finish`, `derive` | no key is dropped, order does not matter, what compiles can be declared (length of names aside) |
| Producer, queue and job types, errors, facade | configuration and re-exports | | not stateful |

How they interact: a worker asks its backend for one stream per queue; one task per
queue forwards deliveries through a bounded channel to the dispatch loop, which spawns
a task per delivery; that task settles the delivery through the backend, possibly
publishing a successor. In the RabbitMQ backend publishers and streams share one
connection handle; whoever notices an outage first reconnects for everybody and replays
the queue declarations of its process. Several processes share the broker and nothing
else, so all they know of each other is the arguments a queue was declared with.

What is hard: two critical sections that belong together (check `closed`, then
enqueue); a task that sleeps on a signal; permits that travel through tasks and
channels; a timeout against a handler that is still alive; a process dying between two
broker calls; many clients noticing one outage; a close racing all of it; a broker that forgets some of
the queues and none of the messages; configuration from five places. `PROJECT.json`
lists these hazards at their lines, with the properties that cover them.

## Modules

- `Envelopes`: the envelope fields scheduling reads, and their constructors.
- `MemoryBackend`: one queue of the in-memory backend. One action is one critical
  section of the mutex, or one step of a task between two of them. `pc`, `hand`, `chan`,
  `rx`, `unread` and `permits` are the consumer task, its popped envelope, its channel,
  its stream, what a dropped stream has drained, and its semaphore; `calls`, `out` and
  `timers` are publish calls past their closed check, deliveries handed out, and spawned
  sleeps. `signal` is the set of receivers with an unseen change, which is all that a
  `watch` version tells a receiver. `gone` records copies that left unsettled, and why.
  Queues share nothing but `closed`, so one queue is enough.
- `MemoryBackendProofs`: theorems about it, as `WorkerProofs`, `ConnectionProofs`,
  `PublisherProofs`, `RabbitMqProofs` and `ConfigurationProofs` are about the modules below.
  `AttributesProofs` holds the lemmas about `Retry` and `Attributes` that `ConfigurationProofs`
  rests on.
- `AtLeastOnce`: the promise without the machinery. A job is owed from the moment it is
  accepted until it succeeded or was dead-lettered; with a hook, nothing is dead-lettered
  before the hook ran; duplicates are allowed.
- `Worker`: `Worker::run` as a main task (`pc`), one forwarder per queue (`fwd`, `item`),
  one record in `tasks` per delivery being processed, and the live handler tasks
  (`handlers`). The broker is external: `copies` is every message copy and its owner.
  `TakeBack` is the broker redelivering a message whose handler is still running, `Redeliver`
  what happens to messages nobody holds, `Crash` the process dying and being restarted.
  A settle may fail before or after its successor was published.
- `Connection`: `ConnectionHandle` with consumer streams and publishers as clients, each
  with a `pc` through `ensure_connected`, `sleep_unless_closing` and `recover`, and
  `RabbitMqBackend::close` as `closer`. Every access to shared state is a step of its own:
  the flag and the notification of `mark_closing`, the closing check and `install`, the
  swap and the generation bump.
- `Delays`: which TTL a delay is rounded to, and `x-expires`. `DelaysProofs`: theorems about it.
- `Publisher`: the confirm pool (`idle`, `permits`, and `queue`, the semaphore's waiters in
  order), the declaration channel, calls of `publish_*` with a `pc`, and the hold queues.
  External, and modelled from what the code says of them: lapin's confirms (`unconfirmed`
  and `returned` per channel; an ack may cover several publishes, and returned messages
  are attached to them in no particular order), and the broker's timers (`age` of a held
  message, `unused` of a hold queue). Timers are relative, so no clock has to be bounded;
  `lag`, the time from a call's declaration to its publish, stops counting at the TTL.
  `ensure_connected` only succeeds or fails here; what it does is module `Connection`.
- `Topology`: pure. The declarations behind a queue (main, dead-letter and hold queue, each
  with everything the broker compares when it is declared again), the options they depend
  on, the limit on names, and what a message carries.
- `RabbitMq`: processes with different options on one broker. `queues` and `store` are the
  broker (external: routing of mandatory publishes, refusal of a different redeclaration,
  TTL, dead-lettering, `x-expires`, requeueing, restarts, an operator), and `late` remembers
  which messages were published a TTL or more after their hold queue was declared. Each process has
  the configs it declared (`configs`), a call of `declare` and a replay going on
  (`declaring`, `replaying`), and one task, either a publish or a delivery between
  being received and settled. It composes `Topology`, `Delays` and `Envelopes` along the calls of
  `backend.rs`, `publisher.rs` and `delivery.rs`; channels and the reconnect lock are left to
  `Publisher` and `Connection`. Of time only the order is here that `Publisher` shows to matter:
  `Wait` keeps a publish until its TTL is over, and `DeleteUnused` takes a hold queue with what
  is in it once all of that came late (`LostOnlyIfLate`). A queue and its dead-letter queue are declared in
  one step.
- `Retry`: pure. Policies, backoff curves and `decide`, and the pacing of reconnects. A
  factor is a fraction, where the code has an `f64`; a jittered delay is the interval it is
  drawn from.
- `Attributes`: pure. The grammar of both derives: literals, durations, lists of keys with
  `set_once`, retry lists, names and prefixes, the crate path, and the generated config and
  policy. Where the code returns a `Result` or an `Option`, an operator returns a set of at
  most one element. Loops (`ParseItems`, `snake_case`, and `power` in `Retry`) are recursive
  functions, not recursive operators, so that they can be reasoned about.
- `Configuration`: an author writes keys one at a time, the derives accept or reject, a
  program calls the `WorkerBuilder`, builds, and runs a job through its attempts. When it
  starts, the source is forgotten, which only keeps the state space small. `Sources` is all
  that may be written: items of any number, whose literals are of any of the kinds the
  parser distinguishes, in an enum of no variants or of two.
- `MCMemoryBackend`, `MCWorker`, `MCRabbitMq`, `MCConfiguration`: instances for TLC. `Connection`
  and `Publisher` need none.

Definitions called "faulty variant" are the mutants: each is a plausible bug, and the
property it is paired with in `PROJECT.json` fails when it replaces the original. No
specification uses them.

## Runs

| Run | Instance | Shows |
|---|---|---|
| `memory` | 2 jobs, 2 consumers, prefetch 1, 2 attempts, priorities 0 and 5 | no loss, no duplicate, exact `held`, prefetch window, no lost wakeup, a closed backend accepts nothing |
| `memory_live` | 1 job, 2 consumers, 2 attempts, 1 deferral | consumer tasks end; accepted jobs finish |
| `worker` | 2 jobs, 1 queue, concurrency 2, policies of 0, 1 or 2 attempts, hook, timeout, 1 fault | cap, no overlap, nothing dropped, honest last attempt |
| `worker_crash` | 1 job, 2 queues, 1 crash, 1 fault (a panic in the job task included), 1 deferral, no timeout, policies of 0 or 2 attempts | the worker implements `AtLeastOnce` through crashes and half-done settles; the hook comes first, before a crash or after; shutdown ends; ready jobs are worked on |
| `connection` | 1 stream, 1 publisher, 2 drops, 2 refusals, 2 attempts | single-flight, generation order, no sleep through a close, close returns, streams recover |
| `publisher` | 2 publishes, pool of 2, TTLs up to 1 ms, 1 failure, 1 cancelled future | Ok means handed over, the pool stays within its size, close waits, never early, messages outlive their TTL unless late, every publish and a close end |
| `rabbitmq` | 2 processes (one works, the other enqueues; delays rounded alike for retries and to 2 and to 1 for deferrals, with and without dead-letter queues), a durable queue and a transient one with a TTL, 1 job or 1 malformed message, 1 retry or deferral, 1 outage, 1 trouble | an accepted job is not lost, hold queues never collide, dead letters stay, a replay restores every queue or logs an error |
| `configuration` | 9 items, up to 4 keys from 32 correct and mistaken ones, 5 manifests; of what compiles with at most 3 keys: 3 builder calls, 2 policies, 3 attempts | no key is dropped, order is irrelevant, what compiles can be declared (length of names aside), the most specific policy wins, delays are bounded |

Four runs expect a violation; each finding quotes the line it contradicts.

- `memory_retry_after_close`: a close between the closed check of `retry` and its
  schedule drops the successor and still acks the original.
- `worker_policy_panic`: a panic in `set_retry_policy` or in decoding happens outside the
  handler task and loses the delivery from the worker's books. It stays unacked at the
  broker until the channel closes.
- `connection_close_race`: a close between the closing check and `install` leaves a new
  connection up after `close` has returned. It takes two threads; no await lies in between.
- `publisher_hold_expired`: the expiry of a hold queue starts with its declaration, the TTL
  of a message with its publish. A publish that waits in between for longer than its TTL
  (for the pool, or for a reconnect) is confirmed and then deleted with the queue.
  `LostOnlyIfLate` in the run `publisher` shows that this is the only way to lose one.

`OkMeansHandedOver` has an exception that is worth knowing: after a publish was cancelled
between `basic_publish` and its confirm, the channel goes back to the pool with a confirm
outstanding, and the next publish on it may be told Ok for a message that was returned.
Without the exception TLC finds that in a few steps.

Three more things came up that are not runs of their own. Requeueing in the in-memory
backend pushes to the front, past the priority insertion that `memory.rs:11` says every
enqueue goes through. After a broker restart the new connection can be used before the
replay is through, so a publish to a transient queue may come back as unroutable, although
`rabbitmq/backend.rs:69` says that nothing above the backend sees an error. And a
replay that meets one refused queue stops there, so queues nobody touched stay
missing, although the comment on `redeclare` says every other queue is fine. In the last
two `NothingLost` and `RestoredOrReported` are what still holds: the publisher is told, and the
log says so.

What `NothingLost` excepts is what the code does not promise: a TTL on the queue, a
malformed body that could not be copied, a queue an operator deleted or replaced, a
transient queue after a restart, and a hold queue that expired with a message that was
published a TTL or more after the queue was declared. The last three are silent when the job
sits in a hold queue. The last one is the loss of `publisher_hold_expired`, here after a wait
for a full pool or a reconnect; without that exception TLC reports it after eight states.

Bounds. One retry and one deferral already produce a successor of each kind; two
consumers are needed for a message to move from one to another, two jobs for order and
for contention; two clients suffice for a queue behind the reconnect lock and for a
re-check that finds the work done. One fault puts an error at any one place, two put a
failed settle behind a redelivery. `MaxAttempts`, `MaxDeferrals`, `MaxFaults`, `MaxCrashes`,
`MaxTroubles`, `MaxDrops`, `MaxCancels`, `MaxOutages`, `MaxRounds`, `MaxJobs`, `MaxWritten`, `MaxStarted` and
`MaxCalls` name the bounds. In `rabbitmq` one outage and one trouble meet in every order, which
is what a replay that is refused takes; one job is enough since jobs share nothing but
queues. In `configuration` two keys show every conflict of two, and the four
are for a retry list with a knob, its backoff and a duplicate. In `publisher` a delay of 1 is
held and a delay of 2 refused: what rounding does to other delays is proved, not checked. Symmetry over jobs (and consumers) is used in
the runs without liveness. Deadlock checking is off: all of these systems may come to rest.

Fairness. Tasks that can go on are polled (the runtime's job), sleeps end, dials and
publishes are answered, tokio's mutex is handed on in turn (strong fairness of
`EnsureConnected`), whoever reads a stream goes on reading and settles what it reads, and
a handler returns or is cancelled. Nobody is required to publish, drop, close, shut down,
crash, or make the broker redeliver: `JobsFinish` therefore excepts jobs left unacked by a
failed settle, which come back only when their channel goes away.

## Proofs

Everything here holds for every value of the constants that the assumptions named in the
modules allow: any number of jobs, consumers, clients and calls, any prefetch,
concurrency, pool size, granularity and bound on faults. Each module has one inductive
invariant with a lemma per action or group of actions, and `Invariance` states it; the
properties of the runs follow from it.

`MemoryBackendProofs`:

- `TypeCorrect`: `Spec => []TypeOK`. `TypeOK` alone is not inductive: a send appends
  `hand[c]`, which is an envelope only because a consumer at "send" has one in hand
  (`HandInv`), and a retry counts an attempt up, which stays in range only because the
  check before it looked (`SuccessorInv`). `TypeInv` is the conjunction of the three.
- `WakeupsArrive`: `Spec => []NoLostWakeup`. Every step that fills
  `pending` or sets `closed` wakes all subscribed receivers (`WakeWakes`), and the only step
  into "wait" has just seen an empty, open queue under the lock; every other step leaves
  what the invariant reads alone (`QuietStep`). `Wake` reaches whoever is at "wait" since such
  a consumer is subscribed.
- `NeverDuplicated` and `NeverLost`: `Spec => []OneRunnableCopy`, `Spec => []NoJobLost`. `At(x, j)`
  says that job `j` is at place `x`: pending, the hand, channel or drained stream of a consumer,
  a call, a timer, a delivery that still runs. `PlaceInv` says that a job is at one place at
  most, and there once; that it is nowhere if it was not accepted, is finished or given up;
  and that it is somewhere, finished or given up if it was accepted. Every action only
  moves a job from one place to another (`Moves`) or takes it away (`Leaves`). `IdleInv`, that
  a consumer without a task has nothing, is what lets a consumer start.
- `HoldsCounted`: `Spec => []HeldIsExact`. A deferral adds a timer and one to the
  counter; that the timer is a new one follows from `PlaceInv`, since its job was elsewhere.
- `WindowKept`: `Spec => []PrefetchBound`. `SlotInv` adds what the property leaves
  out: the free permits, and the permit of a consumer between acquiring it and popping.
- `ClosedStaysShut`: `Spec => ClosedAcceptsNothing`, an action property.

`WorkerProofs`:

- `WorkerTyped`, `HandlersCapped`, `HandlersDisjoint`, `HookComesFirst`, `LastAttemptKept`: the
  invariants `TypeOK`, `ConcurrencyCap`, `NoOverlap`, `HookBeforeDeadLetter` and
  `LastAttemptHonest`. The invariant has to say that every copy of a message has one holder at most (`UniqueInv`),
  that permits, tasks and the permit in the main loop's hand add up to the concurrency
  (`SlotInv`), that two live copies of a job mean a recorded duplication (`LiveInv`), and what the
  fields of a task mean at each of its stages (`TaskOk`).
- `NothingDropped`: `Spec => []NeverDroppedUnsettled`, from the hypothesis `~PolicyPanics`.
  `PolicyPanics` is the constant behind the finding of `worker_policy_panic`, and with it the
  property is false. `DropInv` counts unacked copies nobody holds against the settles that failed.
- `WorkerImplements`: `Spec => ImplementsAtLeastOnce`, the refinement. A step of the
  worker is a step of `AtLeastOnce` under the mapping or leaves it alone; `CoveredInv` (whatever became of a
  copy, its job is owed, succeeded or dead) is what makes `owed` shrink only then.

`ConnectionProofs`: `ReconnectTyped`, `SingleFlight`, `CloseWakesSleepers` and `GenerationOrdered`, for
`TypeOK`, `OneConnection`, `NoSleepThroughClose` and `GenerationFollowsSwap`. `LockInv` ties the
lock to the program counters behind it; `InstallInv` says what its holder knows (from the second
look until the swap the installed connection is down, and what was dialled is the newest);
`CountInv` puts the generation one behind exactly between swap and bump; `SleepInv` says that
whoever sleeps was armed before it looked at the flag.

`PublisherProofs`:

- `HoldsNeverEarly`: `Spec => NeverEarly`. `HoldInv` says that a call with a TTL was asked for
  no more than that (by `NeverShortened`), that only such a call is held, and that nothing
  is anywhere before it is sent; the last is needed to see that only `Release` takes a
  message out of a hold queue and onto its queue.
- `PublisherTyped`, `PoolBounded`, `CloseIsOrderly`: `TypeOK`, `ChannelsBounded`, `CloseWaits`.
  `PermitInv` counts permits against calls that hold one, and leaves room in the pool for
  the channel each of them may bring back; `LeaseInv` says that a channel is in one place, and
  one that is up is in the pool or leased.
- `OkIsHandedOver`: `OkMeansHandedOver`. `WireInv` says that a channel no cancelled publish left
  dirty carries nothing, or the publish of its lessee, and a returned message just when it is that one's.
- `ExpiryLosesOnlyLate`: `LostOnlyIfLate`. `ClockInv` relates three clocks: a hold queue has been
  unused for no longer than since the declaration of any call that is on its way to it or in
  it, unless that call was late.

`RabbitMqProofs`:

- `ReplayRestores`: `Spec => []RestoredOrReported`, without further hypotheses. `RestInv` says
  what holds during a replay: of a process that is up and reported nothing, every queue is
  kept or still on the list. A queue is kept when one without `x-expires` has its name, or an
  operator had a hand on it.
- `AcceptedKept`: `Spec => []NothingLost`, from the hypothesis `NamesApart`. `CopyInv`
  says that every message is on a queue of its job; `QueueInv` that every queue is one that
  processes declare, or an operator's; `TaskInv` that a task sends on the job it works for, to
  a queue of that job; `MainInv` that the queue behind a hold queue exists, so that a released
  message arrives; and `SafeInv` is the property, made inductive: an accepted job has a message
  that is not `Spent`, that is, not the delivery of a task about to ack it for its successor, or it
  came to a hold queue late (`Lapsed`). Only a release forgets a late message, and then it is on
  the queue behind (`LateStays`); `x-expires` takes no other message along (`CopiesDelete`).
- `HoldsNeverRefused`: `Spec => []HoldsAgree`, from `NamesApart` and `HoldsUnreplaced`. With
  names apart, a hold queue's arguments follow from its name, and so does its kind.
- `DeadLettersStay`: `Spec => DeadLettersTerminal`, an action property, from `NamesApart`. With
  names apart, a dead-letter queue has no TTL, is nobody's main or hold queue and survives a
  restart; `DeadInv` adds that nobody holds a dead letter (`DeadBag`). So a lost connection gives none
  back: of the copies that `Without` adds up, a dead letter is the only one to become itself
  (`TotalOfOne`).

`NamesApart` is what the code leaves to its users: all processes mean the same queue by a
name, and no queue's name is another one's dead-letter or hold name. Without it the property is
false: a process that declares a queue as transient makes a restart take the jobs of one
that calls it durable, and a queue named like another's dead-letter queue consumes its dead letters.
`HoldsUnreplaced` says that an operator who deletes a hold queue puts no other in its place.
`MCRabbitMq` assumes both, so TLC evaluates them on the instance it checks.

`ConfigurationProofs`, from `AttributesAssumption`, `ConfigurationAssumption` and
`InputsAssumption` (what may be written is of the kinds that the parser distinguishes, and
a job names a variant that exists, which the compiler sees to):

- `SpecificWins`: `Spec => []MostSpecificWins`. `BuilderInv` relates the
  builder's maps to the sequence of calls: a map answers for a key what the last call for it
  said (`Answers`); `WorkerInv` and `RunInv` carry that through `build` to the attempts.
- `HonoursWritten` and `DeclaresAsWritten`: `Spec => []WrittenIsHonoured` and
  `Spec => []DeclarableAsWritten`. `SourceInv` says that the source stays among `Sources`, `CompiledInv`
  that a program is what `Derive` made of the source. What is left is about the grammar, in
  `AttributesProofs`: that accepted slots hold just the accepted value of each
  item (`set_once`), that `finish` applies them or refuses (`RetryHonours`), that a
  config has them (`QueuesHonour`) and a job does (`JobHonours`).
- `OrderIsIrrelevant`: `Spec => []OrderIrrelevant`. `Reordered` shows that a list and the same list
  with two neighbours swapped are parsed into the same slots, or both into none; the rest
  follows those slots outwards, from a retry list to its item and from an item to the program.
- `DelaysAreBounded`: `Spec => []DelaysBounded`. `DelayInv` says that everything a job may run
  by, in attributes, overrides and the worker, is a policy, and that attempts count from 1;
  `DelayFacts` bounds the curves: a power of a factor of at least one grows with its exponent,
  and so does the quotient.

What a recursive function computes is an induction, and the library states induction for
an operator parameter, which cannot be instantiated here. `AttributesProofs` therefore takes the
well-founded order of the naturals as it is: a set without a least element is empty (`Least`, `UpTo`).
Existence of a recursive function is shown the same way, from the functions that follow
its steps up to n (`Follows`, `Recursion`).

`DelaysProofs` proves `NeverShortened`: for every delay and granularity, `deferred_ttl_ms`
refuses, or answers with a TTL the broker takes that is at least as long; and
`ExpiryAfterTtl`: `x-expires` is twice the TTL for each of those. Both rest on one lemma
about division rounding up, and on the step never being zero.

Only model-checked: liveness under fairness, which is out of the prover's reach
(`ConsumersEnd`, `AcceptedJobsFinish`, `ShutdownTerminates`, `JobsFinish`, `CloseCompletes`, `StreamsRecover`,
`PublishesEnd`), and the four findings. Every invariant and every action property of the runs
that pass is a theorem.

## Not modelled

- The facade re-exports, and the error types carry messages.
- That a `crate = "..."` has to be a path at all: `parse_crate_path` takes every text, where
  `attrs.rs:205-210` refuses some, so the model accepts more.
- The `Drop` of `HoldGuard` (`memory.rs:406-413`), which runs when the runtime drops a timer task
  before it is through; in the model every hold ends by its timer.
- Serialization, tracing, `Debug` and timestamps; the cutting of headers at 255 bytes in
  `codec.rs`; TLS and the handshake in `connection.rs`.
- `declare` of the in-memory backend and its read-only helpers for tests: a queue exists there as
  soon as it is named.
- A second call of `close`; a worker that consumes the same queue on two streams.
- Floating point: `exponential_delay` is exact in the model, and what an `f64` rounds is below
  a millisecond for the delays a broker takes.
- Options that make names collide (an empty `dead_suffix`) and dead-letter names above the
  limit: the first is excluded by `RabbitMqAssumption`, the second has no instance.
- That an error ends a stream, as the doc of `recover` says: what the code does is
  modelled (`PollAgain`, `ErrorPc`), the claim is not stated as a property.
