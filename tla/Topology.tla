------------------------------ MODULE Topology ------------------------------
(***************************************************************************)
(* What the RabbitMQ backend declares and writes for a queue: the names    *)
(* and arguments of the queues behind it (rabbitmq/src/topology.rs), the   *)
(* options they depend on (options.rs), the limit on names (error.rs) and  *)
(* the properties of a message (codec.rs).  Everything here is pure.       *)
(*                                                                         *)
(* A queue's configuration is [name, durable, message_ttl, max_priority],  *)
(* with a set of at most one duration for the TTL and 0 for no priorities. *)
(* A declaration is everything the broker compares when a queue is         *)
(* declared again; an argument that is not given is Absent.                *)
(***************************************************************************)
EXTENDS Delays, Sequences
LOCAL INSTANCE TLC

CONSTANT MAX_SHORT_STRING_LENGTH

ASSUME TopologyAssumption == MAX_SHORT_STRING_LENGTH \in Nat \ {0}

\* Of a queue's configuration, what declarations depend on.
QueueConfig ==
  [name : STRING, durable : BOOLEAN, message_ttl : SUBSET Nat, max_priority : Nat]

\* A name or a suffix is a string, a granularity a duration, and reconnect says whether
\* there is a policy.
RabbitMqOptions ==
  [connection_name            : STRING,
   dead_suffix                : STRING,
   declare_dead_letter_queues : BOOLEAN,
   deferred_suffix            : STRING,
   retry_granularity          : Nat,
   deferred_granularity       : Nat,
   publish_concurrency        : Nat,
   reconnect                  : BOOLEAN]

\* RabbitMqOptions::default
DefaultOptions ==
  [connection_name            |-> "",
   dead_suffix                |-> ".dead",
   declare_dead_letter_queues |-> TRUE,
   deferred_suffix            |-> ".deferred",
   retry_granularity          |-> 1000 * PerMs,
   deferred_granularity       |-> 1000 * PerMs,
   publish_concurrency        |-> 8,
   reconnect                  |-> TRUE]

\* A builder call replaces one option and checks nothing.
With(options, field, value) == [options EXCEPT ![field] = value]

\* short_string: what AMQP takes for a name.
short_string(value) == Len(value) <= MAX_SHORT_STRING_LENGTH

dead_queue_name(queue, suffix) == queue \o suffix

deferred_queue_name(queue, suffix, ttl_ms) == queue \o suffix \o "." \o ToString(ttl_ms)

\* The longest hold queue of a queue has to have a name, too.
check_deferrable_name(queue, suffix) ==
  short_string(deferred_queue_name(queue, suffix, MAX_DEFERRAL_MS))

-----------------------------------------------------------------------------
Absent == 0

ttl_millis(ttl) == Clamp(millis_ceil(ttl), 1, MAX_TTL_MS)

NoArgs == [message_ttl |-> Absent, max_priority |-> Absent,
           dead_letter_to |-> "", expires |-> Absent]

queue_args(config) ==
  [NoArgs EXCEPT !.message_ttl  = IF config.message_ttl = {} THEN Absent
                                  ELSE ttl_millis(CHOOSE ttl \in config.message_ttl : TRUE),
                 !.max_priority = config.max_priority]

\* An expired message goes through the default exchange to the queue it waited for.
deferred_queue_args(config, ttl_ms) ==
  [NoArgs EXCEPT !.message_ttl = ttl_ms, !.dead_letter_to = config.name,
                 !.expires = Expires(ttl_ms)]

\* Faulty variant: a dead letter expires with the TTL of the queue it came from.
InheritedArgs(config) == queue_args(config)

dead_queue_args(config) == NoArgs

\* declare_options: never passive, exclusive or auto-deleted.
declare_options(durable) == [durable |-> durable]

Declaration(name, durable, args) ==
  [name |-> name, options |-> declare_options(durable), args |-> args]

Main(config) == Declaration(config.name, config.durable, queue_args(config))

\* Dead letters outlive a restart of the broker, whatever their queue does.
Dead(config, options) ==
  Declaration(dead_queue_name(config.name, options.dead_suffix), TRUE,
              dead_queue_args(config))

\* Faulty variant: how long a hold queue lives depends on who declares it.
HoldQueuePerProcess(config, options, ttl_ms) ==
  Declaration(deferred_queue_name(config.name, options.deferred_suffix, ttl_ms),
              config.durable,
              [deferred_queue_args(config, ttl_ms) EXCEPT
                 !.expires = @ + options.deferred_granularity])

HoldQueue(config, options, ttl_ms) ==
  Declaration(deferred_queue_name(config.name, options.deferred_suffix, ttl_ms),
              config.durable, deferred_queue_args(config, ttl_ms))

\* declare_topology, up to who runs it.
declare_topology(config, options) ==
  IF options.declare_dead_letter_queues
  THEN <<Main(config), Dead(config, options)>> ELSE <<Main(config)>>

-----------------------------------------------------------------------------
(***************************************************************************)
(* Messages.  The body is the source of truth and the headers mirror it,   *)
(* so a message is its envelope, the priority the broker orders it by and, *)
(* on a dead-letter queue, the headers that say why and where from.  It is *)
(* always persistent and never has an expiration of its own.               *)
(***************************************************************************)
Alive == "alive"

props_for(envelope) ==
  [env |-> envelope, priority |-> envelope.priority, reason |-> Alive, origin |-> ""]

dead_letter_props(envelope, queue, reason) ==
  [props_for(envelope) EXCEPT !.reason = reason, !.origin = queue]

\* The bytes go on as they are; they have no priority anybody could read.
malformed_props(envelope, queue) ==
  [env |-> envelope, priority |-> 0, reason |-> "malformed envelope", origin |-> queue]
=============================================================================
