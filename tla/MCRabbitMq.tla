------------------------------ MODULE MCRabbitMq ------------------------------
EXTENDS RabbitMq, TLC

CONSTANTS p1, p2, j1, j2

\* A durable queue and one that a restart of the broker takes away.
Mail == [name |-> "mail", durable |-> TRUE, message_ttl |-> {}, max_priority |-> MaxPriority]
Tick == [name |-> "tick", durable |-> FALSE, message_ttl |-> {1}, max_priority |-> MaxPriority]

\* p1 works both queues; p2 enqueues, with other granularities.  j2 is
\* no envelope.
MCProcs   == {p1, p2}
Coarse == With(With(DefaultOptions, "retry_granularity", 2), "deferred_granularity", 2)
Fine   == With(With(DefaultOptions, "retry_granularity", 2), "deferred_granularity", 0)

MCOptions == [p \in MCProcs |->
                IF p = p1 THEN Coarse
                ELSE With(Fine, "declare_dead_letter_queues", FALSE)]
MCCalls   == [p \in MCProcs |-> IF p = p1 THEN {<<Mail, Tick>>} ELSE {<<Mail>>}]
MCQueueOf == (j1 :> Mail) @@ (j2 :> Tick)
MCMeddling == {[queue |-> "mail", by |-> {[Main(Mail) EXCEPT !.args.max_priority = 1]}],
               [queue |-> "tick.dead", by |-> {}]}

\* What the proofs ask of the names holds here.
ASSUME NamesAssumption == NamesApart /\ HoldsUnreplaced
=============================================================================
