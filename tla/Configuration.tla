----------------------------- MODULE Configuration -----------------------------
(***************************************************************************)
(* From what an author writes to what a job is retried by.  Attributes are *)
(* written key by key; the derives accept or reject them; the program then *)
(* configures a WorkerBuilder, builds the worker (core/src/worker.rs) and  *)
(* runs one job through its attempts.                                      *)
(*                                                                         *)
(* The enums have the two variants First and Second.                       *)
(***************************************************************************)
EXTENDS Attributes
LOCAL INSTANCE SequencesExt
LOCAL INSTANCE Functions

CONSTANTS
  Inputs,          \* items before anything is written: [enum, job]
  ContainerItems,  \* what may be written in #[queues(...)],
  QueueItems,      \* in the #[queue(...)] of the first variant,
  JobItems,        \* in #[job(...)],
  RetryItems,      \* and in a retry(...)
  Manifests,       \* pairs of lookups of the facade and the core crate
  Policies,        \* what overrides and handlers choose from
  Concurrencies,   \* arguments of WorkerBuilder::concurrency
  MaxWritten,      \* bound on the keys written
  MaxStarted,      \* bound on the keys of a program that is run
  MaxCalls,        \* bound on the builder calls
  MaxAttempts      \* bound on the attempts of the job

ASSUME ConfigurationAssumption ==
  /\ MaxWritten \in Nat /\ MaxStarted \in Nat /\ MaxCalls \in Nat /\ MaxAttempts \in Nat \ {0}
  /\ Concurrencies \subseteq Nat

\* An enum without variants is there to be refused.  A job names one of the two
\* variants: the compiler refuses any other.
VariantIndex == [First |-> 1, Second |-> 2]

OfAJob ==
  {item \in Items : item.lit.kind = "path" /\ Len(item.lit.path) > 1
                      => item.lit.path[Len(item.lit.path)] \in DOMAIN VariantIndex}

Sources ==
  [enum : [item : STRING, generics : BOOLEAN, misplaced : BOOLEAN, items : Seq(Items),
           variants : {v \in Seq([ident : Seq(STRING \ {Space}), fields : BOOLEAN,
                                  misplaced : BOOLEAN, items : Seq(Items)]) :
                         Len(v) \in {0, 2}}],
   job : [generics : BOOLEAN, ident : Seq(STRING),
          items : Seq(OfAJob)]]

ASSUME InputsAssumption ==
  /\ Inputs # {} /\ Inputs \subseteq Sources
  /\ ContainerItems \cup QueueItems \subseteq Items
  /\ JobItems \subseteq OfAJob
  /\ RetryItems \subseteq PlainItems
  /\ Policies \subseteq RetryPolicies

VARIABLES
  phase,    \* "writing", "compiled", "rejected", "building", "built", "failed"
  source,   \* what was written
  program,  \* the derived [configs, core, job], in a set once there is one
  builder,  \* the WorkerBuilder
  calls,    \* its calls, in order
  worker,   \* the Worker, in a set once build succeeded
  running   \* the job under way: [attempt, policy], in a set

vars == <<phase, source, program, builder, calls, worker, running>>

\* The hook, the timeout and close_backend are only stored; Worker has them.
NoBuilder == [handlers |-> <<>>, queue_retry |-> <<>>, job_retry |-> <<>>,
              queues |-> {}, concurrency |-> {}]

Init ==
  /\ phase = "writing"
  /\ source \in Inputs
  /\ program = {}
  /\ builder = NoBuilder
  /\ calls = <<>>
  /\ worker = {}
  /\ running = {}

-----------------------------------------------------------------------------
(***************************************************************************)
(* The author.                                                             *)
(***************************************************************************)
Size(items) ==
  Len(items) + FoldLeft(LAMBDA n, it : n + IF it.lit.kind = "list" THEN Len(it.lit.items) ELSE 0,
                        0, items)

\* The lists that keys are written in.
Places == {"container", "queue", "job"}
ItemsAt(input, place) ==
  CASE place = "container" -> input.enum.items
    [] place = "queue"     -> input.enum.variants[1].items
    [] place = "job"       -> input.job.items

WithItems(input, place, items) ==
  CASE place = "container" -> [input EXCEPT !.enum.items = items]
    [] place = "queue"     -> [input EXCEPT !.enum.variants[1].items = items]
    [] place = "job"       -> [input EXCEPT !.job.items = items]

Keys == Size(ItemsAt(source, "container"))
          + (IF source.enum.variants = <<>> THEN 0 ELSE Size(ItemsAt(source, "queue")))
          + Size(ItemsAt(source, "job"))

Write(place, items) ==
  /\ phase = "writing"
  /\ Keys < MaxWritten
  /\ place = "queue" => source.enum.variants # <<>>
  /\ \E item \in items :
       source' = WithItems(source, place, Append(ItemsAt(source, place), item))
  /\ UNCHANGED <<phase, program, builder, calls, worker, running>>

\* One more key in the retry(...) that was opened last.
WriteRetry(place) ==
  /\ phase = "writing"
  /\ Keys < MaxWritten
  /\ place = "queue" => source.enum.variants # <<>>
  /\ LET items == ItemsAt(source, place)
     IN  /\ items # <<>>
         /\ items[Len(items)].lit.kind = "list"
         /\ \E item \in RetryItems :
              source' = WithItems(source, place,
                [items EXCEPT ![Len(items)].lit.items = Append(@, item)])
  /\ UNCHANGED <<phase, program, builder, calls, worker, running>>

Author ==
  \/ Write("container", ContainerItems)
  \/ Write("queue", QueueItems)
  \/ Write("job", JobItems)
  \/ \E place \in {"queue", "job"} : WriteRetry(place)

\* Both derives, in one crate.
Derive(input, manifest) ==
  {[configs |-> queues.configs, core |-> queues.core, job |-> job] :
     queues \in DeriveQueues(input.enum, manifest[1], manifest[2]),
     job \in DeriveJob(input.job, manifest[1], manifest[2])}

Expand ==
  /\ phase = "writing"
  /\ \E manifest \in Manifests : program' = Derive(source, manifest)
  /\ phase' = IF program' = {} THEN "rejected" ELSE "compiled"
  /\ UNCHANGED <<source, builder, calls, worker, running>>

\* The compiled program starts: the source is gone, and every path is resolved.
Start ==
  /\ phase = "compiled"
  /\ Keys <= MaxStarted
  /\ phase' = "building"
  /\ source' = CHOOSE input \in Inputs : TRUE
  /\ program' = {[p EXCEPT !.core = <<>>] : p \in program}
  /\ UNCHANGED <<builder, calls, worker, running>>

-----------------------------------------------------------------------------
(***************************************************************************)
(* WorkerBuilder                                                           *)
(***************************************************************************)
Configs == (CHOOSE p \in program : TRUE).configs
TheJob  == (CHOOSE p \in program : TRUE).job
QueueNames == {Configs[i].name : i \in DOMAIN Configs}

\* Job::QUEUE: the variant that the last segment of the path names.
JobConfig == Configs[VariantIndex[TheJob.queue[Len(TheJob.queue)]]]
JobQueue  == JobConfig.name

Call(call, next) ==
  /\ phase = "building"
  /\ Len(calls) < MaxCalls
  /\ calls' = Append(calls, call)
  /\ builder' = next
  /\ UNCHANGED <<phase, source, program, worker, running>>

Handler ==
  /\ phase = "building"
  /\ Call(<<"handler">>, [builder EXCEPT !.handlers = Append(@, TheJob.name)])

Queues ==
  /\ phase = "building"
  /\ \E chosen \in {<<1>>, <<Len(Configs), 1, 1>>} :
       Call(<<"queues">>, [builder EXCEPT !.queues = {chosen}])

Concurrency ==
  \E n \in Concurrencies : Call(<<"concurrency">>, [builder EXCEPT !.concurrency = {n}])

\* Keyed by the broker queue name, or by Job::NAME.
RetryOverride ==
  /\ phase = "building"
  /\ \E queue \in QueueNames, policy \in Policies :
       Call(<<"retry_override", queue, policy>>,
            [builder EXCEPT !.queue_retry = Insert(@, queue, policy)])

JobRetryOverride ==
  /\ phase = "building"
  /\ \E policy \in Policies :
       Call(<<"job_retry_override", TheJob.name, policy>>,
            [builder EXCEPT !.job_retry = Insert(@, TheJob.name, policy)])

\* What the macros declared: the job's policy, else the queue's.
declared_policy ==
  IF TheJob.retry # {} THEN CHOOSE p \in TheJob.retry : TRUE ELSE JobConfig.retry

\* Faulty variant: the queue's override is looked up first.
QueueFirst(b) ==
  CASE JobQueue \in DOMAIN b.queue_retry -> b.queue_retry[JobQueue]
    [] JobQueue \notin DOMAIN b.queue_retry /\ TheJob.name \in DOMAIN b.job_retry ->
         b.job_retry[TheJob.name]
    [] OTHER -> declared_policy

\* The overrides, resolved once for the job type.
Resolve(b) ==
  CASE TheJob.name \in DOMAIN b.job_retry -> b.job_retry[TheJob.name]
    [] TheJob.name \notin DOMAIN b.job_retry /\ JobQueue \in DOMAIN b.queue_retry ->
         b.queue_retry[JobQueue]
    [] OTHER -> declared_policy

\* The configs to declare and consume, each queue once.
Selected(b) ==
  LET chosen == IF b.queues = {} THEN [i \in DOMAIN Configs |-> i]
                ELSE CHOOSE q \in b.queues : TRUE
      Step(done, i) == IF \E k \in DOMAIN done : done[k].name = Configs[i].name
                       THEN done ELSE Append(done, Configs[i])
  IN  FoldLeft(Step, <<>>, chosen)

Cap(b, queues) ==
  LET wanted == IF b.concurrency # {} THEN CHOOSE n \in b.concurrency : TRUE
                ELSE FoldLeft(LAMBDA n, c : n + c.prefetch, 0, queues)
  IN  IF wanted = 0 THEN 1 ELSE wanted

\* build: two handlers for one job type are refused; a failing declare is
\* RabbitMq's business.
Build ==
  /\ phase = "building"
  /\ \/ /\ Len(builder.handlers) > 1
        /\ phase' = "failed"
        /\ UNCHANGED worker
     \/ /\ Len(builder.handlers) <= 1
        /\ phase' = "built"
        /\ LET queues == Selected(builder)
           IN  worker' = {[policies    |-> {Resolve(builder) : h \in Range(builder.handlers)},
                           queues      |-> queues,
                           concurrency |-> Cap(builder, queues)]}
  /\ UNCHANGED <<source, program, builder, calls, running>>

-----------------------------------------------------------------------------
(***************************************************************************)
(* The worker runs the job: dispatch with the configured policy, unless    *)
(* set_retry_policy answers with another one for this payload.             *)
(***************************************************************************)
Configured == (CHOOSE w \in worker : TRUE).policies

Attempt(n) ==
  \E chosen \in {{}} \cup {{p} : p \in Policies} :
    running' = {[attempt |-> n, chosen |-> chosen, policy |-> p] :
                  p \in IF chosen # {} THEN chosen ELSE Configured}

Dispatch ==
  /\ phase = "built"
  /\ Configured # {}
  /\ running = {}
  /\ Attempt(1)
  /\ UNCHANGED <<phase, source, program, builder, calls, worker>>

\* The attempt failed, and was not the last.
RetryJob ==
  /\ \E run \in running :
       /\ run.attempt < MaxAttempts
       /\ ~decide(run.policy, run.attempt).gives_up
       /\ Attempt(run.attempt + 1)
  /\ UNCHANGED <<phase, source, program, builder, calls, worker>>

Next ==
  \/ Author \/ Expand \/ Start
  \/ Handler \/ Queues \/ Concurrency \/ RetryOverride \/ JobRetryOverride
  \/ Build \/ Dispatch \/ RetryJob

Spec == Init /\ [][Next]_vars

-----------------------------------------------------------------------------
(***************************************************************************)
(* Properties.                                                             *)
(***************************************************************************)

\* What the author wrote for a key, read off the source without the grammar.
Says(items, key, Reads(_)) ==
  \A i \in DOMAIN items : items[i].key = key => Reads(items[i].lit)

Millis(lit) == lit.digits * MillisPer(lit.unit)

\* A policy does what every key of its retry(...) says.
PolicySays(lit, policy) ==
  LET items == lit.items
      curve == policy.backoff
      Knob(key, field, Value(_)) ==
        Says(items, key, LAMBDA l : field \in DOMAIN curve /\ curve[field] = Value(l))
  IN  /\ Says(items, "max_attempts", LAMBDA l : policy.max_attempts = l.n)
      /\ Says(items, "backoff", LAMBDA l : curve.kind = l.word)
      /\ Knob("delay", "delay", Millis)
      /\ Knob("base", "base", Millis)
      /\ Knob("max", "max", Millis)
      /\ Knob("factor", "factor",
              LAMBDA l : IF l.kind = "int" THEN <<l.n, 1>> ELSE l.factor)
      /\ Knob("jitter", "jitter", LAMBDA l : l.b)

\* No key is silently dropped: in a program that compiles, every key that was
\* written, on the enum, a variant or the job or inside a retry list, shows in the
\* config, the policy, the name or the path it generates.  (set_once, RetryRaw::finish, config_expr:
\* a knob that the chosen backoff cannot honour must be an error.)
WrittenIsHonoured ==
  phase = "compiled" =>
    LET config == Configs[1]
        queue  == ItemsAt(source, "queue")
        job    == ItemsAt(source, "job")
    IN  /\ Says(queue, "name", LAMBDA l : SubSeq(config.name, Len(config.name) - Len(l.text) + 1,
                                                 Len(config.name)) = l.text)
        /\ Says(ItemsAt(source, "container"), "prefix",
                LAMBDA l : SubSeq(config.name, 1, Len(l.text)) = l.text)
        /\ Says(ItemsAt(source, "container"), "crate",
                LAMBDA l : \A p \in program : p.core \in {l.text, <<"::">> \o l.text})
        /\ Says(queue, "prefetch", LAMBDA l : config.prefetch = l.n)
        /\ Says(queue, "durable", LAMBDA l : config.durable = l.b)
        /\ Says(queue, "message_ttl", LAMBDA l : config.message_ttl = Millis(l))
        /\ Says(queue, "max_priority", LAMBDA l : config.max_priority = l.n)
        /\ Says(queue, "retry", LAMBDA l : PolicySays(l, config.retry))
        /\ Says(job, "queue", LAMBDA l : TheJob.queue = l.path)
        /\ Says(job, "crate", LAMBDA l : TheJob.core \in {l.text, <<"::">> \o l.text})
        /\ Says(job, "name", LAMBDA l : TheJob.name = l.text)
        /\ Says(job, "retry", LAMBDA l : \E p \in TheJob.retry : PolicySays(l, p))

\* Keys may be written in any order: swapping two neighbours, in an attribute or in
\* a retry list, changes neither whether the item compiles nor what it compiles to.
Swapped(s, i) == [s EXCEPT ![i] = s[i + 1], ![i + 1] = s[i]]

Neighbours(items) ==
  {Swapped(items, i) : i \in 1..(Len(items) - 1)}
    \cup UNION {{[items EXCEPT ![i].lit.items = Swapped(@, k)] :
                   k \in 1..(Len(items[i].lit.items) - 1)} :
                  i \in {j \in DOMAIN items : items[j].lit.kind = "list"}}

OrderIrrelevant ==
  phase \in {"compiled", "rejected"} /\ source.enum.variants # <<>> =>
    \A place \in Places : \A items \in Neighbours(ItemsAt(source, place)) :
      LET manifest == <<"Absent", "NoManifest">>
      IN  Derive(WithItems(source, place, items), manifest) = Derive(source, manifest)

\* What compiles can be declared as it was written, length of names aside: the queues of
\* an enum have different names, none blank, no value is outside of what the broker takes (so that
\* topology's clamps never bite), and every policy makes at least one attempt on a
\* curve that grows from its base to its max.
SoundPolicy(policy) ==
  /\ policy.max_attempts >= 1
  /\ policy.backoff.kind = "fixed" => policy.backoff.delay > 0
  /\ policy.backoff.kind = "exponential" =>
       /\ Usable(policy.backoff.factor)
       /\ 0 < policy.backoff.base /\ policy.backoff.base <= policy.backoff.max

DeclarableAsWritten ==
  phase = "compiled" =>
    /\ \A i, j \in DOMAIN Configs : Configs[i].name = Configs[j].name => i = j
    /\ \A i \in DOMAIN Configs :
         /\ ~Blank(Configs[i].name)
         /\ Configs[i].prefetch \in 1..U16_MAX
         /\ Configs[i].max_priority \in 0..U8_MAX
         /\ Configs[i].message_ttl \in 0..MAX_MESSAGE_TTL_MS
         /\ SoundPolicy(Configs[i].retry)
    /\ \A policy \in TheJob.retry : SoundPolicy(policy)

\* The last call of a kind that was made for a key.
LastCall(kind, key) ==
  LET made == {i \in DOMAIN calls : calls[i][1] = kind /\ calls[i][2] = key}
  IN  IF made = {} THEN {}
      ELSE {calls[i][3] : i \in {n \in made : \A m \in made : m <= n}}

\* A running job is judged by the most specific statement there is about it,
\* whatever the order of the builder calls and whatever else they configured: the
\* handler's answer for this payload, then the last override for the job type, then
\* the last one for its queue, then #[job(retry)], then #[queue(retry)].
MostSpecificWins ==
  \A run \in running :
    LET ranks == <<run.chosen,
                   LastCall("job_retry_override", TheJob.name),
                   LastCall("retry_override", JobQueue),
                   TheJob.retry,
                   {JobConfig.retry}>>
        first == CHOOSE i \in DOMAIN ranks :
                   ranks[i] # {} /\ \A k \in 1..(i - 1) : ranks[k] = {}
    IN  run.policy \in ranks[first]

\* However a policy came about, no wait is longer than its curve allows, the first
\* one is the base, and a growing curve never shrinks (exponential_delay).
DelaysBounded ==
  \A run \in running :
    LET curve == run.policy.backoff
        Now   == compute_delay(curve, run.attempt)
        After == compute_delay(curve, run.attempt + 1)
    IN  /\ Now.least <= Now.most
        /\ curve.kind = "exponential" =>
             /\ Now.most <= curve.max
             /\ run.attempt = 1 /\ curve.base <= curve.max => Now.most = curve.base
             /\ curve.factor[1] >= curve.factor[2] => Now.most <= After.most
=============================================================================
