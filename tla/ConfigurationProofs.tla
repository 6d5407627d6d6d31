------------------------- MODULE ConfigurationProofs -------------------------
(***************************************************************************)
(* For all items an author may write, all policies and any number of       *)
(* builder calls and attempts, in any order: a job is judged by the most   *)
(* specific policy there is; what compiles honours what was written, can   *)
(* be declared, and does not depend on the order of keys; and the waits    *)
(* of a job stay within its curve.                                         *)
(***************************************************************************)
EXTENDS Configuration, AttributesProofs

\* What the maps of the builder answer is what the last call for a key said.
Answers(kind, key, map) ==
  LastCall(kind, key) = IF key \in DOMAIN map THEN {map[key]} ELSE {}

Fresh == calls = <<>> /\ builder = NoBuilder /\ worker = {} /\ running = {}

BuilderInv ==
  /\ calls \in Seq({calls[i] : i \in DOMAIN calls})
  /\ builder = [handlers |-> builder.handlers, queue_retry |-> builder.queue_retry,
                job_retry |-> builder.job_retry, queues |-> builder.queues,
                concurrency |-> builder.concurrency]
  /\ Answers("job_retry_override", TheJob.name, builder.job_retry)
  /\ Answers("retry_override", JobQueue, builder.queue_retry)

\* The worker has the policy that the builder resolved, and a job runs by it unless its
\* handler chose another one.
WorkerInv == phase = "built" => Configured \subseteq {Resolve(builder)}

RunInv ==
  \A run \in running :
    /\ phase = "built"
    /\ IF run.chosen # {} THEN run.policy \in run.chosen ELSE run.policy \in Configured

PolicyInv ==
  IF phase \in {"building", "built", "failed"} THEN BuilderInv /\ WorkerInv /\ RunInv ELSE Fresh

-----------------------------------------------------------------------------
\* One more call is the last one for its key, and for no other.
LEMMA LastCallGrows ==
  ASSUME NEW S, calls \in Seq(S), NEW x, calls' = Append(calls, x), NEW kind, NEW key
  PROVE  LastCall(kind, key)'
           = IF x[1] = kind /\ x[2] = key THEN {x[3]} ELSE LastCall(kind, key)
<1> DEFINE n == Len(calls)
           made == {i \in DOMAIN calls : calls[i][1] = kind /\ calls[i][2] = key}
           more == {i \in DOMAIN calls' : calls'[i][1] = kind /\ calls'[i][2] = key}
           Latest(T) == {k \in T : \A m \in T : m <= k}
<1>1. /\ n \in Nat /\ DOMAIN calls = 1..n /\ DOMAIN calls' = 1..(n + 1)
      /\ calls'[n + 1] = x /\ \A i \in 1..n : calls'[i] = calls[i]
  OBVIOUS
<1>2. LastCall(kind, key) = IF made = {} THEN {} ELSE {calls[i][3] : i \in Latest(made)}
  BY DEF LastCall
<1>3. LastCall(kind, key)' = IF more = {} THEN {} ELSE {calls'[i][3] : i \in Latest(more)}
  BY DEF LastCall
<1>4. CASE x[1] = kind /\ x[2] = key
  <2>1. n + 1 \in more /\ \A m \in more : m \in Nat /\ m <= n + 1
    BY <1>1, <1>4
  <2>2. Latest(more) = {n + 1}
    BY <1>1, <2>1
  <2> QED
    BY <1>1, <1>3, <1>4, <2>1, <2>2
<1>5. CASE ~(x[1] = kind /\ x[2] = key)
  <2>1. more = made
    BY <1>1, <1>5
  <2>2. \A i \in Latest(made) : calls'[i][3] = calls[i][3]
    BY <1>1
  <2>3. {calls'[i][3] : i \in Latest(more)} = {calls[i][3] : i \in Latest(made)}
    BY <2>1, <2>2
  <2> HIDE DEF made, more, Latest
  <2>4. LastCall(kind, key)' = LastCall(kind, key)
    BY <1>2, <1>3, <2>1, <2>3
  <2> QED
    BY <1>5, <2>4
<1> QED
  BY <1>4, <1>5

\* A map that a call inserts into answers what the call said.
LEMMA InsertAnswers ==
  ASSUME NEW map, NEW key, NEW k, NEW value
  PROVE  /\ key \in DOMAIN Insert(map, k, value) <=> key = k \/ key \in DOMAIN map
         /\ key = k => Insert(map, k, value)[key] = value
         /\ key # k /\ key \in DOMAIN map => Insert(map, k, value)[key] = map[key]
BY DEF Insert

\* Every call keeps the builder in order.
LEMMA CallKeeps ==
  ASSUME PolicyInv, phase = "building", NEW x, NEW next, Call(x, next),
         next = [handlers |-> next.handlers, queue_retry |-> next.queue_retry,
                 job_retry |-> next.job_retry, queues |-> next.queues,
                 concurrency |-> next.concurrency],
         \/ /\ x[1] \notin {"retry_override", "job_retry_override"}
            /\ next.queue_retry = builder.queue_retry /\ next.job_retry = builder.job_retry
         \/ /\ x[1] = "retry_override" /\ next.job_retry = builder.job_retry
            /\ next.queue_retry = Insert(builder.queue_retry, x[2], x[3])
         \/ /\ x[1] = "job_retry_override" /\ next.queue_retry = builder.queue_retry
            /\ next.job_retry = Insert(builder.job_retry, x[2], x[3])
  PROVE  PolicyInv'
<1>1. /\ calls' = Append(calls, x) /\ builder' = next
      /\ UNCHANGED <<phase, program, worker, running>>
  BY DEF Call
<1>2. BuilderInv /\ RunInv
  BY DEF PolicyInv
<1>3. PICK S : calls \in Seq(S)
  BY <1>2 DEF BuilderInv
<1>4. calls' \in Seq({calls'[i] : i \in DOMAIN calls'})
  <2>1. calls' \in Seq(S \cup {x})
    BY <1>1, <1>3
  <2>2. DOMAIN calls' = 1..Len(calls') /\ Len(calls') \in Nat
    BY <2>1
  <2> QED
    BY <2>1, <2>2
<1>5. PICK name, queue : name = TheJob.name /\ queue = JobQueue
  OBVIOUS
<1>6. TheJob.name' = name /\ JobQueue' = queue
  BY <1>1, <1>5 DEF TheJob, JobQueue, JobConfig, Configs
<1>7. Answers("job_retry_override", name, next.job_retry)'
  <2>1. LastCall("job_retry_override", name)
          = IF name \in DOMAIN builder.job_retry THEN {builder.job_retry[name]} ELSE {}
    BY <1>2, <1>5 DEF BuilderInv, Answers
  <2>2. LastCall("job_retry_override", name)'
          = IF x[1] = "job_retry_override" /\ x[2] = name THEN {x[3]}
            ELSE LastCall("job_retry_override", name)
    BY <1>1, <1>3, LastCallGrows
  <2>3. LastCall("job_retry_override", name)'
          = IF name \in DOMAIN next.job_retry THEN {next.job_retry[name]} ELSE {}
    BY <2>1, <2>2, InsertAnswers
  <2> QED
    BY <2>3 DEF Answers
<1>8. Answers("retry_override", queue, next.queue_retry)'
  <2>1. LastCall("retry_override", queue)
          = IF queue \in DOMAIN builder.queue_retry THEN {builder.queue_retry[queue]} ELSE {}
    BY <1>2, <1>5 DEF BuilderInv, Answers
  <2>2. LastCall("retry_override", queue)'
          = IF x[1] = "retry_override" /\ x[2] = queue THEN {x[3]}
            ELSE LastCall("retry_override", queue)
    BY <1>1, <1>3, LastCallGrows
  <2>3. LastCall("retry_override", queue)'
          = IF queue \in DOMAIN next.queue_retry THEN {next.queue_retry[queue]} ELSE {}
    BY <2>1, <2>2, InsertAnswers
  <2> QED
    BY <2>3 DEF Answers
<1>9. BuilderInv'
  BY <1>1, <1>4, <1>6, <1>7, <1>8 DEF BuilderInv, Answers
<1>10. WorkerInv' /\ RunInv'
  BY <1>1, <1>2 DEF WorkerInv, RunInv
<1> QED
  BY <1>1, <1>9, <1>10 DEF PolicyInv

\* Each call of the WorkerBuilder is such a call.
LEMMA BuilderCalls ==
  ASSUME PolicyInv,
         Handler \/ Queues \/ Concurrency \/ RetryOverride \/ JobRetryOverride
  PROVE  PolicyInv'
<1>0. phase = "building"
  BY DEF Handler, Queues, Concurrency, RetryOverride, JobRetryOverride, Call
<1>1. PICK h, q, j, m, n :
        builder = [handlers |-> h, queue_retry |-> q, job_retry |-> j, queues |-> m,
                   concurrency |-> n]
  BY <1>0 DEF PolicyInv, BuilderInv
<1>2. CASE Handler
  <2> DEFINE next == [builder EXCEPT !.handlers = Append(@, TheJob.name)]
  <2>1. Call(<<"handler">>, next)
    BY <1>2 DEF Handler
  <2> QED
    BY <1>0, <1>1, <2>1, CallKeeps
<1>3. CASE Queues
  <2>1. PICK chosen : Call(<<"queues">>, [builder EXCEPT !.queues = {chosen}])
    BY <1>3 DEF Queues
  <2> QED
    BY <1>0, <1>1, <2>1, CallKeeps
<1>4. CASE Concurrency
  <2>1. PICK k : Call(<<"concurrency">>, [builder EXCEPT !.concurrency = {k}])
    BY <1>4 DEF Concurrency
  <2> QED
    BY <1>0, <1>1, <2>1, CallKeeps
<1>5. CASE RetryOverride
  <2>1. PICK queue, policy :
          Call(<<"retry_override", queue, policy>>,
               [builder EXCEPT !.queue_retry = Insert(@, queue, policy)])
    BY <1>5 DEF RetryOverride
  <2> QED
    BY <1>0, <1>1, <2>1, CallKeeps
<1>6. CASE JobRetryOverride
  <2>1. PICK policy :
          Call(<<"job_retry_override", TheJob.name, policy>>,
               [builder EXCEPT !.job_retry = Insert(@, TheJob.name, policy)])
    BY <1>6 DEF JobRetryOverride
  <2> QED
    BY <1>0, <1>1, <2>1, CallKeeps
<1> QED
  BY <1>2, <1>3, <1>4, <1>5, <1>6

\* Nothing is configured before the program starts.
LEMMA StartKeeps ==
  ASSUME PolicyInv, Author \/ Expand \/ Start
  PROVE  PolicyInv'
<1>1. Fresh /\ UNCHANGED <<builder, calls, worker, running>>
  BY DEF Author, Write, WriteRetry, Expand, Start, PolicyInv
<1>2. Fresh'
  BY <1>1 DEF Fresh
<1>3. calls = <<>> => \A kind, key : LastCall(kind, key) = {}
  BY DEF LastCall
<1>4. BuilderInv'
  BY <1>2 DEF Fresh, NoBuilder, BuilderInv, Answers, LastCall
<1>5. phase' # "built"
  BY DEF Author, Write, WriteRetry, Expand, Start
<1> QED
  BY <1>2, <1>4, <1>5 DEF PolicyInv, WorkerInv, RunInv, Fresh

\* What other steps leave of the builder.
LEMMA BuilderQuiet ==
  ASSUME BuilderInv, UNCHANGED <<program, builder, calls>>
  PROVE  BuilderInv' /\ UNCHANGED Resolve(builder)
<1>1. UNCHANGED TheJob /\ UNCHANGED Configs
  BY DEF TheJob, Configs
<1>2. UNCHANGED JobConfig
  BY <1>1 DEF JobConfig
<1>3. UNCHANGED JobQueue
  BY <1>2 DEF JobQueue
<1>4. PICK name, queue : name = TheJob.name /\ queue = JobQueue
  OBVIOUS
<1>5. Answers("job_retry_override", name, builder.job_retry)'
      /\ Answers("retry_override", queue, builder.queue_retry)'
  BY <1>4 DEF BuilderInv, Answers, LastCall
<1>6. BuilderInv'
  BY <1>1, <1>3, <1>4, <1>5 DEF BuilderInv, Answers
<1>7. UNCHANGED Resolve(builder)
  BY <1>1, <1>2, <1>3 DEF Resolve, declared_policy
<1> QED
  BY <1>6, <1>7

\* build resolves the policy from the builder as it is.
LEMMA BuildKeeps ==
  ASSUME PolicyInv, Build
  PROVE  PolicyInv'
<1>1. BuilderInv /\ RunInv /\ phase = "building" /\ phase' \in {"built", "failed"}
      /\ UNCHANGED <<program, builder, calls, running>>
  BY DEF PolicyInv, Build
<1>2. BuilderInv' /\ UNCHANGED Resolve(builder)
  BY <1>1, BuilderQuiet
<1>3. running' = {}
  BY <1>1 DEF RunInv
<1>4. PICK policy : policy = Resolve(builder)
  OBVIOUS
<1>5. Resolve(builder)' = policy
  BY <1>2, <1>4
<1>6. phase' = "built" => Configured' \subseteq {policy}
  <2> SUFFICES ASSUME phase' = "built"
               PROVE  Configured' \subseteq {policy}
    OBVIOUS
  <2>1. PICK H, queues, cap :
          worker' = {[policies |-> {policy : h \in H}, queues |-> queues, concurrency |-> cap]}
    BY <1>4, ZenonT(60) DEF Build
  <2>2. PICK w : w = [policies |-> {policy : h \in H}, queues |-> queues, concurrency |-> cap]
    OBVIOUS
  <2>3. w.policies \subseteq {policy}
    BY <2>2
  <2>4. Configured' = w.policies
    BY <2>1, <2>2 DEF Configured
  <2> QED
    BY <2>3, <2>4
<1> QED
  BY <1>1, <1>2, <1>3, <1>5, <1>6 DEF PolicyInv, WorkerInv, RunInv

\* An attempt runs by the worker's policy, or by the one its handler chose.
LEMMA AttemptKeeps ==
  ASSUME PolicyInv, phase = "built", NEW n, Attempt(n),
         UNCHANGED <<phase, source, program, builder, calls, worker>>
  PROVE  PolicyInv'
<1>1. BuilderInv /\ WorkerInv
  BY DEF PolicyInv
<1>2. BuilderInv' /\ WorkerInv'
  BY <1>1, BuilderQuiet DEF WorkerInv, Configured
<1>3. PICK chosen : running' = {[attempt |-> n, chosen |-> chosen, policy |-> p] :
                                 p \in IF chosen # {} THEN chosen ELSE Configured}
  BY DEF Attempt
<1>4. UNCHANGED Configured
  BY DEF Configured
<1>5. RunInv'
  BY <1>3, <1>4 DEF RunInv
<1> QED
  BY <1>2, <1>5 DEF PolicyInv

\* All steps together.
LEMMA PolicyStep ==
  ASSUME PolicyInv, [Next]_vars
  PROVE  PolicyInv'
<1>1. CASE UNCHANGED vars
  <2>1. BuilderInv => BuilderInv' /\ UNCHANGED Resolve(builder)
    BY <1>1, BuilderQuiet DEF vars
  <2>2. Configured' = Configured
    BY <1>1 DEF vars, Configured
  <2> QED
    BY <1>1, <2>1, <2>2 DEF vars, PolicyInv, WorkerInv, RunInv, Fresh
<1>2. CASE Dispatch
  BY <1>2, AttemptKeeps DEF Dispatch
<1>3. CASE RetryJob
  <2>1. running # {}
    BY <1>3 DEF RetryJob
  <2>2. phase = "built"
    BY <2>1 DEF PolicyInv, Fresh, RunInv
  <2> QED
    BY <1>3, <2>2, AttemptKeeps DEF RetryJob
<1> QED
  BY <1>1, <1>2, <1>3, StartKeeps, BuilderCalls, BuildKeeps DEF Next

\* The maps of the builder answer what the last calls said, the worker has what the
\* builder resolved, and a job runs by that or by its handler's choice.
THEOREM PolicyInvariance == Spec => []PolicyInv
<1>1. Init => PolicyInv
  BY DEF Init, PolicyInv, Fresh
<1>2. PolicyInv /\ [Next]_vars => PolicyInv'
  BY PolicyStep
<1> QED
  BY <1>1, <1>2, PTL DEF Spec

\* MostSpecificWins for all sources, policies and sequences of builder calls: the
\* policy that build resolved, or the handler chose, is the most specific one there is.
THEOREM SpecificWins == Spec => []MostSpecificWins
<1>1. PolicyInv => MostSpecificWins
  <2> SUFFICES ASSUME PolicyInv, NEW run \in running
               PROVE  LET ranks == <<run.chosen,
                                     LastCall("job_retry_override", TheJob.name),
                                     LastCall("retry_override", JobQueue),
                                     TheJob.retry,
                                     {JobConfig.retry}>>
                          first == CHOOSE i \in DOMAIN ranks :
                                     ranks[i] # {} /\ \A k \in 1..(i - 1) : ranks[k] = {}
                      IN  run.policy \in ranks[first]
    BY DEF MostSpecificWins
  <2> DEFINE r1 == run.chosen
             r2 == LastCall("job_retry_override", TheJob.name)
             r3 == LastCall("retry_override", JobQueue)
             r4 == TheJob.retry
             r5 == {JobConfig.retry}
             ranks == <<r1, r2, r3, r4, r5>>
             First(i) == ranks[i] # {} /\ \A k \in 1..(i - 1) : ranks[k] = {}
  <2>1. BuilderInv /\ WorkerInv /\ RunInv /\ phase = "built"
    BY DEF PolicyInv, Fresh, RunInv
  <2>2. r1 = {} => run.policy = Resolve(builder)
    BY <2>1 DEF RunInv, WorkerInv
  <2>3. r1 # {} => run.policy \in r1
    BY <2>1 DEF RunInv
  <2>4. /\ TheJob.name \in DOMAIN builder.job_retry => r2 = {builder.job_retry[TheJob.name]}
        /\ TheJob.name \notin DOMAIN builder.job_retry => r2 = {}
        /\ JobQueue \in DOMAIN builder.queue_retry => r3 = {builder.queue_retry[JobQueue]}
        /\ JobQueue \notin DOMAIN builder.queue_retry => r3 = {}
    BY <2>1 DEF BuilderInv, Answers
  <2>5. /\ r4 # {} => declared_policy \in r4
        /\ r4 = {} => declared_policy \in r5
    BY DEF declared_policy
  <2>6. /\ r2 # {} => Resolve(builder) \in r2
        /\ r2 = {} /\ r3 # {} => Resolve(builder) \in r3
        /\ r2 = {} /\ r3 = {} => Resolve(builder) = declared_policy
    BY <2>4 DEF Resolve
  <2>7. r5 # {}
    OBVIOUS
  <2> HIDE DEF r1, r2, r3, r4, r5
  <2>8. DOMAIN ranks = 1..5 /\ ranks[1] = r1 /\ ranks[2] = r2 /\ ranks[3] = r3
        /\ ranks[4] = r4 /\ ranks[5] = r5
    OBVIOUS
  <2> HIDE DEF ranks
  <2>9. ASSUME NEW i \in 1..5, First(i)
        PROVE  run.policy \in ranks[i]
    <3>1. CASE i = 1
      BY <2>3, <2>8, <2>9, <3>1
    <3>2. CASE i = 2
      BY <2>2, <2>6, <2>8, <2>9, <3>2
    <3>3. CASE i = 3
      BY <2>2, <2>6, <2>8, <2>9, <3>3
    <3>4. CASE i = 4
      BY <2>2, <2>5, <2>6, <2>8, <2>9, <3>4
    <3>5. CASE i = 5
      BY <2>2, <2>5, <2>6, <2>8, <2>9, <3>5
    <3> QED
      BY <3>1, <3>2, <3>3, <3>4, <3>5
  <2>10. \E i \in 1..5 : First(i)
    <3>1. CASE r1 # {}
      BY <2>8, <3>1
    <3>2. CASE r1 = {} /\ r2 # {}
      BY <2>8, <3>2
    <3>3. CASE r1 = {} /\ r2 = {} /\ r3 # {}
      BY <2>8, <3>3
    <3>4. CASE r1 = {} /\ r2 = {} /\ r3 = {} /\ r4 # {}
      BY <2>8, <3>4
    <3>5. CASE r1 = {} /\ r2 = {} /\ r3 = {} /\ r4 = {}
      BY <2>7, <2>8, <3>5
    <3> QED
      BY <3>1, <3>2, <3>3, <3>4, <3>5
  <2> DEFINE first == CHOOSE i \in DOMAIN ranks : First(i)
  <2>11. first \in 1..5 /\ First(first)
    BY <2>8, <2>10
  <2>12. run.policy \in ranks[first]
    BY <2>9, <2>11
  <2> QED
    BY <2>12 DEF ranks, r1, r2, r3, r4, r5
<1> QED
  BY <1>1, PolicyInvariance, PTL
-----------------------------------------------------------------------------
(***************************************************************************)
(* What was written stays well typed, and a program that compiled is what  *)
(* the derives make of it.                                                 *)
(***************************************************************************)
Variants == [ident : Seq(STRING \ {Space}), fields : BOOLEAN, misplaced : BOOLEAN,
             items : Seq(Items)]
Enums == [item : STRING, generics : BOOLEAN, misplaced : BOOLEAN, items : Seq(Items),
          variants : {v \in Seq(Variants) : Len(v) \in {0, 2}}]
Jobs == [generics : BOOLEAN, ident : Seq(STRING), items : Seq(OfAJob)]

\* The parts of a source.
LEMMA SourceParts == Sources = [enum : Enums, job : Jobs]
BY DEF Sources, Variants, Enums, Jobs

\* The lists of a source.
LEMMA ListsOfSources ==
  ASSUME NEW input \in Sources, NEW place \in Places,
         place = "queue" => input.enum.variants # <<>>
  PROVE  ItemsAt(input, place) \in Seq(IF place = "job" THEN OfAJob ELSE Items)
<1>1. input.enum \in Enums /\ input.job \in Jobs
  BY SourceParts
<1>2. place = "queue" => input.enum.variants[1] \in Variants
  BY <1>1 DEF Enums
<1> QED
  BY <1>1, <1>2 DEF Enums, Jobs, Variants, ItemsAt, Places

\* Another list in the place of one of them.
LEMMA WithItemsTyped ==
  ASSUME NEW input \in Sources, NEW place \in Places,
         place = "queue" => input.enum.variants # <<>>,
         NEW items \in Seq(IF place = "job" THEN OfAJob ELSE Items)
  PROVE  WithItems(input, place, items) \in Sources
<1>1. PICK enum \in Enums, job \in Jobs : input = [enum |-> enum, job |-> job]
  BY SourceParts
<1>2. CASE place = "container"
  <2>1. [enum EXCEPT !.items = items] \in Enums
    BY <1>2 DEF Enums
  <2>2. WithItems(input, place, items) = [enum |-> [enum EXCEPT !.items = items], job |-> job]
    BY <1>1, <1>2 DEF WithItems
  <2> QED
    BY <2>1, <2>2, SourceParts
<1>3. CASE place = "queue"
  <2>1. PICK variants \in Seq(Variants) :
          variants = enum.variants /\ Len(variants) \in {0, 2} /\ variants # <<>>
    BY <1>1, <1>3 DEF Enums
  <2> DEFINE variant == [variants[1] EXCEPT !.items = items]
             more == [variants EXCEPT ![1] = variant]
  <2>2. variants[1] \in Variants /\ 1 \in DOMAIN variants
    BY <2>1
  <2>3. variant \in Variants
    BY <1>3, <2>2 DEF Variants
  <2>4. more \in Seq(Variants) /\ Len(more) = Len(variants)
    <3> HIDE DEF variant
    <3> QED
      BY <2>2, <2>3
  <2>5. [enum EXCEPT !.variants[1].items = items] = [enum EXCEPT !.variants = more]
    BY <2>1, <2>2 DEF Enums
  <2> HIDE DEF variant, more
  <2>6. [enum EXCEPT !.variants = more] \in Enums
    BY <2>1, <2>4 DEF Enums
  <2>7. WithItems(input, place, items)
          = [enum |-> [enum EXCEPT !.variants[1].items = items], job |-> job]
    BY <1>1, <1>3 DEF WithItems
  <2> QED
    BY <2>5, <2>6, <2>7, SourceParts
<1>4. CASE place = "job"
  <2>1. [job EXCEPT !.items = items] \in Jobs
    BY <1>4 DEF Jobs
  <2>2. WithItems(input, place, items) = [enum |-> enum, job |-> [job EXCEPT !.items = items]]
    BY <1>1, <1>4 DEF WithItems
  <2> QED
    BY <2>1, <2>2, SourceParts
<1> QED
  BY <1>2, <1>3, <1>4 DEF Places

\* One more key in a retry(...) leaves an item what it was.
LEMMA NestedTyped ==
  ASSUME NEW item \in Items, item.lit.kind = "list", NEW nested \in Seq(PlainItems)
  PROVE  LET more == [item EXCEPT !.lit.items = nested]
         IN  /\ more \in Items /\ more.key = item.key /\ more.lit = [kind |-> "list", items |-> nested]
             /\ item.lit = [kind |-> "list", items |-> item.lit.items]
             /\ item.lit.items \in Seq(PlainItems)
             /\ item \in OfAJob => more \in OfAJob
<1>1. item.lit \notin Literals
  BY DEF Literals
<1>2. PICK own \in Seq(PlainItems) : item.lit = [kind |-> "list", items |-> own]
  BY <1>1 DEF Items
<1>3. PICK key \in STRING : item = [key |-> key, lit |-> [kind |-> "list", items |-> own]]
  BY <1>2 DEF Items
<1>4. PICK more : more = [item EXCEPT !.lit.items = nested]
  OBVIOUS
<1>5. more = [key |-> key, lit |-> [kind |-> "list", items |-> nested]]
  BY <1>3, <1>4
<1>6. more \in Items
  BY <1>5 DEF Items
<1>7. more \in OfAJob
  BY <1>5, <1>6 DEF OfAJob
<1> QED
  BY <1>2, <1>3, <1>4, <1>5, <1>6, <1>7

\* Writing keeps the source well typed.
LEMMA WriteTyped ==
  ASSUME source \in Sources, NEW place \in Places, NEW more,
         Write(place, more), more \subseteq IF place = "job" THEN OfAJob ELSE Items
  PROVE  source' \in Sources
<1> DEFINE Kind == IF place = "job" THEN OfAJob ELSE Items
           own == ItemsAt(source, place)
<1>1. place = "queue" => source.enum.variants # <<>>
  BY DEF Write
<1>2. PICK item \in more : source' = WithItems(source, place, Append(own, item))
  BY DEF Write
<1>3. own \in Seq(Kind)
  BY <1>1, ListsOfSources
<1> HIDE DEF own
<1>4. Append(own, item) \in Seq(Kind)
  BY <1>3
<1> QED
  BY <1>1, <1>2, <1>4, WithItemsTyped

\* So does writing in a retry(...).
LEMMA WriteRetryTyped ==
  ASSUME source \in Sources, NEW place \in Places, WriteRetry(place)
  PROVE  source' \in Sources
<1> DEFINE Kind == IF place = "job" THEN OfAJob ELSE Items
           own == ItemsAt(source, place)
<1>1. place = "queue" => source.enum.variants # <<>>
  BY DEF WriteRetry
<1>2. PICK item \in RetryItems :
        /\ own # <<>> /\ own[Len(own)].lit.kind = "list"
        /\ source' = WithItems(source, place,
             [own EXCEPT ![Len(own)].lit.items = Append(@, item)])
  BY DEF WriteRetry
<1>3. own \in Seq(Kind)
  BY <1>1, ListsOfSources
<1> HIDE DEF own
<1>4. PICK last \in 1..Len(own) : last = Len(own)
  BY <1>2, <1>3
<1>5. PICK old \in Kind : old = own[last]
  BY <1>3, <1>4
<1>6. old \in Items /\ old.lit.kind = "list"
  BY <1>2, <1>4, <1>5 DEF OfAJob
<1>7. PICK nested : nested = Append(old.lit.items, item)
  OBVIOUS
<1>8. nested \in Seq(PlainItems)
  <2>1. item \in PlainItems
    BY <1>2, InputsAssumption
  <2>2. <<item>> \in Seq(PlainItems)
    BY <2>1
  <2>3. old.lit.items \in Seq(PlainItems)
    BY <1>6, <2>2, NestedTyped
  <2> QED
    BY <1>7, <2>1, <2>3
<1>9. PICK new : new = [old EXCEPT !.lit.items = nested]
  OBVIOUS
<1>10. new \in Kind
  BY <1>5, <1>6, <1>8, <1>9, NestedTyped
<1>11. [own EXCEPT ![Len(own)].lit.items = Append(@, item)] = [own EXCEPT ![last] = new]
  BY <1>4, <1>5, <1>7, <1>9
<1>12. [own EXCEPT ![last] = new] \in Seq(Kind)
  <2> HIDE DEF Kind
  <2> QED
    BY <1>3, <1>4, <1>10
<1> QED
  BY <1>1, <1>2, <1>11, <1>12, WithItemsTyped

SourceInv == source \in Sources

\* Every step keeps the source well typed.
LEMMA SourceStep ==
  ASSUME SourceInv, [Next]_vars
  PROVE  SourceInv'
<1>1. CASE Author
  <2>1. Write("container", ContainerItems) \/ Write("queue", QueueItems) => SourceInv'
    BY WriteTyped, InputsAssumption DEF SourceInv, Places
  <2>2. Write("job", JobItems) => SourceInv'
    BY WriteTyped, InputsAssumption DEF SourceInv, Places
  <2>3. ASSUME NEW place \in {"queue", "job"}, WriteRetry(place)
        PROVE  SourceInv'
    BY <2>3, WriteRetryTyped DEF SourceInv, Places
  <2> QED
    BY <1>1, <2>1, <2>2, <2>3 DEF Author
<1>2. CASE Start
  <2>1. \E input \in Inputs : TRUE
    BY InputsAssumption
  <2>2. source' \in Inputs
    BY <1>2, <2>1 DEF Start
  <2> QED
    BY <2>2, InputsAssumption DEF SourceInv
<1>3. CASE ~Author /\ ~Start
  BY <1>3 DEF SourceInv, vars, Next, Expand, Handler, Queues, Concurrency, RetryOverride,
              JobRetryOverride, Call, Build, Dispatch, RetryJob
<1> QED
  BY <1>1, <1>2, <1>3

\* Whatever the author wrote is well typed.
LEMMA SourceTyped == Spec => []SourceInv
<1>1. Init => SourceInv
  BY InputsAssumption DEF Init, SourceInv
<1> QED
  BY <1>1, SourceStep, PTL DEF Spec

\* A program that compiled is what both derives made of the source.
CompiledInv ==
  phase \in {"compiled", "rejected"} =>
    /\ \E manifest \in Manifests : program = Derive(source, manifest)
    /\ phase = "compiled" => program # {}

\* Expand is the only step that compiles.
LEMMA CompiledStep ==
  ASSUME CompiledInv, [Next]_vars
  PROVE  CompiledInv'
<1>1. CASE Expand
  <2>1. /\ \E manifest \in Manifests : program' = Derive(source, manifest)
        /\ phase' = (IF program' = {} THEN "rejected" ELSE "compiled") /\ source' = source
    BY <1>1 DEF Expand
  <2>2. PICK manifest \in Manifests : program' = Derive(source', manifest)
    BY <2>1
  <2> QED
    BY <2>1, <2>2 DEF CompiledInv
<1>2. CASE UNCHANGED <<phase, source, program>>
  BY <1>2 DEF CompiledInv
<1>3. CASE ~Expand /\ ~(UNCHANGED <<phase, source, program>>)
  <2>1. phase' \notin {"compiled", "rejected"}
    BY <1>3 DEF vars, Next, Author, Write, WriteRetry, Start, Handler, Queues, Concurrency,
                RetryOverride, JobRetryOverride, Call, Build, Dispatch, RetryJob
  <2> QED
    BY <2>1 DEF CompiledInv
<1> QED
  BY <1>1, <1>2, <1>3

\* Every program that compiled, or did not, is derived from the source that is still there.
LEMMA CompiledInvariance == Spec => []CompiledInv
<1>1. Init => CompiledInv
  BY DEF Init, CompiledInv
<1> QED
  BY <1>1, CompiledStep, PTL DEF Spec

-----------------------------------------------------------------------------
(***************************************************************************)
(* What compiles honours what was written, and can be declared.            *)
(***************************************************************************)

\* A policy that obeys every item of its retry(...) does what each key of it says.
LEMMA ObeysSays ==
  ASSUME NEW policy, NEW lit, ObeysAll(policy, lit)
  PROVE  PolicySays(lit, policy)
<1>1. PICK items : items = lit.items
  OBVIOUS
<1>2. \A i \in DOMAIN items : Obeys(policy, items[i])
  BY <1>1 DEF ObeysAll
<1>3. \A i \in DOMAIN items : items[i].key = "max_attempts" =>
        policy.max_attempts = items[i].lit.n
  BY <1>2 DEF Obeys
<1>4. \A i \in DOMAIN items : items[i].key = "backoff" =>
        policy.backoff.kind = items[i].lit.word
  BY <1>2 DEF Obeys
<1>5. ASSUME NEW key \in {"delay", "base", "max"}
      PROVE  \A i \in DOMAIN items : items[i].key = key =>
               key \in DOMAIN policy.backoff /\ policy.backoff[key] = Millis(items[i].lit)
  BY <1>2 DEF Obeys, Millis
<1>6. \A i \in DOMAIN items : items[i].key = "factor" =>
        /\ "factor" \in DOMAIN policy.backoff
        /\ policy.backoff["factor"]
             = IF items[i].lit.kind = "int" THEN <<items[i].lit.n, 1>> ELSE items[i].lit.factor
  BY <1>2 DEF Obeys
<1>7. \A i \in DOMAIN items : items[i].key = "jitter" =>
        "jitter" \in DOMAIN policy.backoff /\ policy.backoff["jitter"] = items[i].lit.b
  BY <1>2 DEF Obeys
<1> QED
  BY <1>1, <1>3, <1>4, <1>5, <1>6, <1>7 DEF PolicySays, Says

\* What both derives make of a source: two configs, and a job that names one of them.
Derived(input, p) ==
  /\ p = [configs |-> p.configs, core |-> p.core, job |-> p.job]
  /\ Len(input.enum.variants) = 2 /\ DOMAIN p.configs = 1..2
  /\ QueuesShow(input.enum, p) /\ JobShows(input.job, p.job)
  /\ p.job.queue[Len(p.job.queue)] \in DOMAIN VariantIndex

\* Whatever the derives accept is so.
LEMMA WhatDerives ==
  ASSUME NEW input \in Sources, NEW manifest, NEW p \in Derive(input, manifest)
  PROVE  Derived(input, p)
<1>1. PICK enum \in Enums, job \in Jobs : enum = input.enum /\ job = input.job
  BY SourceParts
<1>2. PICK set \in DeriveQueues(enum, manifest[1], manifest[2]),
           derived \in DeriveJob(job, manifest[1], manifest[2]) :
        p = [configs |-> set.configs, core |-> set.core, job |-> derived]
  BY <1>1 DEF Derive
<1>3. p.configs = set.configs /\ p.core = set.core /\ p.job = derived
  BY <1>2
<1>4. enum.items \in Seq(Items) /\ enum.variants \in Seq(Variants) /\ Len(enum.variants) \in {0, 2}
  BY DEF Enums
<1>5. ASSUME NEW i \in DOMAIN enum.variants
      PROVE  TypedVariant(enum.variants[i])
  <2>1. PICK variants \in Seq(Variants) : variants = enum.variants
    BY <1>4
  <2>2. PICK variant \in Variants : variant = variants[i]
    BY <2>1
  <2> QED
    BY <2>1, <2>2 DEF Variants, TypedVariant
<1>6. QueuesShow(enum, set)
  BY <1>4, <1>5, QueuesHonour
<1>7. Len(enum.variants) = 2 /\ DOMAIN set.configs = 1..2
  <2>1. PICK variants \in Seq(Variants) : variants = enum.variants
    BY <1>4
  <2>2. DOMAIN set.configs = DOMAIN variants /\ variants # <<>>
    BY <1>6, <2>1 DEF QueuesShow
  <2> QED
    BY <1>4, <2>1, <2>2
<1>8. job.items \in Seq(OfAJob) /\ OfAJob \subseteq Items
  BY DEF Jobs, OfAJob
<1>9. job.items \in Seq(Items)
  BY <1>8, SeqMonotonic
<1>10. JobShows(job, derived)
  BY <1>9, JobHonours
<1>11. derived.queue[Len(derived.queue)] \in DOMAIN VariantIndex
  <2>1. PICK i \in DOMAIN job.items :
          job.items[i].lit.kind = "path" /\ derived.queue = job.items[i].lit.path
    BY <1>10 DEF JobShows
  <2>2. PICK item \in OfAJob : item = job.items[i]
    BY <1>8
  <2>3. item.lit.path \in Seq(STRING)
    <3>1. item.lit \in Literals \cup Lists
      BY DEF OfAJob, Items, Lists
    <3> QED
      BY <2>1, <2>2, <3>1, LiteralFields
  <2>4. Len(item.lit.path) > 1
    <3>1. Len(derived.queue) >= 2
      BY <1>10 DEF JobShows
    <3>2. PICK path \in Seq(STRING) : path = item.lit.path /\ derived.queue = path
      BY <2>1, <2>2, <2>3
    <3>3. Len(path) \in Nat
      OBVIOUS
    <3> QED
      BY <3>1, <3>2, <3>3
  <2> QED
    BY <2>1, <2>2, <2>4 DEF OfAJob
<1>12. QueuesShow(enum, p)
  BY <1>3, <1>6 DEF QueuesShow
<1> QED
  BY <1>1, <1>2, <1>3, <1>7, <1>10, <1>11, <1>12 DEF Derived

\* In a program that compiled, every alternative is derived from the source.
LEMMA Compiles ==
  ASSUME SourceInv, CompiledInv, phase = "compiled"
  PROVE  /\ \A p \in program : Derived(source, p)
         /\ \E p \in program : Configs = p.configs /\ TheJob = p.job /\ Derived(source, p)
<1>1. PICK manifest \in Manifests : program = Derive(source, manifest)
  BY DEF CompiledInv
<1>2. program # {}
  BY DEF CompiledInv
<1>3. \A p \in program : Derived(source, p)
  BY <1>1, WhatDerives DEF SourceInv
<1> QED
  BY <1>2, <1>3 DEF Configs, TheJob

\* DeclarableAsWritten for all items that an author may write and all limits of the
\* broker, length of names aside: queues have different names that are not blank, the
\* values are in range, and the policies are sound.
THEOREM DeclaresAsWritten == Spec => []DeclarableAsWritten
<1>1. SourceInv /\ CompiledInv => DeclarableAsWritten
  <2> SUFFICES ASSUME SourceInv, CompiledInv, phase = "compiled"
               PROVE  DeclarableAsWritten
    BY DEF DeclarableAsWritten
  <2>1. PICK p \in program : Configs = p.configs /\ TheJob = p.job /\ Derived(source, p)
    BY Compiles
  <2>2. \A i, j \in DOMAIN Configs : Configs[i].name = Configs[j].name => i = j
    BY <2>1 DEF Derived, QueuesShow
  <2>3. \A i \in DOMAIN Configs : Declarable(Configs[i])
    BY <2>1 DEF Derived, QueuesShow
  <2>4. \A policy \in TheJob.retry : Sound(policy)
    BY <2>1 DEF Derived, JobShows
  <2>5. \A policy : Sound(policy) => SoundPolicy(policy)
    BY DEF Sound, SoundPolicy
  <2> QED
    BY <2>2, <2>3, <2>4, <2>5 DEF DeclarableAsWritten, Declarable
<1> QED
  BY <1>1, SourceTyped, CompiledInvariance, PTL

\* WrittenIsHonoured for all items that an author may write: each key that is accepted
\* shows in what it generates.
THEOREM HonoursWritten == Spec => []WrittenIsHonoured
<1>1. SourceInv /\ CompiledInv => WrittenIsHonoured
  <2> SUFFICES ASSUME SourceInv, CompiledInv, phase = "compiled"
               PROVE  WrittenIsHonoured
    BY DEF WrittenIsHonoured
  <2>1. PICK config, theJob, queue, enum, job :
          /\ config = Configs[1] /\ theJob = TheJob
          /\ queue = ItemsAt(source, "queue") /\ enum = ItemsAt(source, "container")
          /\ job = ItemsAt(source, "job")
    OBVIOUS
  <2>2. /\ queue = source.enum.variants[1].items /\ enum = source.enum.items
        /\ job = source.job.items
    BY <2>1 DEF ItemsAt
  <2>3. PICK p \in program : Configs = p.configs /\ TheJob = p.job /\ Derived(source, p)
    BY Compiles
  <2>4. /\ \A i \in DOMAIN queue : Shows(config, queue[i])
        /\ \A i \in DOMAIN enum :
             LET text == enum[i].lit.text
             IN  enum[i].key = "prefix" => SubSeq(config.name, 1, Len(text)) = text
    <3>1. QueuesShow(source.enum, p) /\ 1 \in DOMAIN p.configs /\ config = p.configs[1]
      BY <2>1, <2>3 DEF Derived
    <3>2. \A k \in DOMAIN source.enum.variants[1].items :
            Shows(p.configs[1], source.enum.variants[1].items[k])
      BY <3>1 DEF QueuesShow
    <3>3. \A k \in DOMAIN source.enum.items :
            LET text == source.enum.items[k].lit.text
            IN  source.enum.items[k].key = "prefix" =>
                  SubSeq(p.configs[1].name, 1, Len(text)) = text
      BY <3>1 DEF QueuesShow
    <3> QED
      BY <2>2, <3>1, <3>2, <3>3
  <2>5. ASSUME NEW q \in program, NEW i \in DOMAIN enum, enum[i].key = "crate"
        PROVE  q.core \in {enum[i].lit.text, <<"::">> \o enum[i].lit.text}
    <3>1. Derived(source, q)
      BY Compiles
    <3> QED
      BY <2>2, <2>5, <3>1 DEF Derived, QueuesShow
  <2>6. \A i \in DOMAIN job :
          LET lit == job[i].lit
          IN  /\ job[i].key = "queue" => theJob.queue = lit.path
              /\ job[i].key = "name" => theJob.name = lit.text
              /\ job[i].key = "retry" => \E policy \in theJob.retry : ObeysAll(policy, lit)
              /\ job[i].key = "crate" => theJob.core \in {lit.text, <<"::">> \o lit.text}
    <3>1. PICK written, made : written = source.job /\ made = p.job
      OBVIOUS
    <3>2. JobShows(written, made)
      BY <2>3, <3>1 DEF Derived
    <3>3. job = written.items /\ theJob = made
      BY <2>1, <2>2, <2>3, <3>1
    <3> QED
      BY <3>2, <3>3 DEF JobShows
  <2>7. \A i \in DOMAIN queue :
          LET lit == queue[i].lit
          IN  /\ queue[i].key = "name" =>
                   SubSeq(config.name, Len(config.name) - Len(lit.text) + 1, Len(config.name))
                     = lit.text
              /\ queue[i].key = "prefetch" => config.prefetch = lit.n
              /\ queue[i].key = "durable" => config.durable = lit.b
              /\ queue[i].key = "message_ttl" => config.message_ttl = Millis(lit)
              /\ queue[i].key = "max_priority" => config.max_priority = lit.n
              /\ queue[i].key = "retry" => PolicySays(lit, config.retry)
    BY <2>4, ObeysSays DEF Shows, Millis
  <2>8. \A i \in DOMAIN job :
          job[i].key = "retry" => \E policy \in theJob.retry : PolicySays(job[i].lit, policy)
    BY <2>6, ObeysSays
  <2> DEFINE c == Configs[1]
             q == ItemsAt(source, "queue")
             e == ItemsAt(source, "container")
             j == ItemsAt(source, "job")
  <2>9. /\ Says(q, "name", LAMBDA l : SubSeq(c.name, Len(c.name) - Len(l.text) + 1,
                                             Len(c.name)) = l.text)
        /\ Says(q, "prefetch", LAMBDA l : c.prefetch = l.n)
        /\ Says(q, "durable", LAMBDA l : c.durable = l.b)
        /\ Says(q, "message_ttl", LAMBDA l : c.message_ttl = Millis(l))
        /\ Says(q, "max_priority", LAMBDA l : c.max_priority = l.n)
        /\ Says(q, "retry", LAMBDA l : PolicySays(l, c.retry))
    BY <2>1, <2>7 DEF Says
  <2>10. /\ Says(e, "prefix", LAMBDA l : SubSeq(c.name, 1, Len(l.text)) = l.text)
         /\ Says(e, "crate",
                 LAMBDA l : \A r \in program : r.core \in {l.text, <<"::">> \o l.text})
    BY <2>1, <2>4, <2>5 DEF Says
  <2>11. /\ Says(j, "queue", LAMBDA l : TheJob.queue = l.path)
         /\ Says(j, "crate", LAMBDA l : TheJob.core \in {l.text, <<"::">> \o l.text})
         /\ Says(j, "name", LAMBDA l : TheJob.name = l.text)
         /\ Says(j, "retry", LAMBDA l : \E r \in TheJob.retry : PolicySays(l, r))
    BY <2>1, <2>6, <2>8 DEF Says
  <2> QED
    BY <2>9, <2>10, <2>11 DEF WrittenIsHonoured
<1> QED
  BY <1>1, SourceTyped, CompiledInvariance, PTL

-----------------------------------------------------------------------------
(***************************************************************************)
(* The waits of a running job.                                             *)
(***************************************************************************)
Policed(map) == \A key \in DOMAIN map : map[key] \in RetryPolicies

\* What a job may run by is a policy, wherever it came from.
DelayInv ==
  /\ phase \in {"building", "built", "failed"} => declared_policy \in RetryPolicies
  /\ Policed(builder.queue_retry) /\ Policed(builder.job_retry)
  /\ \A run \in running : run.policy \in RetryPolicies /\ run.attempt \in Nat \ {0}

\* What the macros declared is a policy, once the program has started.
LEMMA DeclaredPolicy ==
  ASSUME NEW input, program' # {},
         \A p \in program' : \E q : Derived(input, q) /\ p.configs = q.configs /\ p.job = q.job
  PROVE  declared_policy' \in RetryPolicies
<1>1. PICK q : Derived(input, q) /\ Configs' = q.configs /\ TheJob' = q.job
  BY DEF Configs, TheJob
<1>2. PICK last : last = TheJob'.queue[Len(TheJob'.queue)]
  OBVIOUS
<1>3. last \in DOMAIN VariantIndex
  BY <1>1, <1>2 DEF Derived
<1>4. VariantIndex[last] \in DOMAIN Configs'
  BY <1>1, <1>3 DEF Derived, VariantIndex
<1>5. JobConfig' = Configs'[VariantIndex[last]]
  BY <1>2 DEF JobConfig
<1>6. Declarable(JobConfig')
  BY <1>1, <1>4, <1>5 DEF Derived, QueuesShow
<1>7. JobConfig'.retry \in RetryPolicies
  BY <1>6 DEF Declarable, Sound
<1>8. \A p \in TheJob'.retry : p \in RetryPolicies
  BY <1>1 DEF Derived, JobShows, Sound
<1> QED
  BY <1>7, <1>8 DEF declared_policy

\* Starting the program gives the job a declared policy.
LEMMA StartPolicies ==
  ASSUME SourceInv, CompiledInv, PolicyInv, DelayInv, Start
  PROVE  DelayInv'
<1>1. /\ phase = "compiled" /\ program' = {[p EXCEPT !.core = <<>>] : p \in program}
      /\ UNCHANGED <<builder, running>>
  BY DEF Start
<1>2. program # {} /\ \A p \in program : Derived(source, p)
  BY <1>1, Compiles
<1>3. program' # {}
  BY <1>1, <1>2
<1>4. ASSUME NEW p \in program'
      PROVE  \E q : Derived(source, q) /\ p.configs = q.configs /\ p.job = q.job
  <2>1. PICK q \in program : p = [q EXCEPT !.core = <<>>]
    BY <1>1
  <2>2. q = [configs |-> q.configs, core |-> q.core, job |-> q.job] /\ Derived(source, q)
    BY <1>2 DEF Derived
  <2>3. p.configs = q.configs /\ p.job = q.job
    BY <2>1, <2>2
  <2> QED
    BY <2>2, <2>3
<1>5. PICK input : input = source
  OBVIOUS
<1>6. \A p \in program' : \E q : Derived(input, q) /\ p.configs = q.configs /\ p.job = q.job
  BY <1>4, <1>5
<1>7. declared_policy' \in RetryPolicies
  BY <1>3, <1>6, DeclaredPolicy
<1> QED
  BY <1>1, <1>7 DEF DelayInv, Policed

\* A builder call configures policies only.
LEMMA CallPolicies ==
  ASSUME DelayInv, phase = "building", NEW x, NEW next, Call(x, next),
         Policed(next.queue_retry), Policed(next.job_retry)
  PROVE  DelayInv'
<1>1. builder' = next /\ UNCHANGED <<phase, program, running>>
  BY DEF Call
<1>2. declared_policy' = declared_policy
  BY <1>1 DEF declared_policy, TheJob, JobConfig, Configs
<1> QED
  BY <1>1, <1>2 DEF DelayInv, Policed

\* A map stays one of policies when one is inserted.
LEMMA InsertPoliced ==
  ASSUME NEW map, Policed(map), NEW key, NEW policy \in RetryPolicies
  PROVE  Policed(Insert(map, key, policy))
BY DEF Policed, Insert

\* Each call of the WorkerBuilder is such a call.
LEMMA BuilderPolicies ==
  ASSUME PolicyInv, DelayInv, Handler \/ Queues \/ Concurrency \/ RetryOverride \/ JobRetryOverride
  PROVE  DelayInv'
<1>0. phase = "building"
  BY DEF Handler, Queues, Concurrency, RetryOverride, JobRetryOverride, Call
<1>1. PICK h, q, j, m, n :
        builder = [handlers |-> h, queue_retry |-> q, job_retry |-> j, queues |-> m,
                   concurrency |-> n]
  BY <1>0 DEF PolicyInv, BuilderInv
<1>2. Policed(q) /\ Policed(j)
  BY <1>1 DEF DelayInv
<1>3. CASE Handler
  <2> DEFINE next == [builder EXCEPT !.handlers = Append(@, TheJob.name)]
  <2>1. Call(<<"handler">>, next)
    BY <1>3 DEF Handler
  <2>2. next.queue_retry = q /\ next.job_retry = j
    BY <1>1
  <2> HIDE DEF next
  <2> QED
    BY <1>0, <1>2, <2>1, <2>2, CallPolicies
<1>4. CASE Queues
  <2>1. PICK chosen : Call(<<"queues">>, [builder EXCEPT !.queues = {chosen}])
    BY <1>4 DEF Queues
  <2> DEFINE next == [builder EXCEPT !.queues = {chosen}]
  <2>2. next.queue_retry = q /\ next.job_retry = j /\ Call(<<"queues">>, next)
    BY <1>1, <2>1
  <2> HIDE DEF next
  <2> QED
    BY <1>0, <1>2, <2>2, CallPolicies
<1>5. CASE Concurrency
  <2>1. PICK k : Call(<<"concurrency">>, [builder EXCEPT !.concurrency = {k}])
    BY <1>5 DEF Concurrency
  <2> DEFINE next == [builder EXCEPT !.concurrency = {k}]
  <2>2. next.queue_retry = q /\ next.job_retry = j /\ Call(<<"concurrency">>, next)
    BY <1>1, <2>1
  <2> HIDE DEF next
  <2> QED
    BY <1>0, <1>2, <2>2, CallPolicies
<1>6. CASE RetryOverride
  <2>1. PICK queue \in QueueNames, policy \in Policies :
          Call(<<"retry_override", queue, policy>>,
               [builder EXCEPT !.queue_retry = Insert(@, queue, policy)])
    BY <1>6 DEF RetryOverride
  <2> DEFINE next == [builder EXCEPT !.queue_retry = Insert(@, queue, policy)]
  <2>2. /\ next.queue_retry = Insert(q, queue, policy) /\ next.job_retry = j
        /\ Call(<<"retry_override", queue, policy>>, next)
    BY <1>1, <2>1
  <2>3. Policed(Insert(q, queue, policy))
    BY <1>2, InsertPoliced, InputsAssumption
  <2> HIDE DEF next
  <2> QED
    BY <1>0, <1>2, <2>2, <2>3, CallPolicies
<1>7. CASE JobRetryOverride
  <2>1. PICK policy \in Policies :
          Call(<<"job_retry_override", TheJob.name, policy>>,
               [builder EXCEPT !.job_retry = Insert(@, TheJob.name, policy)])
    BY <1>7 DEF JobRetryOverride
  <2> DEFINE next == [builder EXCEPT !.job_retry = Insert(@, TheJob.name, policy)]
  <2>2. /\ next.queue_retry = q /\ next.job_retry = Insert(j, TheJob.name, policy)
        /\ Call(<<"job_retry_override", TheJob.name, policy>>, next)
    BY <1>1, <2>1
  <2>3. Policed(Insert(j, TheJob.name, policy))
    BY <1>2, InsertPoliced, InputsAssumption
  <2> HIDE DEF next
  <2> QED
    BY <1>0, <1>2, <2>2, <2>3, CallPolicies
<1> QED
  BY <1>3, <1>4, <1>5, <1>6, <1>7

\* An attempt runs by one of them.
LEMMA AttemptPolicies ==
  ASSUME PolicyInv, DelayInv, phase = "built", NEW n \in Nat \ {0}, Attempt(n),
         UNCHANGED <<phase, source, program, builder, calls, worker>>
  PROVE  DelayInv'
<1>1. declared_policy \in RetryPolicies /\ Policed(builder.queue_retry)
      /\ Policed(builder.job_retry)
  BY DEF DelayInv
<1>2. Resolve(builder) \in RetryPolicies
  BY <1>1 DEF Resolve, Policed
<1>3. \A p \in Configured : p \in RetryPolicies
  BY <1>2 DEF PolicyInv, WorkerInv
<1>4. PICK chosen \in {{}} \cup {{p} : p \in Policies} :
        running' = {[attempt |-> n, chosen |-> chosen, policy |-> p] :
                      p \in IF chosen # {} THEN chosen ELSE Configured}
  BY DEF Attempt
<1>5. \A p \in chosen : p \in RetryPolicies
  BY <1>4, InputsAssumption
<1>6. \A run \in running' : run.policy \in RetryPolicies /\ run.attempt \in Nat \ {0}
  BY <1>3, <1>4, <1>5
<1>7. declared_policy' = declared_policy
  BY DEF declared_policy, TheJob, JobConfig, Configs
<1> QED
  BY <1>1, <1>6, <1>7 DEF DelayInv

\* All steps together.
LEMMA DelayStep ==
  ASSUME SourceInv, CompiledInv, PolicyInv, DelayInv, [Next]_vars
  PROVE  DelayInv'
<1>1. CASE Author \/ Expand
  <2>1. UNCHANGED <<builder, running>> /\ phase' \notin {"building", "built", "failed"}
    BY <1>1 DEF Author, Write, WriteRetry, Expand
  <2> QED
    BY <2>1 DEF DelayInv, Policed
<1>2. CASE Build
  <2>1. UNCHANGED <<program, builder, running>> /\ phase = "building"
    BY <1>2 DEF Build
  <2>2. declared_policy' = declared_policy
    BY <2>1 DEF declared_policy, TheJob, JobConfig, Configs
  <2> QED
    BY <2>1, <2>2 DEF DelayInv, Policed
<1>3. CASE Dispatch
  BY <1>3, AttemptPolicies DEF Dispatch
<1>4. CASE RetryJob
  <2>1. PICK run \in running : Attempt(run.attempt + 1)
    BY <1>4 DEF RetryJob
  <2>2. PICK n \in Nat \ {0} : n = run.attempt + 1
    BY <2>1 DEF DelayInv
  <2>3. phase = "built"
    BY <2>1 DEF PolicyInv, Fresh, RunInv
  <2>4. Attempt(n)
    BY <2>1, <2>2
  <2> QED
    BY <1>4, <2>3, <2>4, AttemptPolicies DEF RetryJob
<1>5. CASE UNCHANGED vars
  <2>1. declared_policy' = declared_policy
    BY <1>5 DEF vars, declared_policy, TheJob, JobConfig, Configs
  <2> QED
    BY <1>5, <2>1 DEF vars, DelayInv, Policed
<1> QED
  BY <1>1, <1>2, <1>3, <1>4, <1>5, StartPolicies, BuilderPolicies DEF Next

\* DelaysBounded for all policies and numbers of attempts: no wait exceeds its cap, the
\* first one is the base, and a curve that grows never shrinks.
THEOREM DelaysAreBounded == Spec => []DelaysBounded
<1>1. Init => DelayInv
  BY DEF Init, NoBuilder, DelayInv, Policed
<1>2. DelayInv => DelaysBounded
  <2> SUFFICES ASSUME NEW policy \in RetryPolicies, NEW n \in Nat \ {0}
               PROVE  LET curve == policy.backoff
                          Now   == compute_delay(curve, n)
                          After == compute_delay(curve, n + 1)
                      IN  /\ Now.least <= Now.most
                          /\ curve.kind = "exponential" =>
                               /\ Now.most <= curve.max
                               /\ n = 1 /\ curve.base <= curve.max => Now.most = curve.base
                               /\ curve.factor[1] >= curve.factor[2] => Now.most <= After.most
    BY DEF DelayInv, DelaysBounded
  <2>1. PICK curve : curve = policy.backoff
    OBVIOUS
  <2>2. CASE curve = NoBackoff
    <3>1. compute_delay(curve, n) = Exactly(0) /\ curve.kind = "none"
      BY <2>2 DEF compute_delay, NoBackoff
    <3> QED
      BY <2>1, <3>1 DEF Exactly
  <2>3. CASE curve \in [kind : {"fixed"}, delay : Nat]
    <3>1. compute_delay(curve, n) = Exactly(curve.delay) /\ curve.kind = "fixed"
          /\ curve.delay \in Nat
      BY <2>3 DEF compute_delay
    <3> QED
      BY <2>1, <3>1 DEF Exactly
  <2>4. CASE curve \in [kind : {"exponential"}, base : Nat, factor : Int \X Int, max : Nat,
                        jitter : BOOLEAN]
    <3>1. PICK base \in Nat, factor \in Int \X Int, max \in Nat :
            base = curve.base /\ factor = curve.factor /\ max = curve.max
      BY <2>4
    <3>2. PICK now, after : /\ now = exponential_delay(base, factor, max, n)
                            /\ after = exponential_delay(base, factor, max, n + 1)
      OBVIOUS
    <3>3. /\ compute_delay(curve, n) = IF curve.jitter THEN full_jitter(now) ELSE Exactly(now)
          /\ compute_delay(curve, n + 1)
               = IF curve.jitter THEN full_jitter(after) ELSE Exactly(after)
      BY <2>4, <3>1, <3>2 DEF compute_delay
    <3>4. /\ now \in 0..max /\ (n = 1 /\ base <= max => now = base)
          /\ factor[1] >= factor[2] => now <= after
      BY <3>2, DelayFacts
    <3>5. /\ compute_delay(curve, n).least <= compute_delay(curve, n).most
          /\ compute_delay(curve, n).most = now /\ compute_delay(curve, n + 1).most = after
      BY <3>3, <3>4 DEF full_jitter, Exactly
    <3> QED
      BY <2>1, <3>1, <3>4, <3>5
  <2> QED
    BY <2>1, <2>2, <2>3, <2>4 DEF RetryPolicies
<1> QED
  BY <1>1, <1>2, SourceTyped, CompiledInvariance, PolicyInvariance, DelayStep, PTL DEF Spec

-----------------------------------------------------------------------------
(***************************************************************************)
(* The order of keys.                                                      *)
(***************************************************************************)
Turn(i, k) == IF i = k THEN k + 1 ELSE IF i = k + 1 THEN k ELSE i

\* Swapping neighbours is a reordering.
LEMMA SwapReorders ==
  ASSUME NEW S, NEW items \in Seq(S), NEW k \in 1..(Len(items) - 1)
  PROVE  /\ Swapped(items, k) \in Seq(S) /\ Len(Swapped(items, k)) = Len(items)
         /\ \A i \in 1..Len(items) :
              Turn(i, k) \in 1..Len(items) /\ Swapped(items, k)[i] = items[Turn(i, k)]
<1>1. PICK n \in Nat : n = Len(items) /\ DOMAIN items = 1..n
  OBVIOUS
<1>2. k \in 1..n /\ k + 1 \in 1..n
  BY <1>1
<1>3. items[k] \in S /\ items[k + 1] \in S
  BY <1>1, <1>2
<1>4. Swapped(items, k) \in Seq(S) /\ Len(Swapped(items, k)) = Len(items)
  BY <1>1, <1>2, <1>3 DEF Swapped
<1>5. \A i \in 1..n : Swapped(items, k)[i] = items[Turn(i, k)]
  BY <1>1, <1>2 DEF Swapped, Turn
<1>6. \A i \in 1..n : Turn(i, k) \in 1..n
  BY <1>1, <1>2 DEF Turn
<1> QED
  BY <1>1, <1>4, <1>5, <1>6

\* Items with one key that the grammar of every place gives the same values.
Alike(item, other) ==
  /\ item.key = other.key
  /\ ContainerValue(item) = ContainerValue(other)
  /\ QueueValue(item) = QueueValue(other)
  /\ JobValue(item) = JobValue(other)

Permutes(p, n) ==
  /\ \A i \in 1..n : p[i] \in 1..n
  /\ \A i, k \in 1..n : p[i] = p[k] => i = k
  /\ \A k \in 1..n : \E i \in 1..n : p[i] = k

\* One list is the other one in some order, up to such items.
Similar(items, others) ==
  /\ IsSeq(items) /\ IsSeq(others) /\ Len(others) = Len(items)
  /\ \E p : /\ Permutes(p, Len(items))
            /\ \A i \in 1..Len(items) : Alike(others[i], items[p[i]])

\* Swapping two positions permutes all of them.
LEMMA TurnPermutes ==
  ASSUME NEW n \in Nat, NEW k \in 1..(n - 1)
  PROVE  Permutes([i \in 1..n |-> Turn(i, k)], n)
<1> DEFINE p == [i \in 1..n |-> Turn(i, k)]
<1>1. \A i \in 1..n : p[i] = Turn(i, k)
  OBVIOUS
<1>2. \A i \in 1..n : Turn(i, k) \in 1..n
  BY DEF Turn
<1>3. \A i \in 1..n : Turn(Turn(i, k), k) = i
  BY DEF Turn
<1> HIDE DEF p
<1>4. \A i \in 1..n : p[i] \in 1..n
  BY <1>1, <1>2
<1>5. \A i, j \in 1..n : p[i] = p[j] => i = j
  BY <1>1, <1>3
<1>6. \A j \in 1..n : \E i \in 1..n : p[i] = j
  BY <1>1, <1>2, <1>3
<1> QED
  BY <1>4, <1>5, <1>6 DEF Permutes, p

\* The keys of a retry(...) may be swapped.
LEMMA RetrySwapped ==
  ASSUME NEW items \in Seq(PlainItems), NEW k \in 1..(Len(items) - 1)
  PROVE  ParseItems(Swapped(items, k), RetryValues(Swapped(items, k)))
           = ParseItems(items, RetryValues(items))
<1> DEFINE n == Len(items)
           p == [i \in 1..n |-> Turn(i, k)]
<1>1. PICK others \in Seq(PlainItems) : others = Swapped(items, k)
  BY SwapReorders
<1>2. /\ n \in Nat /\ Len(others) = n /\ DOMAIN others = 1..n /\ DOMAIN items = 1..n
      /\ \A i \in 1..n : Turn(i, k) \in 1..n /\ others[i] = items[Turn(i, k)]
  BY <1>1, SwapReorders
<1>3. IsSeq(items) /\ IsSeq(others)
  BY <1>2 DEF IsSeq
<1>4. \A i \in 1..n : p[i] = Turn(i, k)
  OBVIOUS
<1>5. Permutes(p, n)
  BY <1>2, TurnPermutes
<1>6. \A i \in 1..n : /\ RetryValues(items)[i] = RetryValue(items[i])
                      /\ RetryValues(others)[i] = RetryValue(others[i])
  BY <1>2 DEF RetryValues
<1> HIDE DEF p
<1>7. \A i \in 1..n : /\ others[i].key = items[p[i]].key
                      /\ RetryValues(others)[i] = RetryValues(items)[p[i]]
  BY <1>2, <1>4, <1>6
<1>8. Reorders(p, items, RetryValues(items), others, RetryValues(others))
  BY <1>5, <1>7 DEF Reorders, Permutes
<1> HIDE DEF n
<1> QED
  BY <1>1, <1>2, <1>3, <1>8, Reordered DEF n

\* A retry(...) says the same when its keys are swapped.
LEMMA NestedAlike ==
  ASSUME NEW item \in Items, item.lit.kind = "list", NEW k \in 1..(Len(item.lit.items) - 1)
  PROVE  Alike([item EXCEPT !.lit.items = Swapped(@, k)], item)
<1>1. PICK own \in Seq(PlainItems) : own = item.lit.items
  <2>1. <<>> \in Seq(PlainItems)
    OBVIOUS
  <2> QED
    BY <2>1, NestedTyped
<1>2. PICK nested \in Seq(PlainItems) : nested = Swapped(own, k)
  BY <1>1, SwapReorders
<1>3. PICK other : other = [item EXCEPT !.lit.items = nested]
  OBVIOUS
<1>4. /\ other.key = item.key /\ other.lit = [kind |-> "list", items |-> nested]
      /\ item.lit = [kind |-> "list", items |-> own]
  BY <1>1, <1>3, NestedTyped
<1>5. [item EXCEPT !.lit.items = Swapped(@, k)] = other
  BY <1>1, <1>2, <1>3
<1>6. ASSUME NEW lit, NEW its, lit = [kind |-> "list", items |-> its]
      PROVE  /\ lit_str(lit) = {} /\ lit_bool(lit) = {} /\ parse_lit(lit) = {}
             /\ reject_blank(lit) = {} /\ \A max : lit_int(lit, max) = {}
             /\ lit.kind = "list" /\ lit.items = its
  BY <1>6 DEF lit_str, lit_bool, parse_lit, reject_blank, lit_int
<1>7. parse_retry(other.lit) = parse_retry(item.lit)
  <2>1. ParseItems(nested, RetryValues(nested)) = ParseItems(own, RetryValues(own))
    BY <1>1, <1>2, RetrySwapped
  <2>2. PICK a : a = ParseItems(nested, RetryValues(nested))
    OBVIOUS
  <2>3. parse_retry(other.lit) = UNION {finish(raw) : raw \in a}
    BY <1>4, <2>2 DEF parse_retry
  <2>4. parse_retry(item.lit) = UNION {finish(raw) : raw \in a}
    BY <1>4, <2>1, <2>2 DEF parse_retry
  <2> QED
    BY <2>3, <2>4
<1>8. /\ lit_str(other.lit) = {} /\ lit_str(item.lit) = {}
      /\ reject_blank(other.lit) = {} /\ reject_blank(item.lit) = {}
      /\ lit_bool(other.lit) = {} /\ lit_bool(item.lit) = {}
      /\ parse_lit(other.lit) = {} /\ parse_lit(item.lit) = {}
      /\ \A max : lit_int(other.lit, max) = {} /\ lit_int(item.lit, max) = {}
  BY <1>4, <1>6
<1>9. other.lit.kind = "list" /\ item.lit.kind = "list"
  BY <1>4, <1>6
<1>10. PICK ol, il, key : ol = other.lit /\ il = item.lit /\ key = item.key
  OBVIOUS
<1>11. QueueValue(other) = QueueValue(item)
  <2>1. ASSUME NEW x, x.key = key, x.lit \in {ol, il}
        PROVE  QueueValue(x) = IF key = "retry" THEN parse_retry(x.lit) ELSE {}
    <3>1. key = "name" \/ key = "prefetch" \/ key = "durable" => QueueValue(x) = {}
      BY <1>8, <1>10, <2>1 DEF QueueValue
    <3>2. key = "message_ttl" \/ key = "max_priority" => QueueValue(x) = {}
      BY <1>8, <1>10, <2>1 DEF QueueValue
    <3>3. key = "retry" => QueueValue(x) = parse_retry(x.lit)
      BY <2>1 DEF QueueValue
    <3>4. key \notin {"name", "prefetch", "durable", "message_ttl", "max_priority", "retry"} =>
            QueueValue(x) = {}
      BY <2>1 DEF QueueValue
    <3> QED
      BY <3>1, <3>2, <3>3, <3>4
  <2> QED
    BY <1>4, <1>7, <1>10, <2>1
<1>12. ContainerValue(other) = ContainerValue(item)
  <2>1. ASSUME NEW x, x.key = key, x.lit \in {ol, il}
        PROVE  ContainerValue(x) = {}
    <3>1. key = "prefix" => ContainerValue(x) = {}
      BY <1>8, <1>10, <2>1 DEF ContainerValue
    <3>2. key = "crate" => ContainerValue(x) = {}
      BY <1>8, <1>10, <2>1 DEF ContainerValue
    <3>3. key \notin {"prefix", "crate"} => ContainerValue(x) = {}
      BY <2>1 DEF ContainerValue
    <3> QED
      BY <3>1, <3>2, <3>3
  <2> QED
    BY <1>4, <1>10, <2>1
<1>13. JobValue(other) = JobValue(item)
  <2>1. ASSUME NEW x, x.key = key, x.lit \in {ol, il}
        PROVE  JobValue(x) = IF key = "retry" THEN parse_retry(x.lit) ELSE {}
    <3>1. key = "name" \/ key = "crate" => JobValue(x) = {}
      BY <1>8, <1>10, <2>1 DEF JobValue
    <3>2. key = "queue" => JobValue(x) = {}
      BY <1>9, <1>10, <2>1 DEF JobValue
    <3>3. key = "retry" => JobValue(x) = parse_retry(x.lit)
      BY <2>1 DEF JobValue
    <3>4. key \notin {"queue", "name", "retry", "crate"} => JobValue(x) = {}
      BY <2>1 DEF JobValue
    <3> QED
      BY <3>1, <3>2, <3>3, <3>4
  <2> QED
    BY <1>4, <1>7, <1>10, <2>1
<1> QED
  BY <1>4, <1>5, <1>11, <1>12, <1>13 DEF Alike

\* Neighbours are similar.
LEMMA NeighboursSimilar ==
  ASSUME NEW items \in Seq(Items), NEW others \in Neighbours(items)
  PROVE  Similar(items, others)
<1> DEFINE n == Len(items)
<1>1. n \in Nat /\ DOMAIN items = 1..n /\ IsSeq(items)
  BY DEF IsSeq
<1>2. CASE \E i \in 1..(n - 1) : others = Swapped(items, i)
  <2>1. PICK k \in 1..(n - 1) : others = Swapped(items, k)
    BY <1>2
  <2> DEFINE p == [i \in 1..n |-> Turn(i, k)]
  <2>2. /\ others \in Seq(Items) /\ Len(others) = n
        /\ \A i \in 1..n : Turn(i, k) \in 1..n /\ others[i] = items[Turn(i, k)]
    BY <2>1, SwapReorders
  <2>3. IsSeq(others)
    BY <2>2 DEF IsSeq
  <2>4. \A i \in 1..n : p[i] = Turn(i, k)
    OBVIOUS
  <2>5. Permutes(p, n)
    BY <1>1, TurnPermutes
  <2> HIDE DEF p
  <2>6. \A i \in 1..n : Alike(others[i], items[p[i]])
    BY <2>2, <2>4 DEF Alike
  <2> QED
    BY <1>1, <2>2, <2>3, <2>5, <2>6 DEF Similar
<1>3. CASE \E i \in DOMAIN items :
             /\ items[i].lit.kind = "list"
             /\ \E k \in 1..(Len(items[i].lit.items) - 1) :
                  others = [items EXCEPT ![i].lit.items = Swapped(@, k)]
  <2>1. PICK j \in 1..n :
          /\ items[j].lit.kind = "list"
          /\ \E k \in 1..(Len(items[j].lit.items) - 1) :
               others = [items EXCEPT ![j].lit.items = Swapped(@, k)]
    BY <1>1, <1>3
  <2>2. PICK item \in Items : item = items[j]
    BY <1>1
  <2>3. PICK k \in 1..(Len(item.lit.items) - 1) :
          others = [items EXCEPT ![j].lit.items = Swapped(@, k)]
    BY <2>1, <2>2
  <2>4. PICK other : other = [item EXCEPT !.lit.items = Swapped(@, k)]
    OBVIOUS
  <2>5. Alike(other, item)
    BY <2>1, <2>2, <2>4, NestedAlike
  <2>6. others = [items EXCEPT ![j] = other]
    BY <1>1, <2>2, <2>3, <2>4
  <2>7. IsSeq(others) /\ Len(others) = n
        /\ \A i \in 1..n : others[i] = IF i = j THEN other ELSE items[i]
    BY <1>1, <2>6 DEF IsSeq
  <2> DEFINE p == [i \in 1..n |-> i]
  <2>8. \A i \in 1..n : p[i] = i
    OBVIOUS
  <2> HIDE DEF p
  <2>9. Permutes(p, n)
    BY <2>8 DEF Permutes
  <2>10. \A i \in 1..n : Alike(others[i], items[p[i]])
    BY <2>2, <2>5, <2>7, <2>8 DEF Alike
  <2> QED
    BY <1>1, <2>7, <2>9, <2>10 DEF Similar
<1> QED
  BY <1>2, <1>3 DEF Neighbours

\* Similar lists give the same slots, wherever they are written.
LEMMA SimilarParse ==
  ASSUME NEW items, NEW others, Similar(items, others)
  PROVE  /\ ParseItems(others, ContainerValues(others)) = ParseItems(items, ContainerValues(items))
         /\ ParseItems(others, QueueValues(others)) = ParseItems(items, QueueValues(items))
         /\ ParseItems(others, JobValues(others)) = ParseItems(items, JobValues(items))
<1> DEFINE n == Len(items)
<1>1. /\ n \in Nat /\ DOMAIN items = 1..n /\ DOMAIN others = 1..n /\ Len(others) = n
      /\ IsSeq(items) /\ IsSeq(others)
  BY DEF Similar, IsSeq
<1>2. PICK p : Permutes(p, n) /\ \A i \in 1..n : Alike(others[i], items[p[i]])
  BY DEF Similar
<1>3. \A i \in 1..n : p[i] \in 1..n
  BY <1>2 DEF Permutes
<1>4. \A i \in 1..n : /\ ContainerValues(items)[i] = ContainerValue(items[i])
                      /\ ContainerValues(others)[i] = ContainerValue(others[i])
  BY <1>1 DEF ContainerValues
<1>5. \A i \in 1..n : /\ QueueValues(items)[i] = QueueValue(items[i])
                      /\ QueueValues(others)[i] = QueueValue(others[i])
  BY <1>1 DEF QueueValues
<1>6. \A i \in 1..n : /\ JobValues(items)[i] = JobValue(items[i])
                      /\ JobValues(others)[i] = JobValue(others[i])
  BY <1>1 DEF JobValues
<1>7. Reorders(p, items, ContainerValues(items), others, ContainerValues(others))
  BY <1>2, <1>3, <1>4, SMTT(60) DEF Reorders, Permutes, Alike
<1>8. Reorders(p, items, QueueValues(items), others, QueueValues(others))
  BY <1>2, <1>3, <1>5, SMTT(60) DEF Reorders, Permutes, Alike
<1>9. Reorders(p, items, JobValues(items), others, JobValues(others))
  BY <1>2, <1>3, <1>6, SMTT(60) DEF Reorders, Permutes, Alike
<1> QED
  BY <1>1, <1>7, <1>8, <1>9, Reordered

\* The enum derives the same from a similar list on it.
LEMMA ContainerOrder ==
  ASSUME NEW enum, NEW other, NEW facade, NEW core, Similar(enum.items, other.items),
         other.item = enum.item, other.generics = enum.generics,
         other.misplaced = enum.misplaced, other.variants = enum.variants
  PROVE  DeriveQueues(other, facade, core) = DeriveQueues(enum, facade, core)
<1>1. PICK containers : /\ containers = ParseItems(enum.items, ContainerValues(enum.items))
                        /\ containers = ParseItems(other.items, ContainerValues(other.items))
  BY SimilarParse
<1> QED
  BY <1>1 DEF DeriveQueues

\* A variant resolves to the same queue from a similar list on it.
LEMMA VariantOrder ==
  ASSUME NEW variant, NEW other, NEW container, Similar(variant.items, other.items),
         other.fields = variant.fields, other.misplaced = variant.misplaced,
         other.ident = variant.ident
  PROVE  resolve_variant(other, container) = resolve_variant(variant, container)
<1>1. PICK slots : /\ slots = ParseItems(variant.items, QueueValues(variant.items))
                   /\ slots = ParseItems(other.items, QueueValues(other.items))
  BY SimilarParse
<1> QED
  BY <1>1 DEF resolve_variant

\* Variants that resolve to the same queues, one by one, do so together.
LEMMA ResolveOrder ==
  ASSUME NEW variants, NEW others, DOMAIN others = DOMAIN variants,
         \A i \in DOMAIN variants : \A container :
           resolve_variant(others[i], container) = resolve_variant(variants[i], container),
         NEW container
  PROVE  ResolveAll(others, container) = ResolveAll(variants, container)
<1>1. PICK resolved :
        /\ resolved = [i \in DOMAIN variants |-> resolve_variant(variants[i], container)]
        /\ resolved = [i \in DOMAIN others |-> resolve_variant(others[i], container)]
  OBVIOUS
<1> QED
  BY <1>1 DEF ResolveAll

\* The enum derives the same from them.
LEMMA QueueOrder ==
  ASSUME NEW enum, NEW other, NEW facade, NEW core,
         other.item = enum.item, other.generics = enum.generics,
         other.misplaced = enum.misplaced, other.items = enum.items,
         other.variants = <<>> <=> enum.variants = <<>>,
         DOMAIN other.variants = DOMAIN enum.variants,
         \A i \in DOMAIN enum.variants : \A container :
           resolve_variant(other.variants[i], container)
             = resolve_variant(enum.variants[i], container)
  PROVE  DeriveQueues(other, facade, core) = DeriveQueues(enum, facade, core)
<1>1. PICK vs, os : vs = enum.variants /\ os = other.variants
  OBVIOUS
<1>2. PICK containers : containers = ParseItems(enum.items, ContainerValues(enum.items))
  OBVIOUS
<1> DEFINE Made(resolved, container) ==
             {[configs |-> [i \in DOMAIN queues |-> config_expr(queues[i])], core |-> path] :
                queues \in {qs \in resolved : ~Duplicates(qs)},
                path \in core_path(container, facade, core)}
           From(variants, c) == Made(ResolveAll(variants, c), c)
           Refused == \/ enum.item # "enum" \/ enum.generics \/ enum.variants = <<>>
                      \/ enum.misplaced
<1>3. DeriveQueues(enum, facade, core)
        = IF Refused THEN {} ELSE UNION {From(vs, c) : c \in containers}
  BY <1>1, <1>2 DEF DeriveQueues
<1>4. DeriveQueues(other, facade, core)
        = IF Refused THEN {} ELSE UNION {From(os, c) : c \in containers}
  BY <1>1, <1>2 DEF DeriveQueues
<1>5. ASSUME NEW c
      PROVE  From(os, c) = From(vs, c)
  <2>1. ResolveAll(os, c) = ResolveAll(vs, c)
    BY <1>1, ResolveOrder
  <2> HIDE DEF Made
  <2> QED
    BY <2>1
<1> HIDE DEF From, Refused
<1> QED
  BY <1>3, <1>4, <1>5

\* The job derives the same.
LEMMA JobOrder ==
  ASSUME NEW job, NEW other, NEW facade, NEW core, Similar(job.items, other.items),
         other.generics = job.generics, other.ident = job.ident
  PROVE  DeriveJob(other, facade, core) = DeriveJob(job, facade, core)
<1>1. PICK slots : /\ slots = ParseItems(job.items, JobValues(job.items))
                   /\ slots = ParseItems(other.items, JobValues(other.items))
  BY SimilarParse
<1> QED
  BY <1>1 DEF DeriveJob

\* A similar list in a place derives the same.
LEMMA PlaceOrder ==
  ASSUME NEW input \in Sources, input.enum.variants # <<>>, NEW place \in Places,
         NEW others, Similar(ItemsAt(input, place), others), NEW manifest
  PROVE  Derive(WithItems(input, place, others), manifest) = Derive(input, manifest)
<1>1. PICK enum \in Enums, job \in Jobs : input = [enum |-> enum, job |-> job]
  BY SourceParts
<1>2. PICK facade, core : facade = manifest[1] /\ core = manifest[2]
  OBVIOUS
<1>3. ASSUME NEW a, NEW b, DeriveQueues(a, facade, core) = DeriveQueues(enum, facade, core),
             DeriveJob(b, facade, core) = DeriveJob(job, facade, core)
      PROVE  Derive([enum |-> a, job |-> b], manifest) = Derive(input, manifest)
  BY <1>1, <1>2, <1>3 DEF Derive
<1>4. CASE place = "container"
  <2>1. PICK other : other = [enum EXCEPT !.items = others]
    OBVIOUS
  <2>2. /\ other.item = enum.item /\ other.generics = enum.generics
        /\ other.misplaced = enum.misplaced /\ other.variants = enum.variants
        /\ other.items = others
    BY <2>1 DEF Enums
  <2>3. Similar(enum.items, other.items)
    BY <1>1, <1>4, <2>2 DEF ItemsAt
  <2>4. DeriveQueues(other, facade, core) = DeriveQueues(enum, facade, core)
    BY <2>2, <2>3, ContainerOrder
  <2>5. WithItems(input, place, others) = [enum |-> other, job |-> job]
    BY <1>1, <1>4, <2>1 DEF WithItems
  <2> QED
    BY <1>3, <2>4, <2>5
<1>5. CASE place = "queue"
  <2>1. PICK variants \in Seq(Variants) : variants = enum.variants /\ variants # <<>>
    BY <1>1 DEF Enums
  <2>2. PICK variant \in Variants : variant = variants[1] /\ 1 \in DOMAIN variants
    BY <2>1
  <2>3. PICK new : new = [variant EXCEPT !.items = others]
    OBVIOUS
  <2>4. /\ new.ident = variant.ident /\ new.fields = variant.fields
        /\ new.misplaced = variant.misplaced /\ new.items = others
    BY <2>3 DEF Variants
  <2>5. Similar(variant.items, new.items)
    BY <1>1, <1>5, <2>1, <2>2, <2>4 DEF ItemsAt
  <2>6. \A container : resolve_variant(new, container) = resolve_variant(variant, container)
    BY <2>4, <2>5, VariantOrder
  <2>7. PICK more : more = [variants EXCEPT ![1] = new]
    OBVIOUS
  <2>8. /\ DOMAIN more = DOMAIN variants /\ more # <<>>
        /\ \A i \in DOMAIN variants : more[i] = IF i = 1 THEN new ELSE variants[i]
    BY <2>1, <2>2, <2>7
  <2>9. PICK other : other = [enum EXCEPT !.variants = more]
    OBVIOUS
  <2>10. /\ other.item = enum.item /\ other.generics = enum.generics
         /\ other.misplaced = enum.misplaced /\ other.items = enum.items
         /\ other.variants = more
    BY <2>9 DEF Enums
  <2>11. \A i \in DOMAIN variants : \A container :
           resolve_variant(more[i], container) = resolve_variant(variants[i], container)
    BY <2>2, <2>6, <2>8
  <2>12. DeriveQueues(other, facade, core) = DeriveQueues(enum, facade, core)
    BY <2>1, <2>8, <2>10, <2>11, QueueOrder
  <2>13. WithItems(input, place, others) = [enum |-> other, job |-> job]
    <3>1. [enum EXCEPT !.variants[1].items = others] = other
      BY <2>1, <2>2, <2>3, <2>7, <2>9
    <3> QED
      BY <1>1, <1>5, <3>1 DEF WithItems
  <2> QED
    BY <1>3, <2>12, <2>13
<1>6. CASE place = "job"
  <2>1. PICK other : other = [job EXCEPT !.items = others]
    OBVIOUS
  <2>2. other.generics = job.generics /\ other.ident = job.ident /\ other.items = others
    BY <2>1 DEF Jobs
  <2>3. Similar(job.items, other.items)
    BY <1>1, <1>6, <2>2 DEF ItemsAt
  <2>4. DeriveJob(other, facade, core) = DeriveJob(job, facade, core)
    BY <2>2, <2>3, JobOrder
  <2>5. WithItems(input, place, others) = [enum |-> enum, job |-> other]
    BY <1>1, <1>6, <2>1 DEF WithItems
  <2> QED
    BY <1>3, <2>4, <2>5
<1> QED
  BY <1>4, <1>5, <1>6 DEF Places

\* OrderIrrelevant for all items and numbers of keys: swapping neighbours in an attribute
\* or in a retry list changes neither whether it compiles nor what it compiles to.
THEOREM OrderIsIrrelevant == Spec => []OrderIrrelevant
<1>1. SourceInv => OrderIrrelevant
  <2> SUFFICES ASSUME SourceInv, source.enum.variants # <<>>, NEW place \in Places,
                      NEW items \in Neighbours(ItemsAt(source, place)), NEW manifest
               PROVE  Derive(WithItems(source, place, items), manifest)
                        = Derive(source, manifest)
    BY DEF OrderIrrelevant
  <2>1. ItemsAt(source, place) \in Seq(IF place = "job" THEN OfAJob ELSE Items)
    BY ListsOfSources DEF SourceInv
  <2>2. OfAJob \subseteq Items
    BY DEF OfAJob
  <2>3. ItemsAt(source, place) \in Seq(Items)
    BY <2>1, <2>2, SeqMonotonic
  <2> QED
    BY <2>3, NeighboursSimilar, PlaceOrder DEF SourceInv
<1> QED
  BY <1>1, SourceTyped, PTL
=============================================================================
