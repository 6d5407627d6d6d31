----------------------------- MODULE WorkerProofs -----------------------------
(***************************************************************************)
(* The worker keeps its slots, its deliveries and its word, and implements *)
(* AtLeastOnce: for any jobs, queues, concurrency, policies and bounds.    *)
(***************************************************************************)
EXTENDS Worker, FiniteSetTheorems, TLAPS

-----------------------------------------------------------------------------
(***************************************************************************)
(* The inductive invariant.                                                *)
(***************************************************************************)

PlainTypes ==
  /\ pc \in {"start", "permit", "recv", "stopping", "drain", "drainRecv", "join", "done"}
  /\ unstarted \subseteq Queues
  /\ outcome \in {"Ok", "BackendError", "ConsumerStopped"}
  /\ shutdown \in BOOLEAN /\ stop \in BOOLEAN
  /\ settleFailures \in Nat
  /\ fwd \in [Queues -> {"none", "pull", "send", "done"}]
  /\ faults \in 0..MaxFaults /\ crashes \in 0..MaxCrashes

\* Only deliveries carry the tag of a copy.
EventOk(e) == IF e.kind = "Delivery" THEN e.tag \in Tags ELSE e.tag = 0

EventInv ==
  /\ ch \in Seq(Event) /\ Len(ch) <= Capacity
  /\ item \in [Queues -> Event \cup {NoItem}]
  /\ \A i \in DOMAIN ch : EventOk(ch[i])
  /\ \A q \in Queues : EventOk(item[q])
  /\ \A q \in Queues : fwd[q] = "send" <=> item[q].kind # "none"
  /\ \A q \in unstarted : fwd[q] = "none"

\* A task knows what it may still do: the verdict comes from the attempt the policy
\* was asked about, and a dead-lettering one is not settled before its hook ran.
TaskOk(t) ==
  /\ t.tag \in Tags
  /\ t.stage = "dispatch" => ~t.last
  /\ t.stage \in {"dispatch", "run", "abort"} <=> t.op = "none"
  /\ t.stage \in {"run", "abort"} =>
       t.max \in Policies /\ (t.last <=> IsLastAttempt(Env(t), t.max))
  /\ t.op = "retry" => ~t.last /\ Env(t).attempt < MaxAttempts
  /\ t.op = "defer" => Env(t).deferrals < MaxDeferrals
  /\ t.stage = "hook" => t.op = "dead_letter"
  /\ HasHook /\ t.op = "dead_letter" /\ t.stage = "settle" => Env(t) \in notified

TaskInv ==
  /\ tasks \subseteq Task
  /\ \A t \in tasks : TaskOk(t)
  /\ \A h \in handlers : \E t \in tasks : t.tag = h /\ t.stage \in {"run", "abort"}

\* A copy is with one holder at most, and not on its queue meanwhile.
UniqueInv ==
  /\ \A q, r \in Queues : item[q].tag = item[r].tag => q = r \/ item[q].tag = 0
  /\ \A i, j \in DOMAIN ch : ch[i].tag = ch[j].tag => i = j \/ ch[i].tag = 0
  /\ \A t, u \in tasks : t.tag = u.tag => t = u
  /\ \A q \in Queues, i \in DOMAIN ch : item[q].tag = ch[i].tag => ch[i].tag = 0
  /\ \A q \in Queues, t \in tasks : item[q].tag # t.tag
  /\ \A i \in DOMAIN ch, t \in tasks : ch[i].tag # t.tag
  /\ \A h \in HeldTags \ {0} : copies[h].st \in {"unacked", "returned"}

InHand == IF pc \in {"recv", "drainRecv"} THEN 1 ELSE 0

SlotInv ==
  /\ IsFiniteSet(tasks)
  /\ permits \in Nat
  /\ permits + Cardinality(tasks) + InHand = Concurrency

Live == {"ready", "unacked"}

\* A job has one live copy, unless it is known to be duplicated.
LiveInv ==
  /\ \A s, t \in Tags :
       copies[s].env.job = copies[t].env.job /\ copies[s].st \in Live /\ copies[t].st \in Live
         => s = t \/ copies[s].env.job \in duplicated
  /\ \A t \in Tags : copies[t].st = "returned" => copies[t].env.job \in duplicated

\* Whatever becomes of a copy, its job is still owed, or it has succeeded or is dead.
CoveredInv ==
  \A t \in Tags : \E u \in Tags :
    copies[u].env.job = copies[t].env.job /\ copies[u].st \in Live \cup {"succeeded", "dead"}

\* After the drain loop the channel is empty and stays so.
EndInv ==
  /\ pc \in {"join", "done"} => ch = <<>> /\ SendersGone
  /\ pc = "done" => tasks = {}

HistTypes ==
  /\ copies \in Seq(Copy)
  /\ notified \subseteq Envelope
  /\ duplicated \subseteq Jobs

IInv ==
  /\ PlainTypes /\ HistTypes /\ EventInv /\ TaskInv /\ UniqueInv /\ SlotInv
  /\ LiveInv /\ CoveredInv /\ EndInv /\ HookBeforeDeadLetter

-----------------------------------------------------------------------------
(***************************************************************************)
(* What steps do to the copies.                                            *)
(***************************************************************************)
States == {"ready", "unacked", "succeeded", "superseded", "dead", "returned"}

\* No copy disappears, and none changes its envelope.
Keeps(D) ==
  /\ D \in Seq(Copy)
  /\ Len(copies) <= Len(D)
  /\ \A t \in Tags : D[t].env = copies[t].env

LEMMA TagsDomain ==
  ASSUME copies \in Seq(Copy)
  PROVE  /\ Tags = DOMAIN copies
         /\ Len(copies) \in Nat
         /\ \A t \in Tags : copies[t] \in Copy /\ copies[t].env \in Envelope /\ copies[t].st \in States
<1>1. Tags = DOMAIN copies /\ Len(copies) \in Nat /\ \A t \in Tags : copies[t] \in Copy
  BY DEF Tags
<1>2. \A c \in Copy : c.env \in Envelope /\ c.st \in States
  BY DEF Copy, States
<1> QED
  BY <1>1, <1>2

\* A copy gets another state.
Restate(t, x) == [copies EXCEPT ![t].st = x]

LEMMA Restated ==
  ASSUME copies \in Seq(Copy), NEW t \in Tags, NEW x \in States
  PROVE  /\ Keeps(Restate(t, x))
         /\ Len(Restate(t, x)) = Len(copies)
         /\ \A u \in Tags : Restate(t, x)[u].st = IF u = t THEN x ELSE copies[u].st
<1> DEFINE D == Restate(t, x)
<1>1. copies[t] \in Copy /\ Len(copies) \in Nat /\ Tags = DOMAIN copies
  BY TagsDomain
<1>2. [copies[t] EXCEPT !.st = x] \in Copy
  BY <1>1 DEF Copy, States
<1>3. D \in Seq(Copy) /\ Len(D) = Len(copies)
  <2>1. D = [copies EXCEPT ![t] = [copies[t] EXCEPT !.st = x]]
    BY DEF Restate
  <2>2. D \in [1..Len(copies) -> Copy]
    BY <1>1, <1>2, <2>1 DEF Tags
  <2> QED
    BY <1>1, <2>2
<1>4. \A u \in Tags : D[u] = IF u = t THEN [copies[t] EXCEPT !.st = x] ELSE copies[u]
  BY DEF Tags, Restate
<1>5. \A u \in Tags : D[u].env = copies[u].env /\ D[u].st = IF u = t THEN x ELSE copies[u].st
  BY <1>1, <1>4 DEF Copy
<1> QED
  BY <1>3, <1>5 DEF Keeps

\* A copy is added.
LEMMA Added ==
  ASSUME copies \in Seq(Copy), NEW D, Keeps(D), Len(D) = Len(copies), NEW c \in Copy
  PROVE  /\ Keeps(Append(D, c))
         /\ Len(Append(D, c)) = Len(copies) + 1
         /\ \A u \in Tags : Append(D, c)[u] = D[u]
         /\ Append(D, c)[Len(copies) + 1] = c
BY DEF Keeps, Tags

LEMMA KeepsSame == copies \in Seq(Copy) => Keeps(copies)
BY DEF Keeps

\* The copy that takes over is a copy: an attempt is only counted up when the policy
\* left one, and a deferral below its bound.
LEMMA SuccessorTyped ==
  ASSUME copies \in Seq(Copy), TaskInv, NEW t \in tasks, t.stage = "settle", t.op # "ack"
  PROVE  /\ Successor(t) \in Copy
         /\ t.op \in {"retry", "defer", "dead_letter"}
         /\ Successor(t).env.job = Env(t).job
         /\ Successor(t).st = IF t.op = "dead_letter" THEN "dead" ELSE "ready"
         /\ t.op = "dead_letter" => Successor(t).env = Env(t)
<1>1. t.op \in {"retry", "defer", "dead_letter"} /\ TaskOk(t)
  BY DEF TaskInv, TaskOk, Task, Ops
<1>2. Env(t) \in Envelope
  BY <1>1, TagsDomain DEF Env, TaskOk
<1>3. CASE t.op = "retry"
  <2>1. Env(t).attempt + 1 \in 1..MaxAttempts
    BY <1>1, <1>2, <1>3, EnvelopeAssumption DEF TaskOk, Envelope
  <2>2. NextAttempt(Env(t)) \in Envelope /\ NextAttempt(Env(t)).job = Env(t).job
    BY <1>2, <2>1 DEF NextAttempt, Envelope
  <2> QED
    BY <1>3, <2>2 DEF Successor, Copy
<1>4. CASE t.op = "defer"
  <2>1. Env(t).deferrals + 1 \in 0..MaxDeferrals
    BY <1>1, <1>2, <1>4, EnvelopeAssumption DEF TaskOk, Envelope
  <2>2. Deferred(Env(t)) \in Envelope /\ Deferred(Env(t)).job = Env(t).job
    BY <1>2, <2>1 DEF Deferred, Envelope
  <2> QED
    BY <1>4, <2>2 DEF Successor, Copy
<1>5. CASE t.op = "dead_letter"
  BY <1>2, <1>5 DEF Successor, Copy
<1> QED
  BY <1>1, <1>3, <1>4, <1>5

\* Which copies each step changes or adds.  The tag of a new one is Len(copies) + 1.
New == Len(copies) + 1

LEMMA EnqueueCopies ==
  ASSUME copies \in Seq(Copy), NEW j \in Jobs, Enqueue(j)
  PROVE  /\ Keeps(copies') /\ Len(copies') = New
         /\ \A u \in Tags : copies'[u] = copies[u]
         /\ copies'[New].env.job = j /\ copies'[New].st = "ready"
<1> DEFINE c == [env |-> NewEnvelope(j), st |-> "ready"]
<1>1. c \in Copy
  BY EnvelopeAssumption DEF Copy, NewEnvelope, Envelope
<1>2. copies' = Append(copies, c)
  BY DEF Enqueue
<1>3. c.env.job = j /\ c.st = "ready"
  BY DEF NewEnvelope
<1> HIDE DEF c
<1> QED
  BY <1>1, <1>2, <1>3, KeepsSame, Added DEF New

LEMMA RedeliverCopies ==
  ASSUME copies \in Seq(Copy), NEW t \in Tags, Redeliver(t)
  PROVE  /\ Keeps(copies') /\ Len(copies') = Len(copies)
         /\ \A u \in Tags : copies'[u].st = IF u = t THEN "ready" ELSE copies[u].st
<1>1. "ready" \in States /\ copies' = Restate(t, "ready")
  BY DEF Restate, Redeliver, States
<1> QED
  BY <1>1, Restated

LEMMA TakeBackCopies ==
  ASSUME copies \in Seq(Copy), NEW t \in Tags, TakeBack(t)
  PROVE  /\ Keeps(copies') /\ Len(copies') = New
         /\ \A u \in Tags : copies'[u].st = IF u = t THEN "returned" ELSE copies[u].st
         /\ copies'[New].env = copies[t].env /\ copies'[New].st = "ready"
<1> DEFINE D == Restate(t, "returned")
           c == [copies[t] EXCEPT !.st = "ready"]
<1>1. copies[t] \in Copy
  BY TagsDomain
<1>2. c \in Copy /\ c.env = copies[t].env /\ c.st = "ready"
  BY <1>1 DEF Copy
<1>3. /\ Keeps(D) /\ Len(D) = Len(copies)
      /\ \A u \in Tags : D[u].st = IF u = t THEN "returned" ELSE copies[u].st
  BY Restated DEF States
<1>4. copies' = Append(D, c)
  BY DEF TakeBack, Restate
<1> HIDE DEF D, c
<1> QED
  BY <1>2, <1>3, <1>4, Added, ZenonT(60) DEF New

LEMMA CrashCopies ==
  ASSUME copies \in Seq(Copy), Crash
  PROVE  /\ Keeps(copies') /\ Len(copies') = Len(copies)
         /\ \A u \in Tags : copies'[u].st = IF copies[u].st = "unacked" THEN "ready"
                                            ELSE copies[u].st
<1>1. Tags = 1..Len(copies) /\ Len(copies) \in Nat /\ \A u \in Tags : copies[u] \in Copy
  BY TagsDomain DEF Tags
<1>2. \A c \in Copy : /\ [c EXCEPT !.st = "ready"] \in Copy
                      /\ [c EXCEPT !.st = "ready"].env = c.env
                      /\ [c EXCEPT !.st = "ready"].st = "ready"
  BY DEF Copy
<1>3. /\ copies' = [u \in Tags |-> copies'[u]]
      /\ \A u \in Tags : copies'[u] = IF copies[u].st = "unacked"
                                      THEN [copies[u] EXCEPT !.st = "ready"] ELSE copies[u]
  BY DEF Crash, Requeued
<1>4. copies' \in [1..Len(copies) -> Copy]
  BY <1>1, <1>2, <1>3
<1>5. copies' \in Seq(Copy) /\ Len(copies') = Len(copies)
  BY <1>1, <1>4
<1>6. \A u \in Tags : /\ copies'[u].env = copies[u].env
                      /\ copies'[u].st = IF copies[u].st = "unacked" THEN "ready"
                                         ELSE copies[u].st
  <2> SUFFICES ASSUME NEW u \in Tags
               PROVE  /\ copies'[u].env = copies[u].env
                      /\ copies'[u].st = IF copies[u].st = "unacked" THEN "ready"
                                         ELSE copies[u].st
    OBVIOUS
  <2>1. CASE copies[u].st = "unacked"
    <3>1. copies'[u] = [copies[u] EXCEPT !.st = "ready"] /\ copies[u] \in Copy
      BY <1>1, <1>3, <2>1
    <3> QED
      BY <1>2, <2>1, <3>1
  <2>2. CASE copies[u].st # "unacked"
    BY <1>3, <2>2
  <2> QED
    BY <2>1, <2>2
<1> QED
  BY <1>1, <1>5, <1>6 DEF Keeps

\* What consume_into does with a copy, or with an error or the end of its stream.
PullsCopy(q, t) ==
  /\ copies[t].st = "ready"
  /\ copies' = [copies EXCEPT ![t].st = "unacked"]
  /\ item' = [item EXCEPT ![q] = [kind |-> "Delivery", tag |-> t]]
  /\ fwd' = [fwd EXCEPT ![q] = "send"]

PullsFault(q, kind) ==
  /\ UNCHANGED copies
  /\ item' = [item EXCEPT ![q] = [kind |-> kind, tag |-> 0]]
  /\ fwd' = [fwd EXCEPT ![q] = "send"]

LEMMA PullCopies ==
  ASSUME copies \in Seq(Copy), NEW q \in Queues, NEW t \in Tags, PullsCopy(q, t)
  PROVE  /\ Keeps(copies') /\ Len(copies') = Len(copies)
         /\ \A u \in Tags : copies'[u].st = IF u = t THEN "unacked" ELSE copies[u].st
<1>1. "unacked" \in States /\ copies' = Restate(t, "unacked")
  BY DEF Restate, PullsCopy, States
<1> QED
  BY <1>1, Restated

LEMMA SettleOkCopies ==
  ASSUME copies \in Seq(Copy), TaskInv, NEW t \in tasks, t.stage = "settle", SettleOk(t)
  PROVE  /\ Keeps(copies') /\ t.tag \in Tags
         /\ t.op = "ack" =>
              /\ Len(copies') = Len(copies)
              /\ \A u \in Tags : copies'[u].st = IF u = t.tag THEN "succeeded" ELSE copies[u].st
         /\ t.op # "ack" =>
              /\ Len(copies') = New
              /\ \A u \in Tags : copies'[u].st = IF u = t.tag THEN "superseded" ELSE copies[u].st
              /\ copies'[New] = Successor(t)
<1>1. t.tag \in Tags
  BY DEF TaskInv, TaskOk
<1>2. CASE t.op = "ack"
  <2>1. "succeeded" \in States /\ copies' = Restate(t.tag, "succeeded")
    BY <1>2 DEF Restate, SettleOk, States
  <2> QED
    BY <1>1, <1>2, <2>1, Restated
<1>3. CASE t.op # "ack"
  <2> DEFINE D == Restate(t.tag, "superseded")
  <2>1. /\ Keeps(D) /\ Len(D) = Len(copies)
        /\ \A u \in Tags : D[u].st = IF u = t.tag THEN "superseded" ELSE copies[u].st
    BY <1>1, Restated DEF States
  <2>2. Successor(t) \in Copy /\ copies' = Append(D, Successor(t))
    BY <1>3, SuccessorTyped DEF SettleOk, Restate
  <2> HIDE DEF D
  <2> QED
    BY <1>1, <1>3, <2>1, <2>2, Added, ZenonT(60) DEF New
<1> QED
  BY <1>2, <1>3

\* A settle fails before the successor is published, or after.
LEMMA SettleFailsCopies ==
  ASSUME copies \in Seq(Copy), TaskInv, NEW t \in tasks, t.stage = "settle", SettleFails(t)
  PROVE  /\ Keeps(copies') /\ t.tag \in Tags
         /\ \A u \in Tags : copies'[u] = copies[u]
         /\ \/ UNCHANGED <<copies, duplicated>>
            \/ /\ t.op # "ack"
               /\ Len(copies') = New
               /\ copies'[New] = Successor(t)
               /\ duplicated' = duplicated \cup {Env(t).job}
<1>1. t.tag \in Tags
  BY DEF TaskInv, TaskOk
<1>2. CASE UNCHANGED <<copies, duplicated>>
  BY <1>1, <1>2, KeepsSame
<1>3. CASE /\ t.op # "ack"
           /\ copies' = Append(copies, Successor(t))
           /\ duplicated' = duplicated \cup {Env(t).job}
  <2>1. Successor(t) \in Copy
    BY <1>3, SuccessorTyped
  <2> QED
    BY <1>1, <1>3, <2>1, KeepsSame, Added DEF New
<1> QED
  BY <1>2, <1>3 DEF SettleFails
-----------------------------------------------------------------------------
(***************************************************************************)
(* Steps that leave the broker alone, and what all steps keep.             *)
(***************************************************************************)
QuietTask(t) ==
  \/ Undeliverable(t) \/ SpawnHandler(t) \/ DispatchPanics(t)
  \/ HandlerEnds(t) \/ TimeOut(t) \/ AbortLands(t)

LEMMA QuietSteps ==
  ASSUME \/ MainNext \/ Shutdown
         \/ \E q \in Queues : Send(q)
         \/ \E t \in tasks : QuietTask(t)
  PROVE  UNCHANGED <<copies, notified, duplicated, crashes>>
<1>1. CASE MainNext
  BY <1>1 DEF MainNext, StartConsumer, TakePermit, Receive, StopConsumers, DrainPermit,
     DrainReceive, Finish, brokerVars, histVars
<1>2. CASE Shutdown \/ \E q \in Queues : Send(q)
  BY <1>2 DEF Shutdown, Send, brokerVars, histVars
<1>3. CASE \E t \in tasks : QuietTask(t)
  BY <1>3 DEF QuietTask, Undeliverable, SpawnHandler, DispatchPanics, HandlerEnds, TimeOut,
     AbortLands, brokerVars, histVars
<1> QED
  BY <1>1, <1>2, <1>3

\* A pull takes a ready copy, or leaves the broker alone.
LEMMA PullSteps ==
  ASSUME NEW q \in Queues, Pull(q)
  PROVE  /\ \/ \E t \in Tags : PullsCopy(q, t)
            \/ \E kind \in {"Failed", "Ended"} : PullsFault(q, kind)
            \/ UNCHANGED <<copies, item>> /\ fwd' = [fwd EXCEPT ![q] = "done"]
         /\ fwd[q] = "pull"
         /\ UNCHANGED <<runVars, taskVars, notified, duplicated, crashes>>
BY DEF Pull, PullsCopy, PullsFault

LEMMA NextSplit ==
  ASSUME Next
  PROVE  \/ MainNext \/ Shutdown
         \/ \E q \in Queues : Send(q)
         \/ \E t \in tasks : QuietTask(t)
         \/ \E q \in Queues : Pull(q)
         \/ \E t \in tasks : NotifyDead(t)
         \/ \E t \in tasks : Settle(t)
         \/ \E j \in Jobs : Enqueue(j)
         \/ \E t \in Tags : Redeliver(t)
         \/ \E t \in Tags : TakeBack(t)
         \/ Crash
BY DEF Next, TaskNext, QuietTask, BrokerNext

LEMMA HistStep ==
  ASSUME HistTypes, TaskInv, Next
  PROVE  HistTypes' /\ Keeps(copies') /\ notified \subseteq notified'
<1> USE DEF HistTypes
<1>1. CASE \/ MainNext \/ Shutdown
           \/ \E q \in Queues : Send(q)
           \/ \E t \in tasks : QuietTask(t)
  BY <1>1, QuietSteps, KeepsSame
<1>2. CASE \E q \in Queues : Pull(q)
  <2>1. PICK q \in Queues : Pull(q)
    BY <1>2
  <2>2. Keeps(copies')
    BY <2>1, PullSteps, PullCopies, KeepsSame DEF PullsFault
  <2> QED
    BY <2>1, <2>2, PullSteps DEF Keeps
<1>3. CASE \E t \in tasks : NotifyDead(t)
  <2>1. PICK t \in tasks : NotifyDead(t)
    BY <1>3
  <2>2. UNCHANGED <<copies, duplicated>> /\ notified' = notified \cup {Env(t)}
    BY <2>1 DEF NotifyDead, brokerVars
  <2>3. Env(t) \in Envelope
    BY TagsDomain DEF TaskInv, TaskOk, Env
  <2> QED
    BY <2>2, <2>3, KeepsSame
<1>4. CASE \E t \in tasks : Settle(t)
  <2>1. PICK t \in tasks : Settle(t)
    BY <1>4
  <2>2. t.stage = "settle" /\ (SettleOk(t) \/ SettleFails(t)) /\ UNCHANGED notified
    BY <2>1 DEF Settle
  <2>3. Keeps(copies')
    BY <2>2, SettleOkCopies, SettleFailsCopies
  <2>4. Env(t) \in Envelope /\ Env(t).job \in Jobs
    BY TagsDomain DEF TaskInv, TaskOk, Env, Envelope
  <2>5. duplicated' \subseteq Jobs
    BY <2>2, <2>4 DEF SettleOk, SettleFails
  <2> QED
    BY <2>2, <2>3, <2>5 DEF Keeps
<1>5. CASE \E j \in Jobs : Enqueue(j)
  BY <1>5, EnqueueCopies DEF Enqueue, histVars, Keeps
<1>6. CASE \E t \in Tags : Redeliver(t)
  BY <1>6, RedeliverCopies DEF Redeliver, histVars, Keeps
<1>7. CASE \E t \in Tags : TakeBack(t)
  <2>1. PICK t \in Tags : TakeBack(t)
    BY <1>7
  <2>2. copies[t].env.job \in Jobs
    BY TagsDomain DEF Envelope
  <2> QED
    BY <2>1, <2>2, TakeBackCopies DEF TakeBack, Keeps
<1>8. CASE Crash
  BY <1>8, CrashCopies DEF Crash, Keeps
<1> QED
  BY <1>1, <1>2, <1>3, <1>4, <1>5, <1>6, <1>7, <1>8, NextSplit
LEMMA PlainStep ==
  ASSUME PlainTypes, Next
  PROVE  PlainTypes'
<1> USE DEF PlainTypes, Fault, NoFault
<1>0. MaxFaults \in Nat /\ MaxCrashes \in Nat
  BY WorkerAssumption
<1>1. CASE StartConsumer
  BY <1>0, <1>1 DEF StartConsumer
<1>2. CASE TakePermit \/ StopConsumers \/ DrainPermit
  BY <1>2 DEF TakePermit, StopConsumers, DrainPermit, fwdVars, histVars
<1>3. CASE Receive \/ DrainReceive
  BY <1>3 DEF Receive, DrainReceive, fwdVars, histVars
<1>4. CASE Finish
  BY <1>0, <1>4 DEF Finish, fwdVars
<1>5. CASE Shutdown
  BY <1>5 DEF Shutdown, fwdVars, histVars
<1>6. CASE \E q \in Queues : Send(q)
  BY <1>6 DEF Send, histVars
<1>7. CASE \E t \in tasks : QuietTask(t)
  <2>1. UNCHANGED <<pc, unstarted, outcome, shutdown, stop, settleFailures, fwd, crashes>>
    BY <1>7 DEF QuietTask, Undeliverable, SpawnHandler, DispatchPanics, HandlerEnds, TimeOut,
       AbortLands, runVars, fwdVars, histVars
  <2>2. UNCHANGED faults \/ Fault
    BY <1>7 DEF QuietTask, Undeliverable, SpawnHandler, DispatchPanics, HandlerEnds, TimeOut,
       AbortLands, histVars
  <2> QED
    BY <1>0, <2>1, <2>2
<1>8. CASE \E q \in Queues : Pull(q)
  BY <1>0, <1>8 DEF Pull, runVars
<1>9. CASE \E t \in tasks : NotifyDead(t)
  BY <1>9 DEF NotifyDead, runVars, fwdVars
<1>10. CASE \E t \in tasks : Settle(t)
  BY <1>0, <1>10 DEF Settle, SettleOk, SettleFails, fwdVars
<1>11. CASE \/ \E j \in Jobs : Enqueue(j)
            \/ \E t \in Tags : Redeliver(t)
  BY <1>11 DEF Enqueue, Redeliver, runVars, fwdVars, histVars
<1>12. CASE \E t \in Tags : TakeBack(t)
  BY <1>0, <1>12 DEF TakeBack, runVars, fwdVars
<1>13. CASE Crash
  <2>1. crashes' \in 0..MaxCrashes
    BY <1>0, <1>13 DEF Crash
  <2>2. UNCHANGED faults /\ WorkerRestarts
    BY <1>13 DEF Crash
  <2>3. fwd' \in [Queues -> {"none", "pull", "send", "done"}]
    BY <2>2 DEF WorkerRestarts
  <2> QED
    BY <2>1, <2>2, <2>3 DEF WorkerRestarts
<1> QED
  BY <1>1, <1>2, <1>3, <1>4, <1>5, <1>6, <1>7, <1>8, <1>9, <1>10, <1>11, <1>12, <1>13,
     NextSplit DEF MainNext

-----------------------------------------------------------------------------
(***************************************************************************)
(* Events on their way to the main task.                                   *)
(***************************************************************************)
LEMMA CapacityNat == Capacity \in Nat \ {0}
<1>1. CASE Queues = {}
  BY <1>1 DEF Capacity
<1>2. CASE Queues # {}
  BY <1>2, WorkerAssumption, FS_CardinalityType, FS_EmptySet DEF Capacity
<1> QED
  BY <1>1, <1>2

LEMMA EventFrame ==
  ASSUME EventInv, Keeps(copies'), UNCHANGED <<ch, item, fwd>>, unstarted' \subseteq unstarted
  PROVE  EventInv'
BY DEF EventInv, EventOk, Keeps, Tags

LEMMA EventKept ==
  ASSUME copies \in Seq(Copy), NEW e, EventOk(e), Keeps(copies')
  PROVE  EventOk(e)'
BY DEF EventOk, Keeps, Tags

LEMMA EventStep ==
  ASSUME EventInv, PlainTypes, HistTypes, TaskInv, Next
  PROVE  EventInv'
<1>0. Keeps(copies') /\ copies \in Seq(Copy)
  BY HistStep DEF HistTypes
<1>1. CASE StartConsumer
  <2>1. UNCHANGED <<ch, item>> /\ unstarted' \subseteq unstarted
    BY <1>1 DEF StartConsumer
  <2>2. \A q \in Queues : fwd'[q] = fwd[q] \/ (fwd[q] = "none" /\ fwd'[q] = "pull")
    BY <1>1 DEF StartConsumer, EventInv, PlainTypes
  <2>3. \A q \in unstarted' : fwd'[q] = "none"
    BY <1>1 DEF StartConsumer, EventInv, PlainTypes
  <2> QED
    BY <1>0, <2>1, <2>2, <2>3, EventKept DEF EventInv
<1>2. CASE \/ TakePermit \/ StopConsumers \/ DrainPermit \/ Finish \/ Shutdown
           \/ \E t \in tasks : QuietTask(t) \/ NotifyDead(t) \/ Settle(t)
           \/ \E j \in Jobs : Enqueue(j)
           \/ \E t \in Tags : Redeliver(t) \/ TakeBack(t)
  <2>1. UNCHANGED <<ch, item, fwd, unstarted>>
    BY <1>2 DEF TakePermit, StopConsumers, DrainPermit, Finish, Shutdown, QuietTask,
       Undeliverable, SpawnHandler, DispatchPanics, HandlerEnds, TimeOut, AbortLands,
       NotifyDead, Settle, Enqueue, Redeliver, TakeBack, runVars, fwdVars
  <2> QED
    BY <1>0, <2>1, EventFrame
<1>3. CASE Receive \/ DrainReceive
  <2>1. UNCHANGED <<item, fwd, unstarted>> /\ (ch' = ch \/ (ch # <<>> /\ ch' = Tail(ch)))
    BY <1>3 DEF Receive, DrainReceive, fwdVars
  <2>2. CASE ch' = ch
    BY <1>0, <2>1, <2>2, EventFrame
  <2>3. CASE ch # <<>> /\ ch' = Tail(ch)
    <3>1. ch' \in Seq(Event) /\ Len(ch') = Len(ch) - 1 /\ Len(ch) \in Nat
      BY <2>3 DEF EventInv
    <3>2. \A i \in DOMAIN ch' : i + 1 \in DOMAIN ch /\ ch'[i] = ch[i + 1]
      BY <2>3 DEF EventInv
    <3>3. Len(ch') <= Capacity
      BY <3>1, CapacityNat DEF EventInv
    <3> QED
      BY <1>0, <2>1, <3>1, <3>2, <3>3, EventKept DEF EventInv
  <2> QED
    BY <2>1, <2>2, <2>3
<1>4. CASE \E q \in Queues : Pull(q)
  <2>1. PICK q \in Queues : Pull(q)
    BY <1>4
  <2>2. UNCHANGED <<ch, unstarted>> /\ fwd[q] = "pull"
    BY <2>1, PullSteps DEF runVars
  <2>3. CASE UNCHANGED item /\ fwd' = [fwd EXCEPT ![q] = "done"]
    BY <1>0, <2>2, <2>3, EventKept DEF EventInv, PlainTypes
  <2>4. CASE \E e \in Event : /\ EventOk(e)
                              /\ item' = [item EXCEPT ![q] = e]
                              /\ fwd' = [fwd EXCEPT ![q] = "send"]
    <3>1. PICK e \in Event : /\ EventOk(e)
                             /\ item' = [item EXCEPT ![q] = e]
                             /\ fwd' = [fwd EXCEPT ![q] = "send"]
      BY <2>4
    <3>2. e.kind # "none"
      BY DEF Event
    <3>3. item' \in [Queues -> Event \cup {NoItem}]
      BY <3>1 DEF EventInv
    <3>4. \A r \in Queues : item'[r] = (IF r = q THEN e ELSE item[r])
                            /\ fwd'[r] = IF r = q THEN "send" ELSE fwd[r]
      BY <3>1 DEF EventInv, PlainTypes
    <3> QED
      BY <1>0, <2>2, <3>1, <3>2, <3>3, <3>4, EventKept DEF EventInv, PlainTypes
  <2>5. CASE \E t \in Tags : PullsCopy(q, t)
    <3>1. PICK t \in Tags : PullsCopy(q, t)
      BY <2>5
    <3>2. [kind |-> "Delivery", tag |-> t] \in Event /\ EventOk([kind |-> "Delivery", tag |-> t])
      BY DEF Event, EventOk, Tags
    <3> QED
      BY <2>4, <3>1, <3>2 DEF PullsCopy
  <2>6. CASE \E kind \in {"Failed", "Ended"} : PullsFault(q, kind)
    <3>1. PICK kind \in {"Failed", "Ended"} : PullsFault(q, kind)
      BY <2>6
    <3>2. [kind |-> kind, tag |-> 0] \in Event /\ EventOk([kind |-> kind, tag |-> 0])
      BY DEF Event, EventOk
    <3> QED
      BY <2>4, <3>1, <3>2 DEF PullsFault
  <2> QED
    BY <2>1, <2>3, <2>5, <2>6, PullSteps
<1>5. CASE \E q \in Queues : Send(q)
  <2>1. PICK q \in Queues : Send(q)
    BY <1>5
  <2>2. /\ fwd[q] = "send" /\ Len(ch) < Capacity
        /\ ch' = Append(ch, item[q])
        /\ item' = [item EXCEPT ![q] = NoItem]
        /\ \E to \in {"done", "pull"} : fwd' = [fwd EXCEPT ![q] = to]
        /\ UNCHANGED <<unstarted, copies>>
    BY <2>1 DEF Send, brokerVars
  <2>3. item[q] \in Event /\ EventOk(item[q])
    BY <2>2 DEF EventInv, NoItem
  <2>4. ch' \in Seq(Event) /\ Len(ch') <= Capacity
    BY <2>2, <2>3, CapacityNat DEF EventInv
  <2>5. \A i \in DOMAIN ch' : ch'[i] = IF i \in DOMAIN ch THEN ch[i] ELSE item[q]
    BY <2>2 DEF EventInv
  <2>6. EventOk(NoItem) /\ NoItem.kind = "none"
    BY DEF EventOk, NoItem
  <2>7. \A r \in Queues : item'[r] = (IF r = q THEN NoItem ELSE item[r])
    BY <2>2 DEF EventInv
  <2>8. item' \in [Queues -> Event \cup {NoItem}]
    BY <2>2 DEF EventInv
  <2>9. \A e : EventOk(e)' <=> EventOk(e)
    BY <2>2 DEF EventOk, Tags
  <2>10. \A r \in Queues : EventOk(item'[r])
    BY <2>6, <2>7 DEF EventInv
  <2>11. \A i \in DOMAIN ch' : EventOk(ch'[i])
    BY <2>3, <2>5 DEF EventInv
  <2>12. /\ \A r \in Queues : fwd'[r] = "send" <=> item'[r].kind # "none"
         /\ \A r \in unstarted' : fwd'[r] = "none"
    BY <2>2, <2>6, <2>7 DEF EventInv, PlainTypes
  <2> QED
    BY <2>4, <2>8, <2>9, <2>10, <2>11, <2>12 DEF EventInv
<1>6. CASE Crash
  <2>1. /\ ch' = <<>> /\ item' = [q \in Queues |-> NoItem] /\ fwd' = [q \in Queues |-> "none"]
        /\ unstarted' = Queues
    BY <1>6 DEF Crash, WorkerRestarts
  <2> QED
    BY <2>1, CapacityNat DEF EventInv, EventOk, NoItem
<1> QED
  BY <1>1, <1>2, <1>3, <1>4, <1>5, <1>6, NextSplit DEF MainNext
-----------------------------------------------------------------------------
(***************************************************************************)
(* Job tasks and their handlers.                                           *)
(***************************************************************************)
LEMMA TaskKept ==
  ASSUME copies \in Seq(Copy), NEW t, TaskOk(t), Keeps(copies'), notified \subseteq notified'
  PROVE  TaskOk(t)'
<1>1. t.tag \in Tags' /\ Env(t)' = Env(t)
  BY DEF TaskOk, Keeps, Tags, Env
<1> QED
  BY <1>1 DEF TaskOk, IsLastAttempt

\* A verdict that is right about its attempt is right about its task.
LEMMA VerdictOk ==
  ASSUME NEW t \in Task, t.tag \in Tags, t.stage \in {"dispatch", "run", "abort"},
         NEW op \in Ops \ {"none"},
         op = "retry" => ~t.last /\ Env(t).attempt < MaxAttempts,
         op = "defer" => Env(t).deferrals < MaxDeferrals
  PROVE  Verdict(t, op) \in Task /\ TaskOk(Verdict(t, op)) /\ Verdict(t, op).tag = t.tag
<1> DEFINE v == Verdict(t, op)
           st == IF op = "dead_letter" /\ HasHook THEN "hook" ELSE "settle"
<1>1. v = [t EXCEPT !.op = op, !.max = 0, !.stage = st]
  BY DEF Verdict
<1>2. st \in Stages
  BY DEF Stages
<1>3. v \in Task
  BY <1>1, <1>2 DEF Task
<1>4. v.op = op /\ v.stage = st /\ v.tag = t.tag /\ v.last = t.last
  BY <1>1 DEF Task
<1>5. Env(v) = Env(t)
  BY <1>4 DEF Env
<1> HIDE DEF v
<1>6. TaskOk(v)
  BY <1>4, <1>5 DEF TaskOk
<1> QED
  BY <1>3, <1>4, <1>6 DEF v

\* One task goes on; handlers come and go with their tasks.
LEMMA TaskBecomes ==
  ASSUME TaskInv, copies \in Seq(Copy), Keeps(copies'), notified \subseteq notified',
         NEW t \in tasks, NEW u \in Task, TaskOk(u)', u.tag = t.tag, Becomes(t, u),
         \/ handlers' = handlers \ {t.tag}
         \/ handlers' = handlers /\ (t.stage \in {"run", "abort"} => u.stage \in {"run", "abort"})
         \/ handlers' = handlers \cup {t.tag} /\ u.stage \in {"run", "abort"}
  PROVE  TaskInv'
<1>1. tasks' \subseteq Task /\ u \in tasks' /\ \A w \in tasks : w \in tasks' \/ w = t
  BY DEF TaskInv, Becomes
<1>2. \A w \in tasks' : TaskOk(w)'
  BY TaskKept DEF TaskInv, Becomes
<1>3. \A h \in handlers' : \E w \in tasks' : w.tag = h /\ w.stage \in {"run", "abort"}
  BY <1>1 DEF TaskInv
<1> QED
  BY <1>1, <1>2, <1>3 DEF TaskInv

LEMMA TaskAdded ==
  ASSUME TaskInv, copies \in Seq(Copy), UNCHANGED <<copies, notified, handlers>>,
         NEW tag \in Tags, tasks' = tasks \cup {NewTask(tag)}
  PROVE  TaskInv'
<1>1. NewTask(tag) \in Task /\ TaskOk(NewTask(tag))
  BY DEF NewTask, Task, Stages, Ops, TaskOk, Tags
<1> QED
  BY <1>1, TaskKept, KeepsSame DEF TaskInv

LEMMA TaskRemoved ==
  ASSUME TaskInv, copies \in Seq(Copy), Keeps(copies'), notified \subseteq notified',
         UNCHANGED handlers, NEW t \in tasks, t.stage \notin {"run", "abort"},
         tasks' = tasks \ {t}
  PROVE  TaskInv'
BY TaskKept DEF TaskInv

\* What the policy decides about the attempt a handler ran with: it is retried only if
\* the handler was not told that this was the last one.
LEMMA DecideOk ==
  ASSUME NEW t, TaskOk(t), t.stage \in {"run", "abort"}, Env(t) \in Envelope
  PROVE  /\ Decide(Env(t), t.max) \in {"retry", "dead_letter"}
         /\ Decide(Env(t), t.max) = "retry" => ~t.last /\ Env(t).attempt < MaxAttempts
<1>1. t.max \in 0..MaxAttempts /\ (t.last <=> Env(t).attempt >= t.max)
  BY WorkerAssumption DEF TaskOk, IsLastAttempt
<1>2. Env(t).attempt \in Nat /\ MaxAttempts \in Nat
  BY EnvelopeAssumption DEF Envelope
<1> QED
  BY <1>1, <1>2 DEF Decide

LEMMA TaskStep ==
  ASSUME TaskInv, EventInv, HistTypes, Next
  PROVE  TaskInv'
<1>0. Keeps(copies') /\ copies \in Seq(Copy) /\ notified \subseteq notified'
  BY HistStep DEF HistTypes
<1>1. CASE UNCHANGED <<tasks, handlers>>
  BY <1>0, <1>1, TaskKept DEF TaskInv
<1>2. CASE \/ StartConsumer \/ TakePermit \/ StopConsumers \/ DrainPermit \/ Finish \/ Shutdown
           \/ \E q \in Queues : Send(q) \/ Pull(q)
           \/ \E j \in Jobs : Enqueue(j)
           \/ \E t \in Tags : Redeliver(t) \/ TakeBack(t)
  BY <1>1, <1>2 DEF StartConsumer, TakePermit, StopConsumers, DrainPermit, Finish, Shutdown,
     Send, Pull, Enqueue, Redeliver, TakeBack, taskVars
<1>3. CASE Receive \/ DrainReceive
  <2>1. UNCHANGED <<copies, notified, handlers>>
    BY <1>3 DEF Receive, DrainReceive, brokerVars, histVars
  <2>2. CASE ch # <<>> /\ Head(ch).kind = "Delivery" /\ tasks' = tasks \cup {NewTask(Head(ch).tag)}
    <3>1. 1 \in DOMAIN ch /\ Head(ch) = ch[1]
      BY <2>2 DEF EventInv
    <3>2. Head(ch).tag \in Tags
      BY <2>2, <3>1 DEF EventInv, EventOk
    <3> QED
      BY <1>0, <2>1, <2>2, <3>2, TaskAdded
  <2> QED
    BY <1>1, <1>3, <2>1, <2>2 DEF Receive, DrainReceive
<1>4. ASSUME NEW t \in tasks, QuietTask(t)
      PROVE  TaskInv'
  <2>0. UNCHANGED <<copies, notified>> /\ t \in Task /\ TaskOk(t) /\ Env(t) \in Envelope
    BY <1>0, <1>4, QuietSteps, TagsDomain DEF TaskInv, TaskOk, Env
  <2>1. ASSUME NEW u, TaskOk(u)
        PROVE  TaskOk(u)'
    BY <1>0, <2>1, TaskKept
  <2>2. ASSUME NEW op \in Ops \ {"none"}, t.stage \in {"dispatch", "run", "abort"},
               op = "retry" => ~t.last /\ Env(t).attempt < MaxAttempts,
               op = "defer" => Env(t).deferrals < MaxDeferrals,
               Becomes(t, Verdict(t, op)),
               handlers' = handlers \ {t.tag} \/ (t.stage = "dispatch" /\ UNCHANGED handlers)
        PROVE  TaskInv'
    <3>1. /\ Verdict(t, op) \in Task /\ TaskOk(Verdict(t, op))'
          /\ Verdict(t, op).tag = t.tag
      BY <2>0, <2>1, <2>2, VerdictOk DEF TaskOk
    <3> QED
      BY <1>0, <2>2, <3>1, TaskBecomes
  <2>3. CASE Undeliverable(t)
    BY <2>2, <2>3 DEF Undeliverable, Ops
  <2>4. CASE SpawnHandler(t)
    <3>1. PICK max \in Policies :
            Becomes(t, [t EXCEPT !.stage = "run", !.max = max,
                                 !.last = IsLastAttempt(Env(t), max)])
      BY <2>4 DEF SpawnHandler
    <3> DEFINE b == IsLastAttempt(Env(t), max)
               u == [t EXCEPT !.stage = "run", !.max = max, !.last = b]
    <3>2. /\ u \in Task /\ u.tag = t.tag /\ u.stage = "run" /\ u.max = max /\ u.op = t.op
          /\ u.last = b
      <4>1. b \in BOOLEAN
        BY DEF IsLastAttempt
      <4> HIDE DEF b
      <4> QED
        BY <2>0, <4>1 DEF Task, Stages
    <3>3. t.stage = "dispatch" /\ handlers' = handlers \cup {t.tag}
      BY <2>4 DEF SpawnHandler
    <3>4. Becomes(t, u)
      BY <3>1
    <3> HIDE DEF u
    <3>5. Env(u) = Env(t)
      BY <3>2 DEF Env
    <3>6. TaskOk(u)
      BY <2>0, <3>2, <3>3, <3>5 DEF TaskOk
    <3> QED
      BY <1>0, <2>1, <3>2, <3>3, <3>4, <3>6, TaskBecomes
  <2>5. CASE DispatchPanics(t)
    BY <1>0, <2>5, TaskRemoved DEF DispatchPanics
  <2>6. CASE HandlerEnds(t)
    <3>1. PICK op \in {"ack", "dead_letter", "defer", Decide(Env(t), t.max)} :
            /\ op = "defer" => Env(t).deferrals < MaxDeferrals
            /\ Becomes(t, Verdict(t, op))
      BY <2>6 DEF HandlerEnds
    <3>2. t.stage = "run" /\ handlers' = handlers \ {t.tag}
      BY <2>6 DEF HandlerEnds
    <3>3. op \in Ops \ {"none"} /\ (op = "retry" => ~t.last /\ Env(t).attempt < MaxAttempts)
      BY <2>0, <3>2, DecideOk DEF Ops
    <3> QED
      BY <2>2, <3>1, <3>2, <3>3
  <2>7. CASE TimeOut(t)
    <3> DEFINE u == [t EXCEPT !.stage = "abort"]
    <3>1. /\ u \in Task /\ u.tag = t.tag /\ u.stage = "abort" /\ u.max = t.max /\ u.op = t.op
          /\ u.last = t.last
      BY <2>0 DEF Task, Stages
    <3>2. Becomes(t, u) /\ t.stage = "run" /\ UNCHANGED handlers
      BY <2>7 DEF TimeOut
    <3> HIDE DEF u
    <3>3. Env(u) = Env(t)
      BY <3>1 DEF Env
    <3>4. TaskOk(u)
      BY <2>0, <3>1, <3>2, <3>3 DEF TaskOk
    <3> QED
      BY <1>0, <2>1, <3>1, <3>2, <3>4, TaskBecomes
  <2>8. CASE AbortLands(t)
    <3>1. t.stage = "abort" /\ handlers' = handlers \ {t.tag}
          /\ Becomes(t, Verdict(t, Decide(Env(t), t.max)))
      BY <2>8 DEF AbortLands
    <3>2. /\ Decide(Env(t), t.max) \in Ops \ {"none", "defer"}
          /\ Decide(Env(t), t.max) = "retry" => ~t.last /\ Env(t).attempt < MaxAttempts
      BY <2>0, <3>1, DecideOk DEF Ops
    <3> QED
      BY <2>2, <3>1, <3>2
  <2> QED
    BY <1>4, <2>3, <2>4, <2>5, <2>6, <2>7, <2>8 DEF QuietTask
<1>5. ASSUME NEW t \in tasks, NotifyDead(t)
      PROVE  TaskInv'
  <2> DEFINE u == [t EXCEPT !.stage = "settle"]
  <2>0. t \in Task /\ TaskOk(t) /\ UNCHANGED <<copies, handlers>>
    BY <1>5 DEF TaskInv, NotifyDead, brokerVars
  <2>1. /\ u \in Task /\ u.tag = t.tag /\ u.stage = "settle" /\ u.op = t.op /\ u.last = t.last
    BY <2>0 DEF Task, Stages
  <2>2. Becomes(t, u) /\ t.stage = "hook" /\ Env(t) \in notified'
    BY <1>5 DEF NotifyDead
  <2> HIDE DEF u
  <2>3. Env(u)' = Env(t) /\ Tags' = Tags
    BY <2>0, <2>1 DEF Env, Tags
  <2>4. TaskOk(u)'
    BY <2>0, <2>1, <2>2, <2>3 DEF TaskOk
  <2> QED
    BY <1>0, <2>0, <2>1, <2>2, <2>4, TaskBecomes
<1>6. CASE \E t \in tasks : Settle(t)
  BY <1>0, <1>6, TaskRemoved DEF Settle
<1>7. CASE Crash
  BY <1>7 DEF Crash, WorkerRestarts, TaskInv
<1> QED
  BY <1>2, <1>3, <1>4, <1>5, <1>6, <1>7, NextSplit DEF MainNext
-----------------------------------------------------------------------------
(***************************************************************************)
(* Every copy has one holder at most.                                      *)
(***************************************************************************)
LEMMA HeldAreTags ==
  ASSUME EventInv, TaskInv
  PROVE  HeldTags \subseteq Tags \cup {0}
BY DEF EventInv, EventOk, TaskInv, TaskOk, HeldTags

\* Tasks keep their tags or go, and nothing is received.
LEMMA UniqueFrame ==
  ASSUME UniqueInv, UNCHANGED <<ch, item>>,
         \A u \in tasks' : \E t \in tasks : t.tag = u.tag,
         \A t, u \in tasks' : t.tag = u.tag => t = u,
         \A h \in HeldTags \ {0} : h \in HeldTags' => copies'[h].st \in {"unacked", "returned"}
  PROVE  UniqueInv'
<1>1. HeldTags' \subseteq HeldTags
  BY DEF HeldTags
<1>2. \A h \in (HeldTags \ {0})' : copies'[h].st \in {"unacked", "returned"}
  BY <1>1
<1>3. \A q \in Queues, t \in tasks' : item[q].tag # t.tag
  BY DEF UniqueInv
<1>4. \A i \in DOMAIN ch, t \in tasks' : ch[i].tag # t.tag
  BY DEF UniqueInv
<1> QED
  BY <1>2, <1>3, <1>4 DEF UniqueInv

LEMMA TaskGoesOn ==
  ASSUME NEW t \in Task, QuietTask(t) \/ NotifyDead(t)
  PROVE  \/ DispatchPanics(t) /\ tasks' = tasks \ {t} /\ permits' = permits + 1
         \/ (\E u : Becomes(t, u) /\ u.tag = t.tag) /\ UNCHANGED permits
<1>1. ASSUME NEW op PROVE Verdict(t, op).tag = t.tag
  BY DEF Verdict, Task
<1>2. CASE Undeliverable(t)
  BY <1>1, <1>2 DEF Undeliverable, runVars
<1>3. CASE SpawnHandler(t)
  <2>1. PICK max \in Policies :
          Becomes(t, [t EXCEPT !.stage = "run", !.max = max,
                               !.last = IsLastAttempt(Env(t), max)])
    BY <1>3 DEF SpawnHandler
  <2>2. [t EXCEPT !.stage = "run", !.max = max, !.last = IsLastAttempt(Env(t), max)].tag = t.tag
    BY DEF Task
  <2> QED
    BY <1>3, <2>1, <2>2 DEF SpawnHandler, runVars
<1>4. CASE DispatchPanics(t)
  BY <1>4 DEF DispatchPanics
<1>5. CASE HandlerEnds(t)
  BY <1>1, <1>5 DEF HandlerEnds, runVars
<1>6. CASE TimeOut(t)
  <2>1. [t EXCEPT !.stage = "abort"].tag = t.tag
    BY DEF Task
  <2> QED
    BY <1>6, <2>1 DEF TimeOut, runVars
<1>7. CASE AbortLands(t)
  BY <1>1, <1>7 DEF AbortLands, runVars
<1>8. CASE NotifyDead(t)
  <2>1. [t EXCEPT !.stage = "settle"].tag = t.tag
    BY DEF Task
  <2> QED
    BY <1>8, <2>1 DEF NotifyDead, runVars
<1> QED
  BY <1>2, <1>3, <1>4, <1>5, <1>6, <1>7, <1>8 DEF QuietTask

LEMMA UniqueStep ==
  ASSUME UniqueInv, EventInv, TaskInv, HistTypes, PlainTypes, Next
  PROVE  UniqueInv'
<1>0. copies \in Seq(Copy) /\ HeldTags \subseteq Tags \cup {0} /\ 0 \notin Tags
  BY HeldAreTags DEF HistTypes, Tags
<1>1. ASSUME UNCHANGED <<ch, item, tasks>>,
             \A h \in Tags : h \in HeldTags => copies'[h].st \in {copies[h].st, "returned"}
      PROVE  UniqueInv'
  <2>1. \A h \in HeldTags \ {0} : copies'[h].st \in {"unacked", "returned"}
    BY <1>0, <1>1 DEF UniqueInv
  <2>2. \A t, u \in tasks' : t.tag = u.tag => t = u
    BY <1>1 DEF UniqueInv
  <2> QED
    BY <1>1, <2>1, <2>2, UniqueFrame
<1>2. CASE StartConsumer \/ TakePermit \/ StopConsumers \/ DrainPermit \/ Finish \/ Shutdown
  <2>1. UNCHANGED <<ch, item, tasks, copies>>
    BY <1>2 DEF StartConsumer, TakePermit, StopConsumers, DrainPermit, Finish, Shutdown,
       brokerVars, fwdVars, taskVars
  <2> QED
    BY <1>1, <2>1
<1>3. CASE Receive \/ DrainReceive
  <2>1. UNCHANGED <<item, copies>>
    BY <1>3 DEF Receive, DrainReceive, brokerVars, fwdVars
  <2>2. CASE UNCHANGED <<ch, tasks>>
    BY <1>1, <2>1, <2>2
  <2>3. CASE ch # <<>> /\ ch' = Tail(ch)
    <3>1. /\ \A i \in DOMAIN ch' : i + 1 \in DOMAIN ch /\ ch'[i] = ch[i + 1]
          /\ \A i, j \in DOMAIN ch' : i + 1 = j + 1 => i = j
          /\ \A i \in DOMAIN ch' : i + 1 # 1
          /\ 1 \in DOMAIN ch /\ Head(ch) = ch[1]
      BY <2>3 DEF EventInv
    <3>2. CASE UNCHANGED tasks
      <4>1. HeldTags' \subseteq HeldTags
        BY <2>1, <3>1, <3>2 DEF HeldTags
      <4> QED
        BY <2>1, <3>1, <3>2, <4>1 DEF UniqueInv
    <3>3. CASE Head(ch).kind = "Delivery" /\ tasks' = tasks \cup {NewTask(Head(ch).tag)}
      <4>1. NewTask(Head(ch).tag).tag = ch[1].tag /\ ch[1].tag # 0
        BY <1>0, <3>1, <3>3 DEF NewTask, EventInv, EventOk
      <4>2. HeldTags' \subseteq HeldTags
        BY <2>1, <3>1, <3>3, <4>1 DEF HeldTags
      <4>3. \A h \in (HeldTags \ {0})' : copies'[h].st \in {"unacked", "returned"}
        BY <2>1, <4>2 DEF UniqueInv
      <4>4. \A t, u \in tasks' : t.tag = u.tag => t = u
        BY <3>1, <3>3, <4>1 DEF UniqueInv
      <4>5. /\ \A q \in Queues, t \in tasks' : item'[q].tag # t.tag
            /\ \A i \in DOMAIN ch', t \in tasks' : ch'[i].tag # t.tag
        BY <2>1, <3>1, <3>3, <4>1 DEF UniqueInv
      <4>6. /\ \A i, j \in DOMAIN ch' : ch'[i].tag = ch'[j].tag => i = j \/ ch'[i].tag = 0
            /\ \A q \in Queues, i \in DOMAIN ch' : item'[q].tag = ch'[i].tag => ch'[i].tag = 0
            /\ \A q, r \in Queues : item'[q].tag = item'[r].tag => q = r \/ item'[q].tag = 0
        BY <2>1, <3>1 DEF UniqueInv
      <4> QED
        BY <4>3, <4>4, <4>5, <4>6 DEF UniqueInv
    <3> QED
      BY <1>3, <2>3, <3>2, <3>3 DEF Receive, DrainReceive
  <2> QED
    BY <1>3, <2>2, <2>3 DEF Receive, DrainReceive
<1>4. CASE \E q \in Queues : Send(q)
  <2>1. PICK q \in Queues : Send(q)
    BY <1>4
  <2>2. UNCHANGED <<copies, tasks>> /\ ch' = Append(ch, item[q])
        /\ item' = [item EXCEPT ![q] = NoItem]
    BY <2>1 DEF Send, brokerVars, taskVars
  <2>3. /\ \A r \in Queues : item'[r].tag = IF r = q THEN 0 ELSE item[r].tag
        /\ \A i \in DOMAIN ch' : ch'[i].tag = IF i \in DOMAIN ch THEN ch[i].tag ELSE item[q].tag
        /\ \A i, j \in DOMAIN ch' : i \notin DOMAIN ch /\ j \notin DOMAIN ch => i = j
    BY <2>2 DEF EventInv, NoItem
  <2>4. HeldTags' \subseteq HeldTags \cup {0}
    BY <2>2, <2>3 DEF HeldTags
  <2>5. \A h \in (HeldTags \ {0})' : copies'[h].st \in {"unacked", "returned"}
    BY <2>2, <2>4 DEF UniqueInv
  <2>6. /\ \A i, j \in DOMAIN ch' : ch'[i].tag = ch'[j].tag => i = j \/ ch'[i].tag = 0
        /\ \A r \in Queues, i \in DOMAIN ch' : item'[r].tag = ch'[i].tag => ch'[i].tag = 0
        /\ \A r, w \in Queues : item'[r].tag = item'[w].tag => r = w \/ item'[r].tag = 0
    BY <2>3 DEF UniqueInv
  <2>7. \A t \in tasks : t.tag # 0
    BY <1>0 DEF TaskInv, TaskOk
  <2>8. /\ \A r \in Queues, t \in tasks' : item'[r].tag # t.tag
        /\ \A i \in DOMAIN ch', t \in tasks' : ch'[i].tag # t.tag
        /\ \A t, u \in tasks' : t.tag = u.tag => t = u
    BY <2>2, <2>3, <2>7 DEF UniqueInv
  <2> QED
    BY <2>5, <2>6, <2>8 DEF UniqueInv
<1>5. CASE \E q \in Queues : Pull(q)
  <2>1. PICK q \in Queues : Pull(q)
    BY <1>5
  <2>2. UNCHANGED <<ch, tasks>>
    BY <2>1, PullSteps DEF runVars, taskVars
  <2>3. CASE UNCHANGED <<copies, item>>
    BY <1>1, <2>2, <2>3
  <2>4. ASSUME NEW e, item' = [item EXCEPT ![q] = e], e.tag = 0 \/ e.tag \notin HeldTags,
               e.tag # 0 => copies'[e.tag].st = "unacked",
               \A u \in Tags : u # e.tag => copies'[u].st = copies[u].st
        PROVE  UniqueInv'
    <3>1. \A r \in Queues : item'[r].tag = IF r = q THEN e.tag ELSE item[r].tag
      BY <2>4 DEF EventInv
    <3>2. HeldTags' \subseteq HeldTags \cup {e.tag}
      BY <2>2, <3>1 DEF HeldTags
    <3>3. \A h \in (HeldTags \ {0})' : copies'[h].st \in {"unacked", "returned"}
      BY <1>0, <2>4, <3>2 DEF UniqueInv
    <3>4. /\ \A r, w \in Queues : item'[r].tag = item'[w].tag => r = w \/ item'[r].tag = 0
          /\ \A r \in Queues, i \in DOMAIN ch : item'[r].tag = ch[i].tag => ch[i].tag = 0
      BY <2>4, <3>1 DEF UniqueInv, HeldTags
    <3>5. \A t \in tasks : t.tag # 0
      BY <1>0 DEF TaskInv, TaskOk
    <3>6. \A r \in Queues, t \in tasks : item'[r].tag # t.tag
      BY <2>4, <3>1, <3>5 DEF UniqueInv, HeldTags
    <3> QED
      BY <2>2, <3>3, <3>4, <3>6 DEF UniqueInv
  <2>5. CASE \E t \in Tags : PullsCopy(q, t)
    <3>1. PICK t \in Tags : PullsCopy(q, t)
      BY <2>5
    <3>2. t \notin HeldTags /\ t # 0
      BY <1>0, <3>1 DEF PullsCopy, UniqueInv
    <3> DEFINE e == [kind |-> "Delivery", tag |-> t]
    <3>3. e.tag = t /\ item' = [item EXCEPT ![q] = e]
      BY <3>1 DEF PullsCopy
    <3> HIDE DEF e
    <3> QED
      BY <1>0, <2>4, <3>1, <3>2, <3>3, PullCopies, ZenonT(60)
  <2>6. CASE \E kind \in {"Failed", "Ended"} : PullsFault(q, kind)
    <3>1. PICK kind \in {"Failed", "Ended"} : PullsFault(q, kind)
      BY <2>6
    <3> DEFINE e == [kind |-> kind, tag |-> 0]
    <3>2. e.tag = 0 /\ item' = [item EXCEPT ![q] = e] /\ UNCHANGED copies
      BY <3>1 DEF PullsFault
    <3> HIDE DEF e
    <3> QED
      BY <2>4, <3>2
  <2> QED
    BY <2>1, <2>3, <2>5, <2>6, PullSteps
<1>6. ASSUME NEW t \in tasks, QuietTask(t) \/ NotifyDead(t)
      PROVE  UniqueInv'
  <2>1. UNCHANGED <<ch, item, copies>>
    BY <1>6, QuietSteps DEF QuietTask, Undeliverable, SpawnHandler, DispatchPanics,
       HandlerEnds, TimeOut, AbortLands, NotifyDead, brokerVars, runVars, fwdVars
  <2>2. tasks' = tasks \ {t} \/ \E u : Becomes(t, u) /\ u.tag = t.tag
    BY <1>6, TaskGoesOn DEF TaskInv
  <2>3. /\ \A u \in tasks' : \E w \in tasks : w.tag = u.tag
        /\ \A w, u \in tasks' : w.tag = u.tag => w = u
    BY <2>2 DEF Becomes, UniqueInv
  <2>4. \A h \in HeldTags \ {0} : copies'[h].st \in {"unacked", "returned"}
    BY <2>1 DEF UniqueInv
  <2> QED
    BY <2>1, <2>3, <2>4, UniqueFrame
<1>7. CASE \E t \in tasks : Settle(t)
  <2>1. PICK t \in tasks : Settle(t)
    BY <1>7
  <2>2. UNCHANGED <<ch, item>> /\ tasks' = tasks \ {t} /\ t.stage = "settle"
    BY <2>1 DEF Settle, fwdVars
  <2>3. \A u \in Tags : u # t.tag => copies'[u].st = copies[u].st
    BY <1>0, <2>1, <2>2, SettleOkCopies, SettleFailsCopies DEF Settle
  <2>4. t.tag \notin HeldTags' /\ HeldTags' \subseteq HeldTags
    BY <1>0, <2>2 DEF HeldTags, UniqueInv
  <2>5. \A h \in HeldTags \ {0} : h \in HeldTags' => copies'[h].st \in {"unacked", "returned"}
    BY <1>0, <2>3, <2>4 DEF UniqueInv
  <2>6. /\ \A u \in tasks' : \E w \in tasks : w.tag = u.tag
        /\ \A w, u \in tasks' : w.tag = u.tag => w = u
    BY <2>2 DEF UniqueInv
  <2> QED
    BY <2>2, <2>5, <2>6, UniqueFrame
<1>8. CASE \E j \in Jobs : Enqueue(j)
  <2>1. UNCHANGED <<ch, item, tasks>>
    BY <1>8 DEF Enqueue, runVars, fwdVars, taskVars
  <2>2. \A h \in Tags : copies'[h] = copies[h]
    BY <1>0, <1>8, EnqueueCopies
  <2> QED
    BY <1>1, <2>1, <2>2
<1>9. CASE \E t \in Tags : Redeliver(t)
  <2>1. UNCHANGED <<ch, item, tasks>>
    BY <1>9 DEF Redeliver, runVars, fwdVars, taskVars
  <2>2. \A h \in Tags : h \in HeldTags => copies'[h].st = copies[h].st
    BY <1>0, <1>9, RedeliverCopies DEF Redeliver
  <2> QED
    BY <1>1, <2>1, <2>2
<1>10. CASE \E t \in Tags : TakeBack(t)
  <2>1. UNCHANGED <<ch, item, tasks>>
    BY <1>10 DEF TakeBack, runVars, fwdVars, taskVars
  <2>2. \A h \in Tags : copies'[h].st \in {copies[h].st, "returned"}
    BY <1>0, <1>10, TakeBackCopies
  <2> QED
    BY <1>1, <2>1, <2>2
<1>11. CASE Crash
  <2>1. ch' = <<>> /\ item' = [q \in Queues |-> NoItem] /\ tasks' = {}
    BY <1>11 DEF Crash, WorkerRestarts
  <2>2. HeldTags' \subseteq {0} /\ DOMAIN ch' = {}
    BY <2>1 DEF HeldTags, NoItem
  <2> QED
    BY <2>1, <2>2 DEF UniqueInv, NoItem
<1> QED
  BY <1>2, <1>3, <1>4, <1>5, <1>6, <1>7, <1>8, <1>9, <1>10, <1>11, NextSplit DEF MainNext
-----------------------------------------------------------------------------
(***************************************************************************)
(* Slots.                                                                  *)
(***************************************************************************)
LEMMA SlotStep ==
  ASSUME SlotInv, UniqueInv, EventInv, TaskInv, Next
  PROVE  SlotInv'
<1>0. Cardinality(tasks) \in Nat /\ Concurrency \in Nat
  BY WorkerAssumption, FS_CardinalityType DEF SlotInv
<1>1. ASSUME UNCHANGED tasks,
             \/ UNCHANGED permits /\ InHand' = InHand
             \/ permits' = permits + 1 /\ InHand = 1 /\ InHand' = 0
             \/ permits' = permits - 1 /\ permits > 0 /\ InHand = 0 /\ InHand' = 1
      PROVE  SlotInv'
  <2>1. IsFiniteSet(tasks') /\ Cardinality(tasks') = Cardinality(tasks)
    BY <1>1 DEF SlotInv
  <2>2. permits \in Nat /\ permits + Cardinality(tasks) + InHand = Concurrency
    BY DEF SlotInv
  <2>3. permits' \in Nat /\ permits' + Cardinality(tasks) + InHand' = Concurrency
    <3>1. CASE UNCHANGED permits /\ InHand' = InHand
      BY <2>2, <3>1
    <3>2. CASE permits' = permits + 1 /\ InHand = 1 /\ InHand' = 0
      BY <1>0, <2>2, <3>2
    <3>3. CASE permits' = permits - 1 /\ permits > 0 /\ InHand = 0 /\ InHand' = 1
      BY <1>0, <2>2, <3>3
    <3> QED
      BY <1>1, <3>1, <3>2, <3>3
  <2> QED
    BY <2>1, <2>3 DEF SlotInv
<1>2. ASSUME NEW t \in tasks, tasks' = tasks \ {t}, permits' = permits + 1, InHand' = InHand
      PROVE  SlotInv'
  <2>1. IsFiniteSet(tasks') /\ Cardinality(tasks') = Cardinality(tasks) - 1
    BY <1>2, FS_RemoveElement DEF SlotInv
  <2> QED
    BY <1>0, <1>2, <2>1 DEF SlotInv, InHand
<1>3. ASSUME NEW t \in tasks, NEW u, Becomes(t, u), u.tag = t.tag, UNCHANGED permits,
             InHand' = InHand
      PROVE  SlotInv'
  <2>1. u \notin tasks \ {t}
    BY <1>3 DEF UniqueInv
  <2>2. IsFiniteSet(tasks \ {t}) /\ Cardinality(tasks \ {t}) = Cardinality(tasks) - 1
    BY FS_RemoveElement DEF SlotInv
  <2>3. IsFiniteSet(tasks') /\ Cardinality(tasks') = Cardinality(tasks \ {t}) + 1
    BY <1>3, <2>1, <2>2, FS_AddElement DEF Becomes
  <2> QED
    BY <1>0, <1>3, <2>2, <2>3 DEF SlotInv, InHand
<1>4. CASE StartConsumer \/ StopConsumers \/ Finish
  BY <1>1, <1>4 DEF StartConsumer, StopConsumers, Finish, InHand, taskVars, SlotInv
<1>5. CASE TakePermit \/ DrainPermit
  BY <1>1, <1>5 DEF TakePermit, DrainPermit, InHand, taskVars, SlotInv
<1>6. CASE Receive \/ DrainReceive
  <2>1. pc \in {"recv", "drainRecv"} /\ pc' \in {"stopping", "permit", "join", "drain"}
    BY <1>6 DEF Receive, DrainReceive
  <2>2. CASE UNCHANGED tasks /\ permits' = permits + 1
    BY <1>1, <2>1, <2>2 DEF InHand, SlotInv
  <2>3. CASE /\ ch # <<>> /\ Head(ch).kind = "Delivery" /\ UNCHANGED permits
             /\ tasks' = tasks \cup {NewTask(Head(ch).tag)}
    <3>1. 1 \in DOMAIN ch /\ Head(ch) = ch[1]
      BY <2>3 DEF EventInv
    <3>2. NewTask(Head(ch).tag).tag = ch[1].tag
      BY <3>1 DEF NewTask
    <3>3. NewTask(Head(ch).tag) \notin tasks
      BY <3>1, <3>2 DEF UniqueInv
    <3>4. IsFiniteSet(tasks') /\ Cardinality(tasks') = Cardinality(tasks) + 1
      BY <2>3, <3>3, FS_AddElement DEF SlotInv
    <3> QED
      BY <1>0, <2>1, <2>3, <3>4 DEF SlotInv, InHand
  <2> QED
    BY <1>6, <2>2, <2>3 DEF Receive, DrainReceive
<1>7. CASE \/ Shutdown
           \/ \E q \in Queues : Send(q) \/ Pull(q)
           \/ \E j \in Jobs : Enqueue(j)
           \/ \E t \in Tags : Redeliver(t) \/ TakeBack(t)
  <2>1. UNCHANGED <<tasks, permits, pc>>
    BY <1>7 DEF Shutdown, Send, Pull, Enqueue, Redeliver, TakeBack, taskVars, runVars
  <2> QED
    BY <1>1, <2>1 DEF InHand, SlotInv
<1>8. ASSUME NEW t \in tasks, QuietTask(t) \/ NotifyDead(t)
      PROVE  SlotInv'
  <2>1. UNCHANGED pc
    BY <1>8 DEF QuietTask, Undeliverable, SpawnHandler, DispatchPanics, HandlerEnds, TimeOut,
       AbortLands, NotifyDead, runVars
  <2> QED
    BY <1>2, <1>3, <1>8, <2>1, TaskGoesOn DEF TaskInv, InHand
<1>9. CASE \E t \in tasks : Settle(t)
  BY <1>2, <1>9 DEF Settle, InHand
<1>10. CASE Crash
  BY <1>0, <1>10, FS_EmptySet DEF Crash, WorkerRestarts, SlotInv, InHand
<1> QED
  BY <1>4, <1>5, <1>6, <1>7, <1>8, <1>9, <1>10, NextSplit DEF MainNext

-----------------------------------------------------------------------------
(***************************************************************************)
(* What becomes of a job's copies.                                         *)
(***************************************************************************)

\* Steps after which every copy is live, or over, as it was before.
LEMMA CopiesFrame ==
  ASSUME HistTypes, LiveInv, CoveredInv, HookBeforeDeadLetter, Keeps(copies'),
         Len(copies') = Len(copies), UNCHANGED duplicated, notified \subseteq notified',
         \A u \in Tags : \/ copies'[u].st = copies[u].st
                         \/ copies'[u].st \in Live /\ copies[u].st \in Live
  PROVE  LiveInv' /\ CoveredInv' /\ HookBeforeDeadLetter'
<1>1. Tags' = Tags /\ \A u \in Tags : copies'[u].env = copies[u].env
  BY DEF Tags, Keeps
<1>2. LiveInv'
  BY <1>1 DEF LiveInv, Live
<1>3. CoveredInv'
  BY <1>1 DEF CoveredInv, Live
<1>4. HookBeforeDeadLetter'
  BY <1>1 DEF HookBeforeDeadLetter, Live
<1> QED
  BY <1>2, <1>3, <1>4
\* A copy is added for a job whose live copies, if they are not over now, are known to
\* be duplicated; the copies retired by the step belong to that job.
LEMMA CopiesAdded ==
  ASSUME HistTypes, LiveInv, CoveredInv, HookBeforeDeadLetter, Keeps(copies'),
         Len(copies') = New, duplicated \subseteq duplicated', notified \subseteq notified',
         NEW j, copies'[New].env.job = j, copies'[New].st \in Live \cup {"dead"},
         \A u \in Tags : \/ copies'[u].st = copies[u].st
                         \/ /\ copies[u].env.job = j
                            /\ copies'[u].st = "superseded" \/ (copies'[u].st = "returned" /\ j \in duplicated'),
         j \in duplicated' \/ \A u \in Tags : copies[u].env.job = j => copies'[u].st \notin Live,
         HasHook /\ copies'[New].st = "dead" => copies'[New].env \in notified
  PROVE  LiveInv' /\ CoveredInv' /\ HookBeforeDeadLetter'
<1>1. /\ Tags' = Tags \cup {New} /\ New \notin Tags
      /\ \A u \in Tags : copies'[u].env = copies[u].env
  BY DEF Tags, Keeps, New, HistTypes
<1>2. \A u \in Tags : copies'[u].st \in Live => copies[u].st \in Live
  BY DEF Live
<1>3. LiveInv'
  <2>1. ASSUME NEW r \in Tags', NEW t \in Tags', copies'[r].env.job = copies'[t].env.job,
               copies'[r].st \in Live, copies'[t].st \in Live, r # t
        PROVE  copies'[r].env.job \in duplicated'
    <3>1. CASE r \in Tags /\ t \in Tags
      BY <1>1, <1>2, <2>1, <3>1 DEF LiveInv
    <3>2. CASE r = New \/ t = New
      BY <1>1, <2>1, <3>2
    <3> QED
      BY <1>1, <3>1, <3>2
  <2>2. ASSUME NEW t \in Tags', copies'[t].st = "returned"
        PROVE  copies'[t].env.job \in duplicated'
    BY <1>1, <2>2 DEF LiveInv, Live
  <2> QED
    BY <2>1, <2>2 DEF LiveInv
<1>4. CoveredInv'
  <2>1. ASSUME NEW t \in Tags
        PROVE  \E u \in Tags' : /\ copies'[u].env.job = copies'[t].env.job
                                /\ copies'[u].st \in Live \cup {"succeeded", "dead"}
    <3>1. PICK u \in Tags : /\ copies[u].env.job = copies[t].env.job
                            /\ copies[u].st \in Live \cup {"succeeded", "dead"}
      BY DEF CoveredInv
    <3> QED
      BY <1>1, <3>1
  <2> QED
    BY <1>1, <2>1 DEF CoveredInv
<1>5. HookBeforeDeadLetter'
  BY <1>1 DEF HookBeforeDeadLetter, Live
<1> QED
  BY <1>3, <1>4, <1>5

LEMMA CopiesStep ==
  ASSUME HistTypes, UniqueInv, TaskInv, LiveInv, CoveredInv, HookBeforeDeadLetter, Next
  PROVE  LiveInv' /\ CoveredInv' /\ HookBeforeDeadLetter'
<1>0. copies \in Seq(Copy) /\ Keeps(copies') /\ notified \subseteq notified'
  BY HistStep DEF HistTypes
<1>1. CASE \/ MainNext \/ Shutdown
           \/ \E q \in Queues : Send(q)
           \/ \E t \in tasks : QuietTask(t)
  BY <1>0, <1>1, QuietSteps, CopiesFrame
<1>2. CASE \E q \in Queues : Pull(q)
  <2>1. PICK q \in Queues : Pull(q)
    BY <1>2
  <2>2. UNCHANGED duplicated
    BY <2>1, PullSteps
  <2>3. CASE UNCHANGED copies
    BY <1>0, <2>2, <2>3, CopiesFrame
  <2>4. CASE \E t \in Tags : PullsCopy(q, t)
    BY <1>0, <2>2, <2>4, PullCopies, CopiesFrame DEF PullsCopy, Live
  <2> QED
    BY <2>1, <2>3, <2>4, PullSteps DEF PullsFault
<1>3. CASE \E t \in tasks : NotifyDead(t)
  <2>1. UNCHANGED <<copies, duplicated>>
    BY <1>3 DEF NotifyDead, brokerVars
  <2> QED
    BY <1>0, <2>1, CopiesFrame
<1>4. ASSUME NEW t \in tasks, Settle(t)
      PROVE  LiveInv' /\ CoveredInv' /\ HookBeforeDeadLetter'
  <2>0. /\ t.stage = "settle" /\ t.tag \in Tags /\ TaskOk(t)
        /\ Env(t) = copies[t.tag].env
    BY <1>4 DEF Settle, TaskInv, TaskOk, Env
  <2>1. CASE SettleOk(t) /\ t.op = "ack"
    <3>1. /\ Len(copies') = Len(copies) /\ UNCHANGED duplicated
          /\ copies[t.tag].st = "unacked"
          /\ \A u \in Tags : copies'[u].st = IF u = t.tag THEN "succeeded" ELSE copies[u].st
      BY <1>0, <2>0, <2>1, SettleOkCopies DEF SettleOk
    <3>2. Tags' = Tags /\ \A u \in Tags : copies'[u].env = copies[u].env
      BY <1>0, <3>1 DEF Tags, Keeps
    <3>3. LiveInv'
      BY <3>1, <3>2 DEF LiveInv, Live
    <3>4. CoveredInv'
      BY <3>1, <3>2 DEF CoveredInv, Live
    <3>5. HookBeforeDeadLetter'
      BY <1>0, <3>1, <3>2 DEF HookBeforeDeadLetter
    <3> QED
      BY <3>3, <3>4, <3>5
  <2>2. ASSUME t.op # "ack", Len(copies') = New, copies'[New] = Successor(t)
        PROVE  /\ copies'[New].env.job = Env(t).job
               /\ copies'[New].st \in Live \cup {"dead"}
               /\ HasHook /\ copies'[New].st = "dead" => copies'[New].env \in notified
    BY <1>0, <2>0, <2>2, SuccessorTyped DEF TaskOk, Live
  <2>3. CASE SettleOk(t) /\ t.op # "ack"
    <3>1. /\ Len(copies') = New /\ copies'[New] = Successor(t) /\ UNCHANGED duplicated
          /\ copies[t.tag].st = "unacked"
          /\ \A u \in Tags : copies'[u].st = IF u = t.tag THEN "superseded" ELSE copies[u].st
      BY <1>0, <2>0, <2>3, SettleOkCopies DEF SettleOk
    <3>2. \/ Env(t).job \in duplicated
          \/ \A u \in Tags : copies[u].env.job = Env(t).job => copies'[u].st \notin Live
      BY <2>0, <3>1 DEF LiveInv, Live
    <3> QED
      BY <1>0, <2>0, <2>2, <2>3, <3>1, <3>2, CopiesAdded
  <2>4. CASE SettleFails(t)
    <3>1. CASE UNCHANGED <<copies, duplicated>>
      BY <1>0, <3>1, CopiesFrame
    <3>2. CASE /\ t.op # "ack" /\ Len(copies') = New /\ copies'[New] = Successor(t)
               /\ duplicated' = duplicated \cup {Env(t).job}
               /\ \A u \in Tags : copies'[u] = copies[u]
      BY <1>0, <2>2, <3>2, CopiesAdded
    <3> QED
      BY <1>0, <2>0, <2>4, <3>1, <3>2, SettleFailsCopies
  <2> QED
    BY <1>4, <2>1, <2>3, <2>4 DEF Settle
<1>5. CASE \E j \in Jobs : Enqueue(j)
  <2>1. PICK j \in Jobs : Enqueue(j)
    BY <1>5
  <2>2. UNCHANGED duplicated /\ \A u \in Tags : copies[u].env.job # j
    BY <2>1 DEF Enqueue, histVars
  <2> QED
    BY <1>0, <2>1, <2>2, EnqueueCopies, CopiesAdded DEF Live
<1>6. CASE \E t \in Tags : Redeliver(t)
  <2>1. UNCHANGED duplicated
    BY <1>6 DEF Redeliver, histVars
  <2> QED
    BY <1>0, <1>6, <2>1, RedeliverCopies, CopiesFrame DEF Redeliver, Live
<1>7. CASE \E t \in Tags : TakeBack(t)
  <2>1. PICK t \in Tags : TakeBack(t)
    BY <1>7
  <2>2. duplicated' = duplicated \cup {copies[t].env.job}
    BY <2>1 DEF TakeBack
  <2> QED
    BY <1>0, <2>1, <2>2, TakeBackCopies, CopiesAdded DEF Live
<1>8. CASE Crash
  <2>1. UNCHANGED duplicated
    BY <1>8 DEF Crash
  <2> QED
    BY <1>0, <1>8, <2>1, CrashCopies, CopiesFrame DEF Live
<1> QED
  BY <1>1, <1>2, <1>3, <1>4, <1>5, <1>6, <1>7, <1>8, NextSplit

-----------------------------------------------------------------------------
\* The drain loop ends with every consumer task gone, and nothing is pulled any more.
LEMMA EndStep ==
  ASSUME EndInv, EventInv, PlainTypes, Next
  PROVE  EndInv'
<1>1. CASE pc' \notin {"join", "done"}
  BY <1>1 DEF EndInv
<1>2. CASE pc' \in {"join", "done"}
  <2>1. CASE DrainReceive \/ Finish
    BY <1>2, <2>1 DEF DrainReceive, Finish, EndInv, SendersGone, fwdVars, taskVars
  <2>2. CASE UNCHANGED <<pc, fwd, ch>> /\ tasks' = {}
    BY <2>2 DEF EndInv, SendersGone
  <2>3. CASE UNCHANGED <<pc, fwd, ch, tasks>>
    BY <2>3 DEF EndInv, SendersGone
  <2>4. CASE \/ StartConsumer \/ TakePermit \/ Receive \/ StopConsumers \/ DrainPermit \/ Crash
    BY <1>2, <2>4 DEF StartConsumer, TakePermit, Receive, StopConsumers, DrainPermit, Crash,
       WorkerRestarts
  <2>5. CASE \E q \in Queues : Send(q) \/ Pull(q)
    BY <1>2, <2>5 DEF Send, Pull, EndInv, SendersGone, runVars
  <2>6. CASE \E t \in tasks : QuietTask(t) \/ NotifyDead(t) \/ Settle(t)
    <3>1. UNCHANGED <<pc, fwd, ch>>
      BY <2>6 DEF QuietTask, Undeliverable, SpawnHandler, DispatchPanics, HandlerEnds, TimeOut,
         AbortLands, NotifyDead, Settle, runVars, fwdVars
    <3> QED
      BY <1>2, <2>6, <3>1 DEF EndInv, SendersGone
  <2>7. CASE \/ Shutdown \/ \E j \in Jobs : Enqueue(j)
             \/ \E t \in Tags : Redeliver(t) \/ TakeBack(t)
    BY <2>3, <2>7 DEF Shutdown, Enqueue, Redeliver, TakeBack, runVars, fwdVars, taskVars
  <2> QED
    BY <2>1, <2>4, <2>5, <2>6, <2>7, NextSplit DEF MainNext
<1> QED
  BY <1>1, <1>2

LEMMA IInvInit == Init => IInv
<1> SUFFICES ASSUME Init PROVE IInv
  OBVIOUS
<1> USE DEF Init, WorkerInit
<1>0. MaxFaults \in Nat /\ MaxCrashes \in Nat /\ Concurrency \in Nat
  BY WorkerAssumption
<1>1. PlainTypes
  <2>1. fwd \in [Queues -> {"none", "pull", "send", "done"}]
    OBVIOUS
  <2>2. faults \in 0..MaxFaults /\ crashes \in 0..MaxCrashes /\ settleFailures \in Nat
    BY <1>0
  <2> QED
    BY <2>1, <2>2, Zenon DEF PlainTypes
<1>2. HistTypes /\ Tags = {}
  BY DEF HistTypes, Tags
<1>3. EventInv
  BY CapacityNat DEF EventInv, EventOk, NoItem
<1>4. TaskInv /\ EndInv
  BY DEF TaskInv, EndInv
<1>5. HeldTags \subseteq {0} /\ DOMAIN ch = {}
  BY DEF HeldTags, NoItem
<1>6. UniqueInv
  BY <1>5 DEF UniqueInv, NoItem
<1>7. SlotInv
  BY <1>0, FS_EmptySet DEF SlotInv, InHand
<1>8. LiveInv /\ CoveredInv /\ HookBeforeDeadLetter
  BY <1>2 DEF LiveInv, CoveredInv, HookBeforeDeadLetter
<1> QED
  BY <1>1, <1>2, <1>3, <1>4, <1>6, <1>7, <1>8 DEF IInv

LEMMA IInvStep == IInv /\ [Next]_vars => IInv'
<1> SUFFICES ASSUME IInv, [Next]_vars PROVE IInv'
  OBVIOUS
<1>1. CASE Next
  BY <1>1, PlainStep, HistStep, EventStep, TaskStep, UniqueStep, SlotStep, CopiesStep, EndStep
     DEF IInv
<1>2. CASE UNCHANGED vars
  <2> USE <1>2 DEF vars, brokerVars, runVars, fwdVars, taskVars, histVars
  <2>1. PlainTypes' /\ HistTypes' /\ SlotInv' /\ EndInv'
    BY DEF IInv, PlainTypes, HistTypes, SlotInv, InHand, EndInv, SendersGone
  <2>2. Tags' = Tags /\ HeldTags' = HeldTags
    BY DEF Tags, HeldTags
  <2>3. EventInv' /\ UniqueInv'
    BY <2>2 DEF IInv, EventInv, EventOk, UniqueInv
  <2>4. TaskInv'
    BY TaskKept, KeepsSame DEF IInv, HistTypes, TaskInv
  <2>5. LiveInv' /\ CoveredInv' /\ HookBeforeDeadLetter'
    BY <2>2 DEF IInv, LiveInv, CoveredInv, HookBeforeDeadLetter
  <2> QED
    BY <2>1, <2>3, <2>4, <2>5 DEF IInv
<1> QED
  BY <1>1, <1>2

\* The invariant the theorems below rest on holds in every state that run, its consumer
\* tasks, its job tasks and the broker reach together.
THEOREM Invariance == Spec => []IInv
BY IInvInit, IInvStep, PTL DEF Spec

-----------------------------------------------------------------------------
(***************************************************************************)
(* What a user of the worker relies on.                                    *)
(***************************************************************************)

\* Every part of the worker's state keeps its type: the channel stays within its
\* capacity and the semaphore within the concurrency (Worker::run).
THEOREM WorkerTyped == Spec => []TypeOK
<1>1. IInv => TypeOK
  <2> SUFFICES ASSUME IInv PROVE TypeOK
    OBVIOUS
  <2>1. permits \in 0..Concurrency
    <3>1. Cardinality(tasks) \in Nat /\ Concurrency \in Nat
      BY WorkerAssumption, FS_CardinalityType DEF IInv, SlotInv
    <3> QED
      BY <3>1 DEF IInv, SlotInv, InHand
  <2>2. handlers \subseteq Tags
    BY DEF IInv, TaskInv, TaskOk
  <2>3. /\ copies \in Seq(Copy) /\ notified \subseteq Envelope /\ duplicated \subseteq Jobs
    BY DEF IInv, HistTypes
  <2>4. /\ ch \in Seq(Event) /\ Len(ch) <= Capacity /\ item \in [Queues -> Event \cup {NoItem}]
        /\ tasks \subseteq Task
    BY DEF IInv, EventInv, TaskInv
  <2> QED
    BY <2>1, <2>2, <2>3, <2>4, Zenon DEF IInv, PlainTypes, TypeOK
<1> QED
  BY <1>1, Invariance, PTL

\* A worker never runs more handlers than WorkerBuilder::concurrency allows, the ones
\* being cancelled after a timeout included, and never loses a slot: whatever the order
\* in which dispatch, timeouts, panics, settles and the drain loop interleave.
THEOREM HandlersCapped == Spec => []ConcurrencyCap
<1>1. IInv => ConcurrencyCap
  <2> SUFFICES ASSUME IInv PROVE ConcurrencyCap
    OBVIOUS
  <2> DEFINE running == {t \in tasks : t.tag \in handlers}
             tagOf == [t \in running |-> t.tag]
  <2>1. tagOf \in Surjection(running, handlers)
    BY DEF Surjection, IInv, TaskInv
  <2>2. IsFiniteSet(tasks) /\ running \in SUBSET tasks
    BY DEF IInv, SlotInv
  <2>3. IsFiniteSet(running) /\ Cardinality(running) <= Cardinality(tasks)
    BY <2>2, FS_Subset
  <2> HIDE DEF tagOf, running
  <2>4. IsFiniteSet(handlers) /\ Cardinality(handlers) <= Cardinality(running)
    BY <2>1, <2>3, FS_Surjection
  <2>5. /\ Cardinality(handlers) \in Nat /\ Cardinality(running) \in Nat
        /\ Cardinality(tasks) \in Nat /\ Concurrency \in Nat
    BY <2>2, <2>3, <2>4, FS_CardinalityType, WorkerAssumption
  <2>6. Cardinality(tasks) <= Concurrency
    BY <2>5 DEF IInv, SlotInv, InHand
  <2>7. Cardinality(handlers) <= Concurrency
    BY <2>3, <2>4, <2>5, <2>6
  <2> QED
    BY <2>7 DEF ConcurrencyCap, IInv, SlotInv, InHand
<1> QED
  BY <1>1, Invariance, PTL

\* Two handlers never work on the same job at once, unless the broker took a delivery
\* back or a settle failed half way: a retry or deferral is published only when the
\* handler of the attempt before it has ended (dispatch awaits the abort it requested).
THEOREM HandlersDisjoint == Spec => []NoOverlap
<1>1. IInv => NoOverlap
  <2> SUFFICES ASSUME IInv, NEW r \in handlers, NEW t \in handlers, r # t,
                      copies[r].env.job = copies[t].env.job
               PROVE  copies[r].env.job \in duplicated
    BY DEF NoOverlap
  <2>1. r \in HeldTags /\ t \in HeldTags /\ r \in Tags /\ t \in Tags /\ 0 \notin Tags
    BY DEF IInv, TaskInv, TaskOk, HeldTags, Tags
  <2>2. copies[r].st \in {"unacked", "returned"} /\ copies[t].st \in {"unacked", "returned"}
    BY <2>1 DEF IInv, UniqueInv
  <2> QED
    BY <2>1, <2>2 DEF IInv, LiveInv, Live
<1> QED
  BY <1>1, Invariance, PTL

\* With a dead-letter hook nothing reaches the dead-letter queue that the hook was not
\* called for, across crashes and failed settles (notify_dead before the settle).
THEOREM HookComesFirst == Spec => []HookBeforeDeadLetter
<1>1. IInv => HookBeforeDeadLetter
  BY DEF IInv
<1> QED
  BY <1>1, Invariance, PTL

\* What JobContext::is_last_attempt told a handler is what dispatch then decides by:
\* an attempt announced as the last one is not retried.
THEOREM LastAttemptKept == Spec => []LastAttemptHonest
<1>1. IInv => LastAttemptHonest
  BY DEF IInv, TaskInv, TaskOk, LastAttemptHonest
<1> QED
  BY <1>1, Invariance, PTL
-----------------------------------------------------------------------------
(***************************************************************************)
(* No delivery is dropped unsettled.                                       *)
(***************************************************************************)
Dropped == {t \in Tags : copies[t].st = "unacked" /\ t \notin HeldTags}

DropInv == IsFiniteSet(Dropped) /\ Cardinality(Dropped) <= settleFailures

\* Every copy that is held goes on to be held: an event on its way to its task, a task
\* until it settles.
LEMMA HeldKept ==
  ASSUME ~PolicyPanics, PlainTypes, EventInv, TaskInv, Next,
         ~ \E t \in tasks : Settle(t), ~Crash
  PROVE  HeldTags \subseteq HeldTags' \cup {0}
<1>1. ASSUME UNCHANGED <<ch, item, tasks>> PROVE HeldTags \subseteq HeldTags' \cup {0}
  BY <1>1 DEF HeldTags
<1>2. CASE \/ StartConsumer \/ TakePermit \/ StopConsumers \/ DrainPermit \/ Finish \/ Shutdown
           \/ \E j \in Jobs : Enqueue(j)
           \/ \E t \in Tags : Redeliver(t) \/ TakeBack(t)
  <2>1. UNCHANGED <<ch, item, tasks>>
    BY <1>2 DEF StartConsumer, TakePermit, StopConsumers, DrainPermit, Finish, Shutdown,
       Enqueue, Redeliver, TakeBack, runVars, fwdVars, taskVars
  <2> QED
    BY <1>1, <2>1
<1>3. CASE Receive \/ DrainReceive
  <2>1. UNCHANGED item
    BY <1>3 DEF Receive, DrainReceive, fwdVars
  <2>2. CASE UNCHANGED <<ch, tasks>>
    BY <1>1, <2>1, <2>2
  <2>3. CASE /\ ch # <<>> /\ ch' = Tail(ch) /\ tasks \subseteq tasks'
             /\ Head(ch).kind = "Delivery" => NewTask(Head(ch).tag) \in tasks'
    <3>1. /\ ch \in Seq(Event) /\ Len(ch) \in Nat \ {0} /\ Head(ch) = ch[1]
          /\ Len(ch') = Len(ch) - 1
          /\ \A i \in 1..(Len(ch) - 1) : ch'[i] = ch[i + 1]
      BY <2>3 DEF EventInv
    <3>2. \A i \in DOMAIN ch : i = 1 \/ (i - 1 \in DOMAIN ch' /\ ch'[i - 1] = ch[i])
      BY <3>1, <2>3
    <3>3. ch[1].tag = 0 \/ \E u \in tasks' : u.tag = ch[1].tag
      BY <2>3, <3>1 DEF EventInv, EventOk, NewTask
    <3>4. \A q \in Queues : item[q].tag \in HeldTags'
      BY <2>1 DEF HeldTags
    <3>5. \A t \in tasks : t.tag \in HeldTags'
      BY <2>3 DEF HeldTags
    <3>6. \A i \in DOMAIN ch : ch[i].tag \in HeldTags' \cup {0}
      BY <3>2, <3>3 DEF HeldTags
    <3> QED
      BY <3>4, <3>5, <3>6 DEF HeldTags
  <2> QED
    BY <1>3, <2>2, <2>3 DEF Receive, DrainReceive
<1>4. ASSUME NEW q \in Queues, Send(q) PROVE HeldTags \subseteq HeldTags' \cup {0}
  <2>1. /\ ch' = Append(ch, item[q]) /\ UNCHANGED tasks
        /\ \A r \in Queues \ {q} : item'[r] = item[r]
    BY <1>4 DEF Send, taskVars, EventInv
  <2>2. item[q] \in Event
    BY <1>4 DEF Send, EventInv, NoItem
  <2>3. /\ \A i \in DOMAIN ch : i \in DOMAIN ch' /\ ch'[i] = ch[i]
        /\ Len(ch) + 1 \in DOMAIN ch' /\ ch'[Len(ch) + 1] = item[q]
    BY <2>1, <2>2 DEF EventInv
  <2> QED
    BY <2>1, <2>3 DEF HeldTags
<1>5. ASSUME NEW q \in Queues, Pull(q) PROVE HeldTags \subseteq HeldTags' \cup {0}
  <2>1. UNCHANGED <<ch, tasks>> /\ \A r \in Queues \ {q} : item'[r] = item[r]
    BY <1>5, PullSteps DEF PullsCopy, PullsFault, runVars, taskVars, EventInv
  <2>2. item[q].tag = 0
    BY <1>5 DEF Pull, EventInv, EventOk
  <2> QED
    BY <2>1, <2>2 DEF HeldTags
<1>6. ASSUME NEW t \in tasks, QuietTask(t) \/ NotifyDead(t)
      PROVE  HeldTags \subseteq HeldTags' \cup {0}
  <2>1. t \in Task /\ ~DispatchPanics(t)
    BY DEF TaskInv, DispatchPanics
  <2>2. PICK u : Becomes(t, u) /\ u.tag = t.tag
    BY <1>6, <2>1, TaskGoesOn
  <2>3. UNCHANGED <<ch, item>>
    BY <1>6 DEF QuietTask, Undeliverable, SpawnHandler, DispatchPanics, HandlerEnds, TimeOut,
       AbortLands, NotifyDead, runVars, fwdVars
  <2> QED
    BY <2>2, <2>3 DEF HeldTags, Becomes
<1> QED
  BY <1>2, <1>3, <1>4, <1>5, <1>6, NextSplit DEF MainNext

\* A copy the worker gets is held from then on.
LEMMA NewlyUnacked ==
  ASSUME HistTypes, PlainTypes, EventInv, TaskInv, Next, ~Crash,
         NEW h \in Tags', copies'[h].st = "unacked"
  PROVE  h \in Tags /\ (copies[h].st = "unacked" \/ h \in HeldTags')
<1>0. copies \in Seq(Copy)
  BY DEF HistTypes
<1>1. ASSUME Len(copies') = Len(copies) PROVE h \in Tags
  BY <1>1 DEF Tags
<1>2. ASSUME Len(copies') = New, copies'[New].st # "unacked" PROVE h \in Tags
  BY <1>0, <1>2 DEF Tags, New
<1>3. CASE \/ MainNext \/ Shutdown
           \/ \E q \in Queues : Send(q)
           \/ \E t \in tasks : QuietTask(t)
           \/ \E t \in tasks : NotifyDead(t)
  BY <1>1, <1>3, QuietSteps DEF NotifyDead, brokerVars
<1>4. ASSUME NEW q \in Queues, Pull(q)
      PROVE  h \in Tags /\ (copies[h].st = "unacked" \/ h \in HeldTags')
  <2>1. CASE UNCHANGED copies
    BY <1>1, <2>1
  <2>2. ASSUME NEW t \in Tags, PullsCopy(q, t)
        PROVE  h \in Tags /\ (copies[h].st = "unacked" \/ h \in HeldTags')
    <3>1. h \in Tags /\ (h = t \/ copies[h].st = "unacked")
      BY <1>0, <1>1, <2>2, PullCopies
    <3>2. item'[q].tag = t
      BY <2>2 DEF PullsCopy, EventInv
    <3> QED
      BY <3>1, <3>2 DEF HeldTags
  <2> QED
    BY <1>4, <2>1, <2>2, PullSteps DEF PullsFault
<1>5. ASSUME NEW t \in tasks, Settle(t)
      PROVE  h \in Tags /\ (copies[h].st = "unacked" \/ h \in HeldTags')
  <2>1. t.stage = "settle"
    BY <1>5 DEF Settle
  <2>2. t.op # "ack" => Successor(t).st # "unacked"
    BY <1>0, <2>1, SuccessorTyped
  <2>3. CASE SettleOk(t)
    BY <1>0, <1>1, <1>2, <2>1, <2>2, <2>3, SettleOkCopies
  <2>4. CASE SettleFails(t)
    BY <1>0, <1>1, <1>2, <2>1, <2>2, <2>4, SettleFailsCopies
  <2> QED
    BY <1>5, <2>3, <2>4 DEF Settle
<1>6. ASSUME NEW j \in Jobs, Enqueue(j) PROVE h \in Tags /\ copies[h].st = "unacked"
  BY <1>0, <1>2, <1>6, EnqueueCopies
<1>7. ASSUME NEW t \in Tags, Redeliver(t) PROVE h \in Tags /\ copies[h].st = "unacked"
  BY <1>0, <1>1, <1>7, RedeliverCopies
<1>8. ASSUME NEW t \in Tags, TakeBack(t) PROVE h \in Tags /\ copies[h].st = "unacked"
  BY <1>0, <1>2, <1>8, TakeBackCopies
<1> QED
  BY <1>3, <1>4, <1>5, <1>6, <1>7, <1>8, NextSplit

LEMMA DropStep ==
  ASSUME ~PolicyPanics, IInv, DropInv, Next
  PROVE  DropInv'
<1>0. /\ HistTypes /\ PlainTypes /\ EventInv /\ TaskInv /\ UniqueInv
      /\ settleFailures \in Nat /\ copies \in Seq(Copy)
  BY DEF IInv, PlainTypes, HistTypes
<1>1. Cardinality(Dropped) \in Nat
  BY FS_CardinalityType DEF DropInv
<1>2. CASE Crash
  <2>1. Tags' = Tags /\ Dropped' = {}
    BY <1>0, <1>2, CrashCopies DEF Dropped, Tags
  <2>2. settleFailures' = 0
    BY <1>2 DEF Crash, WorkerRestarts
  <2> QED
    BY <2>1, <2>2, FS_EmptySet DEF DropInv
<1>3. CASE ~Crash /\ ~ \E t \in tasks : Settle(t)
  <2>1. Dropped' \in SUBSET Dropped
    <3> SUFFICES ASSUME NEW h \in Dropped' PROVE h \in Dropped
      OBVIOUS
    <3>1. h \in Tags' /\ copies'[h].st = "unacked" /\ h \notin HeldTags' /\ 0 \notin Tags'
      BY DEF Dropped, Tags
    <3> QED
      BY <1>0, <1>3, <3>1, HeldKept, NewlyUnacked DEF Dropped
  <2>2. settleFailures' = settleFailures
    BY <1>3, NextSplit DEF MainNext, StartConsumer, TakePermit, Receive, StopConsumers,
       DrainPermit, DrainReceive, Finish, Shutdown, Send, QuietTask, Undeliverable,
       SpawnHandler, DispatchPanics, HandlerEnds, TimeOut, AbortLands, NotifyDead, Pull,
       Enqueue, Redeliver, TakeBack, runVars
  <2>3. IsFiniteSet(Dropped') /\ Cardinality(Dropped') <= Cardinality(Dropped)
    BY <2>1, FS_Subset DEF DropInv
  <2>4. Cardinality(Dropped') \in Nat
    BY <2>3, FS_CardinalityType
  <2> QED
    BY <1>0, <1>1, <2>2, <2>3, <2>4 DEF DropInv
<1>4. ASSUME NEW t \in tasks, Settle(t), ~Crash PROVE DropInv'
  <2>1. /\ t.stage = "settle" /\ UNCHANGED <<ch, item>> /\ tasks' = tasks \ {t}
    BY <1>4 DEF Settle, fwdVars
  <2>2. HeldTags \subseteq HeldTags' \cup {t.tag}
    BY <2>1 DEF HeldTags
  <2>3. Dropped' \in SUBSET (Dropped \cup {t.tag})
    <3> SUFFICES ASSUME NEW h \in Dropped' PROVE h \in Dropped \cup {t.tag}
      OBVIOUS
    <3>1. h \in Tags' /\ copies'[h].st = "unacked" /\ h \notin HeldTags'
      BY DEF Dropped
    <3> QED
      BY <1>0, <1>4, <2>2, <3>1, NewlyUnacked DEF Dropped
  <2>4. CASE SettleOk(t)
    <3>1. copies'[t.tag].st # "unacked"
      BY <1>0, <2>1, <2>4, SettleOkCopies
    <3>2. Dropped' \in SUBSET Dropped
      BY <2>3, <3>1 DEF Dropped
    <3>3. IsFiniteSet(Dropped') /\ Cardinality(Dropped') <= Cardinality(Dropped)
      BY <3>2, FS_Subset DEF DropInv
    <3>4. Cardinality(Dropped') \in Nat /\ settleFailures' = settleFailures
      BY <2>4, <3>3, FS_CardinalityType DEF SettleOk
    <3> QED
      BY <1>0, <1>1, <3>3, <3>4 DEF DropInv
  <2>5. CASE SettleFails(t)
    <3>1. /\ IsFiniteSet(Dropped \cup {t.tag})
          /\ Cardinality(Dropped \cup {t.tag}) \in Nat
          /\ Cardinality(Dropped \cup {t.tag}) <= Cardinality(Dropped) + 1
      <4>1. /\ IsFiniteSet(Dropped \cup {t.tag})
            /\ Cardinality(Dropped \cup {t.tag})
                 = IF t.tag \in Dropped THEN Cardinality(Dropped) ELSE Cardinality(Dropped) + 1
        BY FS_AddElement DEF DropInv
      <4> QED
        BY <1>1, <4>1
    <3>2. /\ IsFiniteSet(Dropped')
          /\ Cardinality(Dropped') <= Cardinality(Dropped \cup {t.tag})
      BY <2>3, <3>1, FS_Subset
    <3>3. Cardinality(Dropped') \in Nat /\ settleFailures' = settleFailures + 1
      BY <2>5, <3>2, FS_CardinalityType DEF SettleFails
    <3> QED
      BY <1>0, <1>1, <3>1, <3>2, <3>3 DEF DropInv
  <2> QED
    BY <1>4, <2>4, <2>5 DEF Settle
<1> QED
  BY <1>2, <1>3, <1>4

\* A delivery the worker was handed is settled before its task ends, and run does not
\* return before all of them are (the doc of Worker::run): what is unacked with nobody
\* holding it is a settle that failed and was counted.  Provided that decoding and
\* set_retry_policy do not panic, which is the exception run WorkerPolicyPanic shows.
THEOREM NothingDropped ==
  ASSUME ~PolicyPanics
  PROVE  Spec => []NeverDroppedUnsettled
<1>1. Init => DropInv
  <2> SUFFICES ASSUME Init PROVE DropInv
    OBVIOUS
  <2>1. Dropped = {} /\ settleFailures = 0
    BY DEF Init, WorkerInit, Dropped, Tags
  <2> QED
    BY <2>1, FS_EmptySet DEF DropInv
<1>2. IInv /\ DropInv /\ [Next]_vars => DropInv'
  <2>1. ASSUME IInv, DropInv, UNCHANGED vars PROVE DropInv'
    BY <2>1 DEF DropInv, Dropped, Tags, HeldTags, vars, brokerVars, runVars, fwdVars, taskVars
  <2> QED
    BY <2>1, DropStep
<1>3. IInv /\ DropInv => NeverDroppedUnsettled
  <2> SUFFICES ASSUME IInv, DropInv PROVE NeverDroppedUnsettled
    OBVIOUS
  <2>1. ASSUME pc = "done" PROVE HeldTags \subseteq {0} /\ handlers = {}
    <3>1. ch = <<>> /\ tasks = {} /\ \A q \in Queues : fwd[q] # "send"
      BY <2>1 DEF IInv, EndInv, SendersGone
    <3>2. \A q \in Queues : item[q].tag = 0
      BY <3>1 DEF IInv, EventInv, EventOk
    <3>3. handlers = {}
      BY <3>1 DEF IInv, TaskInv
    <3> QED
      BY <3>1, <3>2, <3>3 DEF HeldTags
  <2> QED
    BY <2>1 DEF NeverDroppedUnsettled, DropInv, Dropped
<1> QED
  BY <1>1, <1>2, <1>3, Invariance, PTL DEF Spec
-----------------------------------------------------------------------------
(***************************************************************************)
(* The worker implements AtLeastOnce.                                      *)
(***************************************************************************)
LEMMA InJobsWith ==
  ASSUME NEW S
  PROVE  /\ \A j : j \in JobsWith(S) <=> \E t \in Tags : copies[t].env.job = j /\ copies[t].st \in S
         /\ \A j : j \in JobsWith(S)' <=>
                     \E t \in Tags' : copies'[t].env.job = j /\ copies'[t].st \in S
BY DEF JobsWith

\* A step that changes no more than where copies are, within S or outside it.
LEMMA SameJobs ==
  ASSUME Keeps(copies'), Len(copies') = Len(copies), NEW S,
         \A u \in Tags : copies'[u].st \in S <=> copies[u].st \in S
  PROVE  JobsWith(S)' = JobsWith(S)
<1>1. Tags' = Tags /\ \A u \in Tags : copies'[u].env = copies[u].env
  BY DEF Tags, Keeps
<1>2. \A j : j \in JobsWith(S)' <=> j \in JobsWith(S)
  BY <1>1, InJobsWith
<1> QED
  BY <1>2

\* What a step does to the jobs with a copy in S when it adds a copy.
LEMMA MoreJobs ==
  ASSUME copies \in Seq(Copy), Keeps(copies'), Len(copies') = New, NEW S
  PROVE  \A j : j \in JobsWith(S)' <=>
                  \/ \E u \in Tags : copies[u].env.job = j /\ copies'[u].st \in S
                  \/ copies'[New].env.job = j /\ copies'[New].st \in S
<1>1. Tags' = Tags \cup {New} /\ \A u \in Tags : copies'[u].env = copies[u].env
  BY DEF Tags, Keeps, New
<1> QED
  BY <1>1, InJobsWith

\* The refinement mapping.
owed      == JobsWith({"ready", "unacked"})
succeeded == JobsWith({"succeeded"})
dead      == JobsWith({"dead"})
told      == {e.job : e \in notified}

LEMMA JobKnown ==
  ASSUME CoveredInv, NEW t \in Tags
  PROVE  copies[t].env.job \in owed \cup succeeded \cup dead
<1>1. PICK u \in Tags : /\ copies[u].env.job = copies[t].env.job
                        /\ copies[u].st \in Live \cup {"succeeded", "dead"}
  BY DEF CoveredInv
<1> QED
  BY <1>1, InJobsWith DEF owed, succeeded, dead, Live

\* Steps the abstract specification does not see.
LEMMA Unseen ==
  ASSUME Keeps(copies'), Len(copies') = Len(copies), UNCHANGED notified,
         \A u \in Tags : \/ copies'[u].st = copies[u].st
                         \/ copies'[u].st \in Live /\ copies[u].st \in Live
  PROVE  UNCHANGED <<owed, succeeded, dead, told>>
<1>1. /\ \A u \in Tags : copies'[u].st \in Live <=> copies[u].st \in Live
      /\ \A u \in Tags : copies'[u].st \in {"succeeded"} <=> copies[u].st \in {"succeeded"}
      /\ \A u \in Tags : copies'[u].st \in {"dead"} <=> copies[u].st \in {"dead"}
  BY DEF Live
<1> QED
  BY <1>1, SameJobs DEF owed, succeeded, dead, told, Live

\* A copy that takes over from copy h of job j, which may or may not leave it.
LEMMA TakesOver ==
  ASSUME copies \in Seq(Copy), Keeps(copies'), Len(copies') = New, NEW h \in Tags,
         copies'[New].env.job = copies[h].env.job, copies'[New].st \in {"ready", "dead"},
         \A u \in Tags \ {h} : copies'[u].st = copies[u].st,
         copies'[h].st \in {copies[h].st, "superseded", "returned"},
         copies'[h].st = copies[h].st \/ copies[h].st \in Live,
         UNCHANGED notified
  PROVE  /\ UNCHANGED <<succeeded, told>>
         /\ copies'[New].st = "ready" =>
              UNCHANGED dead /\ owed' = owed \cup {copies[h].env.job}
         /\ copies'[New].st = "dead" =>
              /\ dead' = dead \cup {copies[h].env.job}
              /\ owed' \in {owed, owed \ {copies[h].env.job}}
<1> DEFINE j == copies[h].env.job
<1>1. UNCHANGED told
  BY DEF told
<1>2. \A i : i \in owed <=> \E t \in Tags : copies[t].env.job = i /\ copies[t].st \in Live
  BY InJobsWith DEF owed, Live
<1>3. \A i : i \in owed' <=> \/ \E u \in Tags : copies[u].env.job = i /\ copies'[u].st \in Live
                             \/ i = j /\ copies'[New].st \in Live
  BY MoreJobs DEF owed, Live
<1>4. \A i : i # j => (i \in owed' <=> i \in owed)
  BY <1>2, <1>3
<1>5. owed' \subseteq owed \cup {j}
  BY <1>4
<1>6. CASE copies'[New].st = "ready"
  <2>1. UNCHANGED <<succeeded, dead>>
    <3>1. \A i : i \in succeeded' <=> i \in succeeded
      BY <1>6, InJobsWith, MoreJobs DEF succeeded, Live
    <3>2. \A i : i \in dead' <=> i \in dead
      BY <1>6, InJobsWith, MoreJobs DEF dead, Live
    <3> QED
      BY <3>1, <3>2
  <2>2. owed' = owed \cup {j}
    BY <1>3, <1>4, <1>5, <1>6 DEF Live
  <2> QED
    BY <1>1, <1>6, <2>1, <2>2
<1>7. CASE copies'[New].st = "dead"
  <2>1. UNCHANGED succeeded /\ dead' = dead \cup {j}
    <3>1. \A i : i \in succeeded' <=> i \in succeeded
      BY <1>7, InJobsWith, MoreJobs DEF succeeded, Live
    <3>2. \A i : i \in dead' <=> i \in dead \/ i = j
      BY <1>7, InJobsWith, MoreJobs DEF dead, Live
    <3> QED
      BY <3>1, <3>2
  <2>2. j \in owed' => j \in owed
    BY <1>2, <1>3, <1>7 DEF Live
  <2>3. owed' = owed \/ owed' = owed \ {j}
    <3> HIDE DEF j
    <3>1. CASE j \in owed'
      <4>1. \A i : i \in owed' <=> i \in owed
        BY <1>4, <2>2, <3>1
      <4> QED
        BY <4>1
    <3>2. CASE j \notin owed'
      BY <1>4, <3>2
    <3> QED
      BY <3>1, <3>2
  <2> QED
    BY <1>1, <1>7, <2>1, <2>3
<1> QED
  BY <1>1, <1>6, <1>7

\* The abstract steps, in terms of the mapping.
LEMMA AbstractSteps ==
  /\ (UNCHANGED <<owed, succeeded, dead, told>>) => UNCHANGED ALO!vars
  /\ \A j : ( /\ j \notin owed \cup succeeded \cup dead
              /\ owed' = owed \cup {j}
              /\ UNCHANGED <<succeeded, dead, told>> ) => ALO!Accept(j)
  /\ \A j : ( /\ j \in owed \cup succeeded \cup dead
              /\ owed' = owed \cup {j}
              /\ UNCHANGED <<succeeded, dead, told>> ) => ALO!Duplicate(j)
  /\ \A j : ( /\ j \in owed
              /\ succeeded' = succeeded \cup {j}
              /\ owed' \in {owed, owed \ {j}}
              /\ UNCHANGED <<dead, told>> ) => ALO!Succeed(j)
  /\ \A j : ( /\ j \in owed \cup succeeded \cup dead
              /\ told' = told \cup {j}
              /\ UNCHANGED <<owed, succeeded, dead>> ) => ALO!Notify(j)
  /\ \A j : ( /\ j \in owed \cup succeeded \cup dead
              /\ HasHook => j \in told
              /\ dead' = dead \cup {j}
              /\ owed' \in {owed, owed \ {j}}
              /\ UNCHANGED <<succeeded, told>> ) => ALO!DeadLetter(j)
BY DEF ALO!vars, ALO!Accept, ALO!Duplicate, ALO!Succeed, ALO!Notify, ALO!DeadLetter, ALO!Owed,
   owed, succeeded, dead, told

LEMMA SettleImplements ==
  ASSUME HistTypes, TaskInv, CoveredInv, NEW t \in tasks, Settle(t)
  PROVE  (\E j \in Jobs : ALO!Succeed(j) \/ ALO!Duplicate(j) \/ ALO!DeadLetter(j))
         \/ UNCHANGED ALO!vars
<1>0. /\ copies \in Seq(Copy) /\ t.stage = "settle" /\ t.tag \in Tags /\ UNCHANGED notified
      /\ TaskOk(t) /\ Env(t) = copies[t.tag].env
  BY DEF Settle, HistTypes, TaskInv, TaskOk, Env
<1> DEFINE j == copies[t.tag].env.job
<1>1. j \in Jobs /\ j \in owed \cup succeeded \cup dead
  BY <1>0, TagsDomain, JobKnown DEF Envelope
<1>2. t.op \in {"ack", "retry", "defer", "dead_letter"}
  BY <1>0, SuccessorTyped
<1>3. CASE t.op = "ack" /\ SettleOk(t)
  <2>1. /\ Keeps(copies') /\ Len(copies') = Len(copies) /\ copies[t.tag].st = "unacked"
        /\ \A u \in Tags : copies'[u].st = IF u = t.tag THEN "succeeded" ELSE copies[u].st
    BY <1>0, <1>3, SettleOkCopies DEF SettleOk
  <2>2. Tags' = Tags /\ \A u \in Tags : copies'[u].env = copies[u].env
    BY <2>1 DEF Tags, Keeps
  <2>3. j \in owed
    BY <1>0, <2>1, InJobsWith DEF owed
  <2>4. UNCHANGED dead /\ UNCHANGED told
    BY <1>0, <2>1, SameJobs DEF dead, told
  <2>5. succeeded' = succeeded \cup {j}
    <3>1. \A i : i \in succeeded' <=> i \in succeeded \/ i = j
      BY <1>0, <2>1, <2>2, InJobsWith DEF succeeded
    <3> QED
      BY <3>1
  <2>6. \A i : i # j => (i \in owed' <=> i \in owed)
    BY <1>0, <2>1, <2>2, InJobsWith DEF owed
  <2>7. owed' \in {owed, owed \ {j}}
    <3>1. CASE j \in owed'
      BY <2>3, <2>6, <3>1
    <3>2. CASE j \notin owed'
      BY <2>3, <2>6, <3>2
    <3> QED
      BY <3>1, <3>2
  <2> HIDE DEF j
  <2> QED
    BY <1>1, <2>3, <2>4, <2>5, <2>7, AbstractSteps
<1>4. CASE UNCHANGED copies
  BY <1>0, <1>4, KeepsSame, Unseen, AbstractSteps
<1>5. CASE t.op # "ack" /\ ~UNCHANGED copies
  <2>1. /\ Successor(t).env.job = j
        /\ Successor(t).st = IF t.op = "dead_letter" THEN "dead" ELSE "ready"
    BY <1>0, <1>5, SuccessorTyped
  <2>2. /\ Keeps(copies') /\ Len(copies') = New /\ copies'[New] = Successor(t)
        /\ \A u \in Tags \ {t.tag} : copies'[u].st = copies[u].st
        /\ copies'[t.tag].st \in {copies[t.tag].st, "superseded", "returned"}
        /\ copies'[t.tag].st = copies[t.tag].st \/ copies[t.tag].st \in Live
    BY <1>0, <1>5, SettleOkCopies, SettleFailsCopies DEF Settle, SettleOk, Live
  <2>3. CASE t.op = "dead_letter"
    <3>1. /\ UNCHANGED <<succeeded, told>> /\ dead' = dead \cup {j}
          /\ owed' \in {owed, owed \ {j}}
      BY <1>0, <2>1, <2>2, <2>3, TakesOver
    <3>2. HasHook => j \in told
      BY <1>0, <2>3 DEF TaskOk, told
    <3> HIDE DEF j
    <3> QED
      BY <1>1, <3>1, <3>2, AbstractSteps
  <2>4. CASE t.op # "dead_letter"
    <3>1. UNCHANGED <<succeeded, told, dead>> /\ owed' = owed \cup {j}
      BY <1>0, <2>1, <2>2, <2>4, TakesOver
    <3> HIDE DEF j
    <3> QED
      BY <1>1, <3>1, AbstractSteps
  <2> QED
    BY <2>3, <2>4
<1> QED
  BY <1>3, <1>4, <1>5, <1>0, SettleFailsCopies DEF Settle, SettleFails

LEMMA StepImplements == IInv /\ [Next]_vars => [ALO!Next]_ALO!vars
<1> SUFFICES ASSUME IInv, [Next]_vars PROVE [ALO!Next]_ALO!vars
  OBVIOUS
<1>0. HistTypes /\ TaskInv /\ CoveredInv /\ EventInv /\ copies \in Seq(Copy)
  BY DEF IInv, HistTypes
<1>1. CASE UNCHANGED <<copies, notified>>
  BY <1>0, <1>1, KeepsSame, Unseen, AbstractSteps
<1>2. CASE UNCHANGED vars
  BY <1>1, <1>2 DEF vars, brokerVars, histVars
<1>3. CASE \/ MainNext \/ Shutdown
           \/ \E q \in Queues : Send(q)
           \/ \E t \in tasks : QuietTask(t)
  BY <1>1, <1>3, QuietSteps
<1>4. ASSUME NEW q \in Queues, Pull(q) PROVE UNCHANGED ALO!vars
  <2>1. UNCHANGED notified
    BY <1>4, PullSteps
  <2>2. CASE UNCHANGED copies
    BY <1>0, <2>1, <2>2, KeepsSame, Unseen, AbstractSteps
  <2>3. ASSUME NEW t \in Tags, PullsCopy(q, t) PROVE UNCHANGED ALO!vars
    <3>1. \A u \in Tags : \/ copies'[u].st = copies[u].st
                          \/ copies'[u].st \in Live /\ copies[u].st \in Live
      BY <1>0, <2>3, PullCopies DEF PullsCopy, Live
    <3> QED
      BY <1>0, <2>1, <2>3, <3>1, PullCopies, Unseen, AbstractSteps
  <2> QED
    BY <1>4, <2>2, <2>3, PullSteps DEF PullsFault
<1>5. ASSUME NEW t \in tasks, NotifyDead(t) PROVE \E j \in Jobs : ALO!Notify(j)
  <2>1. t.tag \in Tags /\ notified' = notified \cup {copies[t.tag].env} /\ UNCHANGED copies
    BY <1>0, <1>5 DEF NotifyDead, Env, TaskInv, TaskOk, brokerVars
  <2>2. \A u \in Tags : copies'[u].st = copies[u].st
    BY <2>1
  <2>3. UNCHANGED <<owed, succeeded, dead>>
    BY <1>0, <2>1, <2>2, KeepsSame, SameJobs DEF owed, succeeded, dead
  <2>4. told' = told \cup {copies[t.tag].env.job}
    BY <2>1 DEF told
  <2>5. copies[t.tag].env.job \in Jobs
    BY <1>0, <2>1, TagsDomain DEF Envelope
  <2>6. copies[t.tag].env.job \in owed \cup succeeded \cup dead
    BY <1>0, <2>1, JobKnown
  <2> QED
    BY <2>3, <2>4, <2>5, <2>6, AbstractSteps
<1>6. ASSUME NEW t \in tasks, Settle(t)
      PROVE  (\E j \in Jobs : ALO!Succeed(j) \/ ALO!Duplicate(j) \/ ALO!DeadLetter(j))
             \/ UNCHANGED ALO!vars
  BY <1>0, <1>6, SettleImplements
<1>7. ASSUME NEW j \in Jobs, Enqueue(j) PROVE ALO!Accept(j)
  <2>1. /\ Keeps(copies') /\ Len(copies') = New /\ UNCHANGED notified
        /\ \A u \in Tags : copies'[u] = copies[u] /\ copies[u].env.job # j
        /\ copies'[New].env.job = j /\ copies'[New].st = "ready"
    BY <1>0, <1>7, EnqueueCopies DEF Enqueue, histVars
  <2>2. j \notin owed \cup succeeded \cup dead
    BY <2>1, InJobsWith DEF owed, succeeded, dead
  <2>3. UNCHANGED told
    BY <2>1 DEF told
  <2>4. \A i : i \in owed' <=> i \in owed \/ i = j
    BY <1>0, <2>1, InJobsWith, MoreJobs DEF owed
  <2>5. \A i : i \in succeeded' <=> i \in succeeded
    BY <1>0, <2>1, InJobsWith, MoreJobs DEF succeeded
  <2>6. \A i : i \in dead' <=> i \in dead
    BY <1>0, <2>1, InJobsWith, MoreJobs DEF dead
  <2>7. owed' = owed \cup {j} /\ UNCHANGED <<succeeded, dead>>
    BY <2>4, <2>5, <2>6
  <2> QED
    BY <2>2, <2>3, <2>7, AbstractSteps
<1>8. ASSUME NEW t \in Tags, Redeliver(t) PROVE UNCHANGED ALO!vars
  <2>1. \A u \in Tags : \/ copies'[u].st = copies[u].st
                        \/ copies'[u].st \in Live /\ copies[u].st \in Live
    BY <1>0, <1>8, RedeliverCopies DEF Redeliver, Live
  <2> QED
    BY <1>0, <1>8, <2>1, RedeliverCopies, Unseen, AbstractSteps DEF Redeliver, histVars
<1>9. ASSUME NEW t \in Tags, TakeBack(t) PROVE UNCHANGED ALO!vars
  <2>1. /\ Keeps(copies') /\ Len(copies') = New /\ UNCHANGED notified
        /\ \A u \in Tags : copies'[u].st = IF u = t THEN "returned" ELSE copies[u].st
        /\ copies'[New].env = copies[t].env /\ copies'[New].st = "ready"
        /\ copies[t].st = "unacked"
    BY <1>0, <1>9, TakeBackCopies DEF TakeBack
  <2>2. UNCHANGED <<succeeded, told, dead>> /\ owed' = owed \cup {copies[t].env.job}
    BY <1>0, <2>1, TakesOver DEF Live
  <2>3. copies[t].env.job \in owed
    BY <2>1, InJobsWith DEF owed
  <2>4. UNCHANGED owed
    BY <2>2, <2>3
  <2> QED
    BY <2>2, <2>4, AbstractSteps
<1>10. CASE Crash
  <2>1. \A u \in Tags : \/ copies'[u].st = copies[u].st
                        \/ copies'[u].st \in Live /\ copies[u].st \in Live
    BY <1>0, <1>10, CrashCopies DEF Live
  <2> QED
    BY <1>0, <1>10, <2>1, CrashCopies, Unseen, AbstractSteps DEF Crash
<1> QED
  BY <1>2, <1>3, <1>4, <1>5, <1>6, <1>7, <1>8, <1>9, <1>10, NextSplit DEF ALO!Next

\* The worker keeps the promise of AtLeastOnce, step by step: a job is owed from the
\* moment it is enqueued until it succeeded or was dead-lettered, and no crash, lost
\* connection, failed settle or shutdown makes it disappear in between.
THEOREM WorkerImplements == Spec => ImplementsAtLeastOnce
<1>1. Init => ALO!Init
  <2> SUFFICES ASSUME Init PROVE ALO!Init
    OBVIOUS
  <2>1. Tags = {} /\ notified = {}
    BY DEF Init, Tags
  <2>2. \A S : JobsWith(S) = {}
    BY <2>1 DEF JobsWith
  <2> QED
    BY <2>1, <2>2 DEF ALO!Init
<1> QED
  BY <1>1, StepImplements, Invariance, PTL DEF Spec, ImplementsAtLeastOnce, ALO!Spec
=============================================================================
