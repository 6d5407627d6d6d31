------------------------- MODULE MemoryBackendProofs -------------------------
(***************************************************************************)
(* Proofs about the in-memory backend, for any number of jobs, consumers,  *)
(* attempts and deferrals and any prefetch window.                         *)
(***************************************************************************)
EXTENDS MemoryBackend, FiniteSetTheorems, WellFoundedInduction, TLAPS

-----------------------------------------------------------------------------
(***************************************************************************)
(* Facts about the operators.                                              *)
(***************************************************************************)

\* Every envelope that publish, retry and defer build has its type.
LEMMA NewEnvelopeType ==
  ASSUME NEW j \in Jobs
  PROVE  /\ NewEnvelope(j) \in Envelope
         /\ NewDeferred(j) \in Envelope
  BY EnvelopeAssumption DEF Envelope, NewEnvelope, NewDeferred, EnvelopeAssumption

LEMMA NextAttemptType ==
  ASSUME NEW e \in Envelope, e.attempt < MaxAttempts
  PROVE  NextAttempt(e) \in Envelope
  <1>1. e.attempt + 1 \in 1..MaxAttempts
    BY EnvelopeAssumption DEF Envelope, EnvelopeAssumption
  <1>2. QED
    BY <1>1 DEF Envelope, NextAttempt

LEMMA DeferredType ==
  ASSUME NEW e \in Envelope, e.deferrals < MaxDeferrals
  PROVE  Deferred(e) \in Envelope
  <1>1. e.deferrals + 1 \in 0..MaxDeferrals
    BY EnvelopeAssumption DEF Envelope, EnvelopeAssumption
  <1>2. QED
    BY <1>1 DEF Envelope, Deferred

LEMMA PriorityType ==
  ASSUME NEW e \in Envelope
  PROVE  e.priority \in Nat
  <1>1. e.priority \in {0, MaxPriority}
    BY DEF Envelope
  <1>2. QED
    BY <1>1, EnvelopeAssumption DEF EnvelopeAssumption

\* insert_by_priority makes the queue one longer and puts nothing in it but e.
LEMMA InsertType ==
  ASSUME NEW s \in Seq(Envelope), NEW e \in Envelope
  PROVE  InsertByPriority(s, e) \in Seq(Envelope)
  BY DEF InsertByPriority

\* insert_by_priority keeps a queue that is ordered by priority ordered.
LEMMA InsertKeepsOrder ==
  ASSUME NEW s \in Seq(Envelope), NEW e \in Envelope,
         \A i, k \in 1..Len(s) : i < k => s[i].priority >= s[k].priority
  PROVE  LET t == InsertByPriority(s, e)
         IN  \A i, k \in 1..Len(t) : i < k => t[i].priority >= t[k].priority
  <1> DEFINE t == InsertByPriority(s, e)
             Ahead(i) == \E k \in i..Len(s) : s[k].priority >= e.priority
             P(i) == s[i].priority
  <1>1. t = [i \in 1..(Len(s) + 1) |->
               IF Ahead(i) THEN s[i]
               ELSE IF i = 1 \/ Ahead(i - 1) THEN e ELSE s[i - 1]]
    BY DEF InsertByPriority
  <1>2. Len(s) \in Nat /\ DOMAIN t = 1..(Len(s) + 1) /\ Len(t) = Len(s) + 1
    <2>1. Len(s) \in Nat
      OBVIOUS
    <2>2. DOMAIN t = 1..(Len(s) + 1)
      BY <1>1
    <2>3. t \in Seq(Envelope)
      BY InsertType
    <2> HIDE DEF t
    <2>4. QED
      BY <2>1, <2>2, <2>3
  <1>3. \A i \in 1..Len(s) : P(i) \in Nat
    BY PriorityType
  <1>4. e.priority \in Nat
    BY PriorityType
  <1>5. \A i \in 1..Len(s) : Ahead(i) <=> P(i) >= e.priority
    BY <1>2, <1>3, <1>4
  <1>6. ~Ahead(Len(s) + 1)
    BY <1>2
  <1> SUFFICES ASSUME NEW i \in 1..Len(t), NEW k \in 1..Len(t), i < k
               PROVE  t[i].priority >= t[k].priority
    OBVIOUS
  <1> HIDE DEF Ahead, t, P
  <1>7. i \in 1..(Len(s) + 1) /\ k \in 1..(Len(s) + 1) /\ k > 1
    BY <1>2
  <1>8. \A m \in 1..Len(s) : s[m].priority = P(m)
    BY DEF P
  <1>9. CASE Ahead(k)
    BY <1>1, <1>2, <1>3, <1>4, <1>5, <1>6, <1>7, <1>8, <1>9 DEF P
  <1>10. CASE ~Ahead(k) /\ Ahead(k - 1)
    <2>1. t[k] = e /\ k - 1 \in 1..Len(s) /\ P(k - 1) >= e.priority
      BY <1>1, <1>2, <1>5, <1>7, <1>10
    <2>2. i \in 1..Len(s) /\ P(i) >= P(k - 1)
      BY <1>2, <1>3, <1>7, <2>1 DEF P
    <2>3. t[i] = s[i]
      BY <1>1, <1>2, <1>3, <1>4, <1>5, <1>7, <2>1, <2>2
    <2>4. QED
      BY <1>3, <1>4, <1>8, <2>1, <2>2, <2>3
  <1>11. CASE ~Ahead(k) /\ ~Ahead(k - 1)
    <2>1. t[k] = s[k - 1] /\ k - 1 \in 1..Len(s) /\ P(k - 1) < e.priority
      BY <1>1, <1>2, <1>3, <1>4, <1>5, <1>7, <1>11, SMTT(60)
    <2>2. CASE Ahead(i)
      BY <1>1, <1>2, <1>3, <1>4, <1>5, <1>6, <1>7, <1>8, <2>1, <2>2, SMTT(60)
    <2>3. CASE ~Ahead(i) /\ (i = 1 \/ Ahead(i - 1))
      BY <1>1, <1>2, <1>3, <1>4, <1>7, <1>8, <2>1, <2>3
    <2>4. CASE ~Ahead(i) /\ i # 1 /\ ~Ahead(i - 1)
      <3>1. t[i] = s[i - 1] /\ i - 1 \in 1..Len(s) /\ i - 1 < k - 1
        BY <1>1, <1>2, <1>7, <2>4
      <3>2. QED
        BY <2>1, <3>1
    <2>5. QED
      BY <2>2, <2>3, <2>4
  <1>12. QED
    BY <1>9, <1>10, <1>11

-----------------------------------------------------------------------------
(***************************************************************************)
(* The inductive invariant.  TypeOK alone is not inductive: what a sending *)
(* consumer puts back or sends is an envelope because its hand is full     *)
(* exactly then, and the successor of a delivery is within the bounds      *)
(* because retry and defer were only begun within them.                    *)
(***************************************************************************)
HandInv == \A c \in Consumers : pc[c] = "send" => hand[c] \in Envelope

SuccessorInv ==
  \A d \in out : /\ d.phase = "retry" => d.env.attempt < MaxAttempts
                 /\ d.phase = "defer" => d.env.deferrals < MaxDeferrals

TypeInv == TypeOK /\ HandInv /\ SuccessorInv

-----------------------------------------------------------------------------
(***************************************************************************)
(* Type correctness.  One lemma per group of actions.                      *)
(***************************************************************************)

LEMMA InitType == Init => TypeInv
  <1> SUFFICES ASSUME Init PROVE TypeInv
    OBVIOUS
  <1>1. SharedType
    <2>1. pending \in Seq(Envelope) /\ held \in Nat
      BY DEF Init
    <2>2. QED
      BY <2>1, Zenon DEF Init, SharedType
  <1>2. ConsumerType
    <2>1. <<>> \in Seq(Envelope)
      OBVIOUS
    <2>2. chan \in [Consumers -> Seq(Envelope)] /\ unread \in [Consumers -> Seq(Envelope)]
      BY <2>1, Zenon DEF Init
    <2>3. QED
      BY <2>2 DEF Init, ConsumerType, ConsumerPc
  <1>3. CallerType /\ SuccessorInv
    BY DEF Init, CallerType, SuccessorInv
  <1>4. HandInv
    BY DEF Init, HandInv
  <1>5. QED
    BY <1>1, <1>2, <1>3, <1>4 DEF TypeInv, TypeOK

\* enqueue_now, the critical section all producers end in.
LEMMA EnqueueNowType ==
  ASSUME TypeOK, NEW e \in Envelope, NEW why \in Reasons, EnqueueNow(e, why)
  PROVE  /\ pending' \in Seq(Envelope)
         /\ signal' \subseteq Consumers
         /\ gone' \subseteq [env : Envelope, why : Reasons]
  <1>1. CASE closed /\ gone' = gone \cup {Gone(e, why)} /\ UNCHANGED <<pending, signal>>
    BY <1>1 DEF TypeOK, SharedType, CallerType, Gone
  <1>2. CASE /\ ~closed /\ pending' = InsertByPriority(pending, e)
             /\ Wake /\ UNCHANGED gone
    BY <1>2, InsertType DEF TypeOK, SharedType, CallerType, Wake, Subscribed
  <1>3. QED
    BY <1>1, <1>2 DEF EnqueueNow

LEMMA ScheduleType ==
  ASSUME TypeOK, NEW e \in Envelope, NEW delay \in {0, 1},
         Schedule(e, delay) \/ Hold(e, delay)
  PROVE  /\ pending' \in Seq(Envelope)
         /\ signal' \subseteq Consumers
         /\ gone' \subseteq [env : Envelope, why : Reasons]
         /\ timers' \subseteq Timer
         /\ held' \in Nat
  <1>1. CASE EnqueueNow(e, "refused") /\ UNCHANGED <<timers, held>>
    BY <1>1, EnqueueNowType DEF Reasons, TypeOK, SharedType, CallerType
  <1>2. CASE timers' = timers \cup {[env |-> e, hold |-> FALSE]}
             /\ UNCHANGED <<pending, signal, held, gone>>
    <2>1. [env |-> e, hold |-> FALSE] \in Timer
      BY Zenon DEF Timer
    <2>2. QED
      BY <1>2, <2>1 DEF TypeOK, SharedType, CallerType
  <1>3. CASE /\ timers' = timers \cup {[env |-> e, hold |-> TRUE]}
             /\ held' = held + 1
             /\ UNCHANGED <<pending, signal, gone>>
    <2>1. [env |-> e, hold |-> TRUE] \in Timer
      BY Zenon DEF Timer
    <2>2. timers' \subseteq Timer
      BY <1>3, <2>1, Zenon DEF TypeOK, CallerType
    <2>3. held' \in Nat
      BY <1>3 DEF TypeOK, SharedType
    <2>4. QED
      BY <1>3, <2>2, <2>3, Zenon DEF TypeOK, SharedType, CallerType
  <1>4. QED
    BY <1>1, <1>2, <1>3 DEF Schedule, Hold

LEMMA ReleaseHoldType == \A n \in Nat : ReleaseHold(n) \in Nat
  BY DEF ReleaseHold

\* Producers, timers and close keep the types.
LEMMA PublishCheckType ==
  ASSUME TypeInv, NEW j \in Jobs, NEW hold \in BOOLEAN, NEW delay \in {0, 1},
         PublishCheck(j, hold, delay)
  PROVE  TypeInv'
  <1>1. SharedType' /\ ConsumerType' /\ HandInv' /\ SuccessorInv'
    BY DEF PublishCheck, TypeInv, TypeOK, SharedType, ConsumerType, HandInv, SuccessorInv,
           sharedVars, consumerVars
  <1>2. calls' \subseteq Call
    BY NewEnvelopeType DEF PublishCheck, TypeInv, TypeOK, CallerType, Call
  <1>3. CallerType'
    BY <1>2 DEF PublishCheck, TypeInv, TypeOK, CallerType
  <1>4. QED
    BY <1>1, <1>3 DEF TypeInv, TypeOK

LEMMA PublishFinishType ==
  ASSUME TypeInv, NEW call \in calls, PublishFinish(call)
  PROVE  TypeInv'
  <1>1. call.env \in Envelope /\ call.delay \in {0, 1}
    BY DEF TypeInv, TypeOK, CallerType, Call
  <1>2. call.env.job \in Jobs
    BY <1>1 DEF Envelope
  <1>3. Schedule(call.env, call.delay) \/ Hold(call.env, call.delay)
    BY DEF PublishFinish
  <1>4. /\ pending' \in Seq(Envelope)
        /\ signal' \subseteq Consumers
        /\ gone' \subseteq [env : Envelope, why : Reasons]
        /\ timers' \subseteq Timer
        /\ held' \in Nat
    BY <1>1, <1>3, ScheduleType DEF TypeInv
  <1>5. SharedType'
    BY <1>4 DEF PublishFinish, TypeInv, TypeOK, SharedType
  <1>6. ConsumerType' /\ HandInv' /\ SuccessorInv'
    BY DEF PublishFinish, TypeInv, TypeOK, ConsumerType, HandInv, SuccessorInv, consumerVars
  <1>7. CallerType'
    BY <1>2, <1>4 DEF PublishFinish, TypeInv, TypeOK, CallerType
  <1>8. QED
    BY <1>5, <1>6, <1>7 DEF TypeInv, TypeOK

LEMMA TimerFiresType ==
  ASSUME TypeInv, NEW t \in timers, TimerFires(t)
  PROVE  TypeInv'
  <1>1. t.env \in Envelope
    BY DEF TypeInv, TypeOK, CallerType, Timer
  <1>2. EnqueueNow(t.env, "expired") /\ "expired" \in Reasons
    BY DEF TimerFires, Reasons
  <1>3. held' \in Nat
    BY ReleaseHoldType DEF TimerFires, TypeInv, TypeOK, SharedType
  <1>4. SharedType' /\ CallerType'
    BY <1>1, <1>2, <1>3, EnqueueNowType
    DEF TimerFires, TypeInv, TypeOK, SharedType, CallerType
  <1>5. ConsumerType' /\ HandInv' /\ SuccessorInv'
    BY DEF TimerFires, TypeInv, TypeOK, ConsumerType, HandInv, SuccessorInv, consumerVars
  <1>6. QED
    BY <1>4, <1>5 DEF TypeInv, TypeOK

LEMMA CloseType ==
  ASSUME TypeInv, Close
  PROVE  TypeInv'
  <1>1. SharedType'
    BY DEF Close, Wake, Subscribed, TypeInv, TypeOK, SharedType
  <1>2. ConsumerType' /\ HandInv'
    BY DEF Close, TypeInv, TypeOK, SharedType, ConsumerType, HandInv
  <1>3. CallerType' /\ SuccessorInv'
    BY DEF Close, TypeInv, TypeOK, CallerType, SuccessorInv, callerVars
  <1>4. QED
    BY <1>1, <1>2, <1>3 DEF TypeInv, TypeOK

\* Consumer tasks keep the types.
LEMMA ConsumeType ==
  ASSUME TypeInv, NEW c \in Consumers, Consume(c)
  PROVE  TypeInv'
  <1>1. Permits \in Nat
    BY MemoryAssumption DEF MemoryAssumption, Permits
  <1>2. SharedType'
    BY DEF Consume, TypeInv, TypeOK, SharedType
  <1>3. ConsumerType' /\ HandInv'
    BY <1>1, ZenonT(60) DEF Consume, TypeInv, TypeOK, ConsumerType, ConsumerPc, HandInv
  <1>4. CallerType' /\ SuccessorInv'
    BY DEF Consume, TypeInv, TypeOK, CallerType, SuccessorInv, callerVars
  <1>5. QED
    BY <1>2, <1>3, <1>4 DEF TypeInv, TypeOK

LEMMA ConsumerTaskType ==
  ASSUME TypeInv, NEW c \in Consumers, ConsumerTask(c)
  PROVE  TypeInv'
  <1>1. CallerType' /\ SuccessorInv'
    BY DEF ConsumerTask, AcquirePermit, PopFront, AwaitSignal, Send, SendFails, Unregister,
           TypeInv, TypeOK, CallerType, SuccessorInv, callerVars
  <1>2. CASE AcquirePermit(c)
    <2>1. SharedType'
      BY <1>2 DEF AcquirePermit, TypeInv, TypeOK, SharedType, sharedVars
    <2>2. ConsumerType' /\ HandInv'
      <3>1. permits' \in [Consumers -> Nat]
        BY <1>2 DEF AcquirePermit, TypeInv, TypeOK, ConsumerType
      <3>2. pc' \in [Consumers -> ConsumerPc]
        BY <1>2 DEF AcquirePermit, TypeInv, TypeOK, ConsumerType, ConsumerPc
      <3>3. /\ hand' \in [Consumers -> Envelope \cup {NoEnvelope}]
            /\ HandInv'
        BY <1>2 DEF AcquirePermit, TypeInv, TypeOK, ConsumerType, HandInv
      <3>4. QED
        BY <1>2, <3>1, <3>2, <3>3 DEF AcquirePermit, TypeInv, TypeOK, ConsumerType
    <2>3. QED
      BY <1>1, <2>1, <2>2 DEF TypeInv, TypeOK
  <1>3. CASE PopFront(c)
    <2>1. SharedType'
      BY <1>3 DEF PopFront, TypeInv, TypeOK, SharedType
    <2>2. ConsumerType' /\ HandInv'
      <3>1. permits' \in [Consumers -> Nat]
        BY <1>3 DEF PopFront, Leave, TypeInv, TypeOK, ConsumerType
      <3>2. pc' \in [Consumers -> ConsumerPc]
        BY <1>3 DEF PopFront, Leave, TypeInv, TypeOK, ConsumerType, ConsumerPc
      <3>3. /\ hand' \in [Consumers -> Envelope \cup {NoEnvelope}]
            /\ HandInv'
        <4>1. /\ hand \in [Consumers -> Envelope \cup {NoEnvelope}]
              /\ pc \in [Consumers -> ConsumerPc]
              /\ HandInv
          BY DEF TypeInv, TypeOK, ConsumerType
        <4>2. CASE hand' = hand /\ \E v \in {"ending", "wait"} : pc' = [pc EXCEPT ![c] = v]
          BY <4>1, <4>2 DEF HandInv
        <4>3. CASE /\ pending # <<>>
                   /\ hand' = [hand EXCEPT ![c] = Head(pending)]
                   /\ pc' = [pc EXCEPT ![c] = "send"]
          <5>1. Head(pending) \in Envelope
            BY <4>3 DEF TypeInv, TypeOK, SharedType
          <5>2. QED
            BY <4>1, <4>3, <5>1 DEF HandInv
        <4>4. QED
          BY <1>3, <4>2, <4>3 DEF PopFront, Leave
      <3>4. QED
        BY <1>3, <3>1, <3>2, <3>3 DEF PopFront, TypeInv, TypeOK, ConsumerType
    <2>3. QED
      BY <1>1, <2>1, <2>2 DEF TypeInv, TypeOK
  <1>4. CASE AwaitSignal(c)
    <2>1. SharedType'
      BY <1>4 DEF AwaitSignal, TypeInv, TypeOK, SharedType
    <2>2. ConsumerType' /\ HandInv'
      <3>1. permits' \in [Consumers -> Nat]
        <4>1. permits \in [Consumers -> Nat]
          BY DEF TypeInv, TypeOK, ConsumerType
        <4>2. permits' = permits \/ permits' = [permits EXCEPT ![c] = @ + 1]
          BY <1>4, Zenon DEF AwaitSignal, Leave
        <4>3. QED
          BY <4>1, <4>2
      <3>2. pc' \in [Consumers -> ConsumerPc]
        BY <1>4 DEF AwaitSignal, Leave, TypeInv, TypeOK, ConsumerType, ConsumerPc
      <3>3. /\ hand' \in [Consumers -> Envelope \cup {NoEnvelope}]
            /\ HandInv'
        BY <1>4 DEF AwaitSignal, Leave, TypeInv, TypeOK, ConsumerType, HandInv
      <3>4. QED
        BY <1>4, <3>1, <3>2, <3>3 DEF AwaitSignal, TypeInv, TypeOK, ConsumerType
    <2>3. QED
      BY <1>1, <2>1, <2>2 DEF TypeInv, TypeOK
  <1>5. CASE Send(c)
    <2>1. SharedType'
      BY <1>5 DEF Send, TypeInv, TypeOK, SharedType, sharedVars
    <2>2. hand[c] \in Envelope
      BY <1>5 DEF Send, TypeInv, HandInv
    <2>3. ConsumerType' /\ HandInv'
      BY <1>5, <2>2 DEF Send, TypeInv, TypeOK, ConsumerType, ConsumerPc, HandInv
    <2>4. QED
      BY <1>1, <2>1, <2>3 DEF TypeInv, TypeOK
  <1>6. CASE SendFails(c)
    <2>1. hand[c] \in Envelope
      BY <1>6 DEF SendFails, TypeInv, HandInv
    <2>2. SharedType'
      BY <1>6, <2>1 DEF SendFails, Wake, Subscribed, TypeInv, TypeOK, SharedType
    <2>3. ConsumerType' /\ HandInv'
      BY <1>6 DEF SendFails, Leave, TypeInv, TypeOK, ConsumerType, ConsumerPc, HandInv
    <2>4. QED
      BY <1>1, <2>2, <2>3 DEF TypeInv, TypeOK
  <1>7. CASE Unregister(c)
    <2>1. SharedType'
      BY <1>7 DEF Unregister, TypeInv, TypeOK, SharedType
    <2>2. ConsumerType' /\ HandInv'
      BY <1>7 DEF Unregister, TypeInv, TypeOK, ConsumerType, ConsumerPc, HandInv
    <2>3. QED
      BY <1>1, <2>1, <2>2 DEF TypeInv, TypeOK
  <1>8. QED
    BY <1>2, <1>3, <1>4, <1>5, <1>6, <1>7 DEF ConsumerTask

\* The stream keeps the types.
LEMMA StreamType ==
  ASSUME TypeInv, NEW c \in Consumers,
         StreamNext(c) \/ DropStream(c) \/ RequeueUnread(c)
  PROVE  TypeInv'
  <1>1. CASE StreamNext(c)
    <2>1. SharedType'
      BY <1>1 DEF StreamNext, TypeInv, TypeOK, SharedType, sharedVars
    <2>2. Head(chan[c]) \in Envelope
      BY <1>1 DEF StreamNext, TypeInv, TypeOK, ConsumerType
    <2>3. ConsumerType' /\ HandInv'
      BY <1>1 DEF StreamNext, TypeInv, TypeOK, ConsumerType, HandInv
    <2>4. CallerType' /\ SuccessorInv'
      BY <1>1, <2>2 DEF StreamNext, TypeInv, TypeOK, CallerType, Delivery, Phases, SuccessorInv
    <2>5. QED
      BY <2>1, <2>3, <2>4 DEF TypeInv, TypeOK
  <1>2. CASE DropStream(c)
    <2>1. SharedType' /\ CallerType' /\ SuccessorInv'
      BY <1>2 DEF DropStream, TypeInv, TypeOK, SharedType, CallerType, SuccessorInv,
                  sharedVars, callerVars
    <2>2. ConsumerType' /\ HandInv'
      BY <1>2 DEF DropStream, TypeInv, TypeOK, ConsumerType, HandInv
    <2>3. QED
      BY <2>1, <2>2 DEF TypeInv, TypeOK
  <1>3. CASE RequeueUnread(c)
    <2>1. unread[c] \in Seq(Envelope)
      BY DEF TypeInv, TypeOK, ConsumerType
    <2>2. SharedType'
      <3>1. pending \in Seq(Envelope) /\ unread[c] \o pending \in Seq(Envelope)
        BY <2>1 DEF TypeInv, TypeOK, SharedType
      <3>2. pending' \in Seq(Envelope)
        BY <1>3, <3>1, Zenon DEF RequeueUnread
      <3>3. signal' \subseteq Consumers
        BY <1>3 DEF RequeueUnread, Wake, Subscribed, TypeInv, TypeOK, SharedType
      <3>4. QED
        BY <1>3, <3>2, <3>3 DEF RequeueUnread, TypeInv, TypeOK, SharedType
    <2>3. ConsumerType' /\ HandInv'
      BY <1>3 DEF RequeueUnread, TypeInv, TypeOK, ConsumerType, HandInv
    <2>4. gone' \subseteq [env : Envelope, why : Reasons]
      BY <1>3, <2>1 DEF RequeueUnread, TypeInv, TypeOK, CallerType, Gone, Reasons
    <2>5. CallerType' /\ SuccessorInv'
      BY <1>3, <2>4 DEF RequeueUnread, TypeInv, TypeOK, CallerType, SuccessorInv
    <2>6. QED
      BY <2>2, <2>3, <2>5 DEF TypeInv, TypeOK
  <1>4. QED
    BY <1>1, <1>2, <1>3

\* Settling a delivery keeps the types.
LEMMA ReleaseType ==
  ASSUME TypeInv, NEW d \in out, Release(d)
  PROVE  /\ ConsumerType' /\ HandInv' /\ SuccessorInv'
         /\ out' \subseteq Delivery
  <1>1. d.consumer \in Consumers
    BY DEF TypeInv, TypeOK, CallerType, Delivery
  <1>2. permits \in [Consumers -> Nat]
    BY DEF TypeInv, TypeOK, ConsumerType
  <1>3. permits' \in [Consumers -> Nat]
    BY <1>1, <1>2 DEF Release
  <1>4. ConsumerType' /\ HandInv'
    BY <1>3 DEF Release, TypeInv, TypeOK, ConsumerType, HandInv
  <1>5. SuccessorInv' /\ out' \subseteq Delivery
    BY DEF Release, TypeInv, TypeOK, CallerType, SuccessorInv
  <1>6. QED
    BY <1>4, <1>5

LEMMA RecordAckType ==
  ASSUME TypeInv, NEW d \in out, NEW kind \in AckKinds, RecordAck(d, kind)
  PROVE  TypeInv'
  <1>1. d.env \in Envelope
    BY DEF TypeInv, TypeOK, CallerType, Delivery
  <1>2. settled' \subseteq [env : Envelope, kind : AckKinds]
    BY <1>1 DEF RecordAck, TypeInv, TypeOK, SharedType
  <1>3. SharedType'
    BY <1>2 DEF RecordAck, TypeInv, TypeOK, SharedType
  <1>4. Release(d)
    BY DEF RecordAck
  <1>5. CallerType'
    BY <1>4, ReleaseType DEF RecordAck, TypeInv, TypeOK, CallerType
  <1>6. QED
    BY <1>3, <1>4, <1>5, ReleaseType DEF TypeInv, TypeOK

LEMMA ForgetType ==
  ASSUME TypeInv, NEW d \in out, NEW why \in Reasons, Forget(d, why)
  PROVE  TypeInv'
  <1>1. d.env \in Envelope
    BY DEF TypeInv, TypeOK, CallerType, Delivery
  <1>2. SharedType'
    BY DEF Forget, TypeInv, TypeOK, SharedType, sharedVars
  <1>3. Release(d)
    BY DEF Forget
  <1>4. gone' \subseteq [env : Envelope, why : Reasons]
    BY <1>1 DEF Forget, Gone, TypeInv, TypeOK, CallerType
  <1>5. CallerType'
    BY <1>3, <1>4, ReleaseType DEF Forget, TypeInv, TypeOK, CallerType
  <1>6. QED
    BY <1>2, <1>3, <1>5, ReleaseType DEF TypeInv, TypeOK

LEMMA AdvanceType ==
  ASSUME TypeInv, NEW d \in out, NEW phase \in Phases, NEW delay \in {0, 1},
         phase = "retry" => d.env.attempt < MaxAttempts,
         phase = "defer" => d.env.deferrals < MaxDeferrals,
         Advance(d, phase, delay)
  PROVE  out' \subseteq Delivery /\ SuccessorInv'
  <1> DEFINE n == [d EXCEPT !.phase = phase, !.delay = delay]
  <1>1. d \in Delivery
    BY DEF TypeInv, TypeOK, CallerType
  <1>2. n \in Delivery /\ n.env = d.env /\ n.phase = phase
    BY <1>1 DEF Delivery
  <1>3. out' = (out \ {d}) \cup {n}
    BY DEF Advance
  <1> HIDE DEF n
  <1>4. QED
    BY <1>2, <1>3 DEF TypeInv, TypeOK, CallerType, SuccessorInv

LEMMA SettleCheckType ==
  ASSUME TypeInv, NEW d \in out, NEW phase \in Phases, NEW delay \in {0, 1},
         phase = "retry" => d.env.attempt < MaxAttempts,
         phase = "defer" => d.env.deferrals < MaxDeferrals,
         SettleCheck(d, phase, delay)
  PROVE  TypeInv'
  <1>1. CASE Forget(d, "shutdown")
    BY <1>1, ForgetType DEF Reasons
  <1>2. CASE /\ Advance(d, phase, delay)
             /\ UNCHANGED <<calls, timers, accepted, gone>>
             /\ UNCHANGED <<sharedVars, consumerVars>>
    <2>1. out' \subseteq Delivery /\ SuccessorInv'
      BY <1>2, AdvanceType
    <2>2. SharedType' /\ ConsumerType' /\ HandInv'
      BY <1>2 DEF sharedVars, consumerVars, TypeInv, TypeOK, SharedType, ConsumerType, HandInv
    <2>3. CallerType'
      BY <1>2, <2>1 DEF TypeInv, TypeOK, CallerType
    <2>4. QED
      BY <2>1, <2>2, <2>3 DEF TypeInv, TypeOK
  <1>3. QED
    BY <1>1, <1>2 DEF SettleCheck

LEMMA SettleOnType ==
  ASSUME TypeInv, NEW d \in out, RetrySchedule(d) \/ DeferHold(d)
  PROVE  TypeInv'
  <1>1. d.env \in Envelope /\ d.delay \in {0, 1}
    BY DEF TypeInv, TypeOK, CallerType, Delivery
  <1>2. PICK e \in Envelope : Schedule(e, d.delay) \/ Hold(e, d.delay)
    <2>1. CASE RetrySchedule(d)
      <3>1. NextAttempt(d.env) \in Envelope
        BY <1>1, <2>1, NextAttemptType DEF RetrySchedule, TypeInv, SuccessorInv
      <3>2. QED
        BY <2>1, <3>1 DEF RetrySchedule
    <2>2. CASE DeferHold(d)
      <3>1. Deferred(d.env) \in Envelope
        BY <1>1, <2>2, DeferredType DEF DeferHold, TypeInv, SuccessorInv
      <3>2. QED
        BY <2>2, <3>1 DEF DeferHold
    <2>3. QED
      BY <2>1, <2>2
  <1>3. /\ pending' \in Seq(Envelope)
        /\ signal' \subseteq Consumers
        /\ gone' \subseteq [env : Envelope, why : Reasons]
        /\ timers' \subseteq Timer
        /\ held' \in Nat
    BY <1>1, <1>2, ScheduleType DEF TypeInv
  <1>4. out' \subseteq Delivery /\ SuccessorInv'
    <2>1. Advance(d, "retried", 0) \/ Advance(d, "deferred", 0)
      BY DEF RetrySchedule, DeferHold
    <2>2. QED
      BY <2>1, AdvanceType DEF Phases
  <1>5. /\ UNCHANGED <<closed, settled, dead, consumers, calls, accepted>>
        /\ UNCHANGED consumerVars
    BY DEF RetrySchedule, DeferHold
  <1>6. SharedType' /\ CallerType'
    BY <1>3, <1>4, <1>5 DEF TypeInv, TypeOK, SharedType, CallerType
  <1>7. ConsumerType' /\ HandInv'
    BY <1>5 DEF TypeInv, TypeOK, ConsumerType, HandInv, consumerVars
  <1>8. QED
    BY <1>4, <1>6, <1>7 DEF TypeInv, TypeOK

LEMMA DeliveryType ==
  ASSUME TypeInv, NEW d \in out, Settle(d) \/ DropDelivery(d) \/ SettleOn(d)
  PROVE  TypeInv'
  <1>1. CASE Ack(d)
    BY <1>1, RecordAckType DEF Ack, AckKinds
  <1>2. CASE DeadLetter(d)
    <2>1. CASE Forget(d, "shutdown")
      BY <2>1, ForgetType DEF Reasons
    <2>2. CASE /\ dead' = dead \cup {d.env}
               /\ Release(d)
               /\ UNCHANGED <<closed, pending, settled, consumers, held, signal>>
               /\ UNCHANGED <<calls, timers, accepted, gone>>
      <3>1. d.env \in Envelope
        BY DEF TypeInv, TypeOK, CallerType, Delivery
      <3>2. SharedType'
        BY <2>2, <3>1 DEF TypeInv, TypeOK, SharedType
      <3>3. CallerType'
        BY <2>2, ReleaseType DEF TypeInv, TypeOK, CallerType
      <3>4. QED
        BY <2>2, <3>2, <3>3, ReleaseType DEF TypeInv, TypeOK
    <2>3. QED
      BY <1>2, <2>1, <2>2 DEF DeadLetter
  <1>3. CASE \E delay \in {0, 1} : RetryCheck(d, delay) \/ DeferCheck(d, delay)
    BY <1>3, SettleCheckType DEF RetryCheck, DeferCheck, Phases
  <1>4. CASE DropDelivery(d)
    BY <1>4, ForgetType DEF DropDelivery, Reasons
  <1>5. CASE SettleAck(d)
    BY <1>5, RecordAckType DEF SettleAck, AckKinds
  <1>6. CASE RetrySchedule(d) \/ DeferHold(d)
    BY <1>6, SettleOnType
  <1>7. QED
    BY <1>1, <1>2, <1>3, <1>4, <1>5, <1>6 DEF Settle, SettleOn

LEMMA StutterType == TypeInv /\ UNCHANGED vars => TypeInv'
  BY DEF vars, sharedVars, consumerVars, callerVars, TypeInv, TypeOK, SharedType,
         ConsumerType, CallerType, HandInv, SuccessorInv

LEMMA TypeInvariant == Spec => []TypeInv
  <1>1. TypeInv /\ [Next]_vars => TypeInv'
    <2> SUFFICES ASSUME TypeInv, [Next]_vars PROVE TypeInv'
      OBVIOUS
    <2>1. CASE Next
      BY <2>1, PublishCheckType, PublishFinishType, TimerFiresType, CloseType, ConsumeType,
         ConsumerTaskType, StreamType, DeliveryType DEF Next
    <2>2. CASE UNCHANGED vars
      BY <2>2, StutterType
    <2>3. QED
      BY <2>1, <2>2
  <1>2. QED
    BY <1>1, InitType, PTL DEF Spec

\* The memory backend never leaves its types, whatever the constants: in
\* particular the permits of a prefetch semaphore never go below zero, and what a
\* consumer sends or puts back is always a message.
THEOREM TypeCorrect == Spec => []TypeOK
  <1>1. TypeInv => TypeOK
    BY DEF TypeInv
  <1>2. QED
    BY <1>1, TypeInvariant, PTL

-----------------------------------------------------------------------------
(***************************************************************************)
(* No lost wakeup.  A consumer that goes to sleep has just seen an empty,  *)
(* open queue under the lock; whatever ends that also wakes every          *)
(* subscribed consumer in the same critical section; and only the consumer *)
(* itself marks its signal seen, on its way back to the lock.              *)
(***************************************************************************)

\* A step that wakes and moves no consumer to sleep leaves nobody asleep.
LEMMA WakeWakes ==
  ASSUME TypeInv, Wake,
         \A c \in Consumers : pc'[c] = "wait" => pc[c] = "wait"
  PROVE  NoLostWakeup'
  BY DEF TypeInv, TypeOK, ConsumerType, Wake, Subscribed, NoLostWakeup

\* A step that leaves queue, flag and signals alone puts nobody to sleep wrongly.
LEMMA QuietStep ==
  ASSUME NoLostWakeup, UNCHANGED <<closed, pending, signal>>,
         \A c \in Consumers : pc'[c] = "wait" => pc[c] = "wait"
  PROVE  NoLostWakeup'
  BY DEF NoLostWakeup

LEMMA EnqueueNowWakes ==
  ASSUME TypeInv, NoLostWakeup, NEW e, NEW why, EnqueueNow(e, why),
         UNCHANGED <<closed, pc>>
  PROVE  NoLostWakeup'
  BY WakeWakes, QuietStep DEF EnqueueNow

LEMMA ScheduleWakes ==
  ASSUME TypeInv, NoLostWakeup, NEW e, NEW delay, Schedule(e, delay) \/ Hold(e, delay),
         UNCHANGED <<closed, pc>>
  PROVE  NoLostWakeup'
  BY EnqueueNowWakes, QuietStep DEF Schedule, Hold

LEMMA WakeupConsumer ==
  ASSUME TypeInv, NoLostWakeup, NEW c \in Consumers, Consume(c) \/ ConsumerTask(c)
  PROVE  NoLostWakeup'
  <1> USE DEF TypeInv, TypeOK, ConsumerType
  <1>1. CASE Consume(c)
    BY <1>1, QuietStep DEF Consume
  <1>2. CASE AcquirePermit(c)
    BY <1>2, QuietStep DEF AcquirePermit, sharedVars
  <1>3. CASE PopFront(c)
    BY <1>3 DEF PopFront, Leave, NoLostWakeup
  <1>4. CASE AwaitSignal(c)
    BY <1>4 DEF AwaitSignal, Leave, NoLostWakeup
  <1>5. CASE Send(c)
    BY <1>5, QuietStep DEF Send, sharedVars
  <1>6. CASE SendFails(c)
    BY <1>6, WakeWakes DEF SendFails, Leave
  <1>7. CASE Unregister(c)
    BY <1>7, QuietStep DEF Unregister
  <1>8. QED
    BY <1>1, <1>2, <1>3, <1>4, <1>5, <1>6, <1>7 DEF ConsumerTask

LEMMA WakeupDelivery ==
  ASSUME TypeInv, NoLostWakeup, NEW d \in out,
         Settle(d) \/ DropDelivery(d) \/ SettleOn(d)
  PROVE  NoLostWakeup'
  <1>1. CASE RetrySchedule(d) \/ DeferHold(d)
    BY <1>1, ScheduleWakes DEF RetrySchedule, DeferHold, consumerVars
  <1>2. CASE UNCHANGED <<closed, pending, signal, pc>>
    BY <1>2, QuietStep
  <1>3. QED
    BY <1>1, <1>2 DEF Settle, SettleOn, Ack, DeadLetter, DropDelivery, RetryCheck, DeferCheck,
       SettleCheck, SettleAck, RecordAck, Forget, Release, sharedVars, consumerVars

\* "No wakeup can be lost here": for any number of consumers, producers, timers and
\* settling deliveries, a consumer of the memory backend only sleeps without a
\* notification while its queue is empty and the backend open.
THEOREM WakeupsArrive == Spec => []NoLostWakeup
  <1>1. Init => NoLostWakeup
    BY DEF Init, NoLostWakeup
  <1>2. TypeInv /\ NoLostWakeup /\ [Next]_vars => NoLostWakeup'
    <2> SUFFICES ASSUME TypeInv, NoLostWakeup, [Next]_vars PROVE NoLostWakeup'
      OBVIOUS
    <2>1. CASE \E j \in Jobs, hold \in BOOLEAN, delay \in {0, 1} : PublishCheck(j, hold, delay)
      BY <2>1, QuietStep DEF PublishCheck, sharedVars, consumerVars
    <2>2. CASE \E call \in calls : PublishFinish(call)
      BY <2>2, ScheduleWakes DEF PublishFinish, consumerVars
    <2>3. CASE \E t \in timers : TimerFires(t)
      BY <2>3, EnqueueNowWakes DEF TimerFires, consumerVars
    <2>4. CASE Close
      BY <2>4, WakeWakes DEF Close
    <2>5. CASE \E c \in Consumers : Consume(c) \/ ConsumerTask(c)
      BY <2>5, WakeupConsumer
    <2>6. CASE \E c \in Consumers : StreamNext(c) \/ DropStream(c)
      BY <2>6, QuietStep DEF StreamNext, DropStream, sharedVars
    <2>7. CASE \E c \in Consumers : RequeueUnread(c)
      BY <2>7, WakeWakes, QuietStep DEF RequeueUnread
    <2>8. CASE \E d \in out : Settle(d) \/ DropDelivery(d) \/ SettleOn(d)
      BY <2>8, WakeupDelivery
    <2>9. CASE UNCHANGED vars
      BY <2>9, QuietStep DEF vars, sharedVars, consumerVars
    <2>10. QED
      BY <2>1, <2>2, <2>3, <2>4, <2>5, <2>6, <2>7, <2>8, <2>9 DEF Next
  <1>3. QED
    BY <1>1, <1>2, TypeInvariant, PTL DEF Spec

-----------------------------------------------------------------------------
(***************************************************************************)
(* Jobs in a queue: a sequence of envelopes has a job, and has it once.    *)
(***************************************************************************)
InSeq(s, j) == \E i \in DOMAIN s : s[i].job = j
Once(s) == \A i, k \in DOMAIN s : s[i].job = s[k].job => i = k

LEMMA LeastNatural ==
  ASSUME NEW T \in SUBSET Nat, T # {}
  PROVE  \E m \in T : \A n \in T : m <= n
<1> DEFINE R == {r \in Nat \X Nat : r[1] < r[2]}
<1>1. OpToRel(<, Nat) = R
  BY DEF OpToRel
<1>2. IsWellFoundedOn(R, Nat)
  BY <1>1, NatLessThanWellFounded
<1>3. PICK m \in T : \A n \in T : ~(<<n, m>> \in R)
  BY <1>2, WFMin
<1>4. ASSUME NEW n \in T PROVE m <= n
  <2>1. ~(<<n, m>> \in R)
    BY <1>3
  <2>2. ~(n < m)
    BY <2>1
  <2>3. QED
    BY <2>2
<1>5. QED
  BY <1>4

LEMMA EmptySeq == Once(<<>>) /\ \A j : ~InSeq(<<>>, j)
BY DEF Once, InSeq

LEMMA JobsOfSeq ==
  ASSUME NEW s \in Seq(Envelope), NEW j, InSeq(s, j)
  PROVE  j \in Jobs
<1>1. PICK i \in DOMAIN s : s[i].job = j
  BY DEF InSeq
<1>2. s[i] \in Envelope
  OBVIOUS
<1>3. QED
  BY <1>1, <1>2 DEF Envelope

\* insert_by_priority has one place for e, and shifts what is behind it.
LEMMA InsertPlace ==
  ASSUME NEW s \in Seq(Envelope), NEW e \in Envelope
  PROVE  \E p \in 1..(Len(s) + 1) :
           LET t == InsertByPriority(s, e)
           IN  /\ DOMAIN t = 1..(Len(s) + 1) /\ t[p] = e
               /\ \A i \in DOMAIN t : (i < p => t[i] = s[i]) /\ (i > p => t[i] = s[i - 1])
<1> DEFINE t == InsertByPriority(s, e)
           Ahead(i) == \E k \in i..Len(s) : s[k].priority >= e.priority
           T == {i \in 1..(Len(s) + 1) : ~Ahead(i)}
<1>1. t = [i \in 1..(Len(s) + 1) |->
             IF Ahead(i) THEN s[i]
             ELSE IF i = 1 \/ Ahead(i - 1) THEN e ELSE s[i - 1]]
  BY DEF InsertByPriority
<1>2. Len(s) \in Nat
  OBVIOUS
<1>3. Len(s) + 1 \in T /\ T \subseteq Nat
  BY <1>2
<1>4. PICK p \in T : \A i \in T : p <= i
  BY <1>3, LeastNatural
<1>5. \A i \in 1..(Len(s) + 1) : i < p <=> Ahead(i)
  <2> SUFFICES ASSUME NEW i \in 1..(Len(s) + 1) PROVE i < p <=> Ahead(i)
    OBVIOUS
  <2>1. ASSUME i < p PROVE Ahead(i)
    BY <1>2, <1>4, <2>1
  <2>2. ASSUME Ahead(i), ~(i < p) PROVE FALSE
    <3>1. PICK k \in i..Len(s) : s[k].priority >= e.priority
      BY <2>2
    <3>2. k \in p..Len(s)
      BY <1>2, <2>2, <3>1
    <3>3. Ahead(p)
      BY <3>1, <3>2
    <3>4. QED
      BY <1>4, <3>3
  <2>3. QED
    BY <2>1, <2>2
<1>6. p \in 1..(Len(s) + 1)
  BY <1>4
<1> HIDE DEF Ahead, t, T
<1>7. DOMAIN t = 1..(Len(s) + 1)
  BY <1>1
<1>8. t[p] = e
  BY <1>1, <1>2, <1>5, <1>6
<1>9. ASSUME NEW i \in DOMAIN t
      PROVE  (i < p => t[i] = s[i]) /\ (i > p => t[i] = s[i - 1])
  BY <1>1, <1>2, <1>5, <1>6, <1>7, <1>9
<1>10. QED
  BY <1>6, <1>7, <1>8, <1>9 DEF t

\* One more envelope, whose job was not there, wherever it goes in.
LEMMA InsertOne ==
  ASSUME NEW s, NEW n \in Nat, DOMAIN s = 1..n,
         NEW t, NEW p \in 1..(n + 1), NEW e,
         DOMAIN t = 1..(n + 1), t[p] = e,
         \A i \in DOMAIN t : (i < p => t[i] = s[i]) /\ (i > p => t[i] = s[i - 1])
  PROVE  /\ \A j : InSeq(t, j) <=> InSeq(s, j) \/ j = e.job
         /\ Once(s) /\ ~InSeq(s, e.job) => Once(t)
<1>1. ASSUME NEW j, InSeq(t, j) PROVE InSeq(s, j) \/ j = e.job
  BY <1>1 DEF InSeq
<1>2. ASSUME NEW j, InSeq(s, j) PROVE InSeq(t, j)
  <2>1. PICK i \in 1..n : s[i].job = j
    BY <1>2 DEF InSeq
  <2>2. CASE i < p
    <3>1. i \in DOMAIN t
      OBVIOUS
    <3>2. t[i] = s[i]
      BY <2>2, <3>1
    <3>3. QED
      BY <2>1, <3>1, <3>2 DEF InSeq
  <2>3. CASE ~(i < p)
    <3>1. i + 1 \in DOMAIN t /\ i + 1 > p /\ (i + 1) - 1 = i
      BY <2>3
    <3>2. t[i + 1] = s[i]
      BY <3>1
    <3>3. QED
      BY <2>1, <3>1, <3>2 DEF InSeq
  <2>4. QED
    BY <2>2, <2>3
<1>3. InSeq(t, e.job)
  BY DEF InSeq
<1>4. ASSUME Once(s), ~InSeq(s, e.job) PROVE Once(t)
  <2> SUFFICES ASSUME NEW i \in 1..(n + 1), NEW k \in 1..(n + 1), t[i].job = t[k].job
               PROVE  i = k
    BY DEF Once
  <2> DEFINE f(x) == IF x < p THEN x ELSE x - 1
  <2>1. \A x \in 1..(n + 1) : x # p => f(x) \in 1..n /\ t[x] = s[f(x)]
    BY SMTT(60)
  <2>2. \A x \in 1..(n + 1) : x # p => t[x].job # e.job
    BY <1>4, <2>1, ZenonT(60) DEF InSeq
  <2>3. CASE i = p \/ k = p
    BY <2>2, <2>3
  <2>4. CASE i # p /\ k # p
    <3>1. f(i) \in 1..n /\ f(k) \in 1..n /\ s[f(i)].job = s[f(k)].job
      BY <2>1, <2>4
    <3>2. f(i) = f(k)
      BY <1>4, <3>1 DEF Once
    <3>3. QED
      BY <2>4, <3>2
  <2>5. QED
    BY <2>3, <2>4
<1>5. QED
  BY <1>1, <1>2, <1>3, <1>4

LEMMA InsertSeq ==
  ASSUME NEW s \in Seq(Envelope), NEW e \in Envelope
  PROVE  /\ \A j : InSeq(InsertByPriority(s, e), j) <=> InSeq(s, j) \/ j = e.job
         /\ Once(s) /\ ~InSeq(s, e.job) => Once(InsertByPriority(s, e))
<1> DEFINE t == InsertByPriority(s, e)
           n == Len(s)
<1>1. PICK p \in 1..(n + 1) :
        /\ DOMAIN t = 1..(n + 1) /\ t[p] = e
        /\ \A i \in DOMAIN t : (i < p => t[i] = s[i]) /\ (i > p => t[i] = s[i - 1])
  BY InsertPlace
<1>2. n \in Nat /\ DOMAIN s = 1..n
  OBVIOUS
<1> HIDE DEF t, n
<1>3. DOMAIN t = 1..(n + 1) /\ t[p] = e
  BY <1>1
<1>4. \A i \in DOMAIN t : (i < p => t[i] = s[i]) /\ (i > p => t[i] = s[i - 1])
  BY <1>1
<1>5. p \in 1..(n + 1)
  BY <1>1
<1>6. /\ \A j : InSeq(t, j) <=> InSeq(s, j) \/ j = e.job
      /\ Once(s) /\ ~InSeq(s, e.job) => Once(t)
  BY <1>2, <1>3, <1>4, <1>5, InsertOne
<1>7. QED
  BY <1>6 DEF t

LEMMA AppendSeq ==
  ASSUME NEW s \in Seq(Envelope), NEW e \in Envelope
  PROVE  /\ \A j : InSeq(Append(s, e), j) <=> InSeq(s, j) \/ j = e.job
         /\ Once(s) /\ ~InSeq(s, e.job) => Once(Append(s, e))
<1> DEFINE t == Append(s, e)
<1>1. Len(s) \in Nat /\ DOMAIN s = 1..Len(s) /\ DOMAIN t = 1..(Len(s) + 1)
  OBVIOUS
<1>2. t[Len(s) + 1] = e /\ \A i \in 1..Len(s) : t[i] = s[i]
  OBVIOUS
<1> HIDE DEF t
<1>3. \A i \in DOMAIN t : (i < Len(s) + 1 => t[i] = s[i]) /\ (i > Len(s) + 1 => t[i] = s[i - 1])
  BY <1>1, <1>2
<1>4. Len(s) + 1 \in 1..(Len(s) + 1)
  BY <1>1
<1>5. /\ \A j : InSeq(t, j) <=> InSeq(s, j) \/ j = e.job
      /\ Once(s) /\ ~InSeq(s, e.job) => Once(t)
  BY <1>1, <1>2, <1>3, <1>4, InsertOne
<1>6. QED
  BY <1>5 DEF t

LEMMA ConcatSeq ==
  ASSUME NEW r \in Seq(Envelope), NEW s \in Seq(Envelope)
  PROVE  /\ \A j : InSeq(r \o s, j) <=> InSeq(r, j) \/ InSeq(s, j)
         /\ Once(r) /\ Once(s) /\ (\A j : ~(InSeq(r, j) /\ InSeq(s, j))) => Once(r \o s)
<1> DEFINE t == r \o s
           m == Len(r)
           n == Len(s)
<1>1. m \in Nat /\ n \in Nat /\ DOMAIN r = 1..m /\ DOMAIN s = 1..n
  OBVIOUS
<1>2. /\ DOMAIN t = 1..(m + n)
      /\ \A i \in 1..(m + n) : t[i] = IF i <= m THEN r[i] ELSE s[i - m]
  OBVIOUS
<1> HIDE DEF t, m, n
<1>3. ASSUME NEW i \in 1..n PROVE i + m \in 1..(m + n) /\ t[i + m] = s[i]
  <2>1. i + m \in 1..(m + n) /\ ~(i + m <= m) /\ (i + m) - m = i
    BY <1>1
  <2>2. QED
    BY <1>2, <2>1
<1>4. \A i \in 1..m : i \in 1..(m + n) /\ t[i] = r[i]
  BY <1>1, <1>2
<1>5. \A i \in 1..(m + n) : \/ i \in 1..m /\ t[i] = r[i]
                            \/ i - m \in 1..n /\ t[i] = s[i - m]
  BY <1>1, <1>2
<1>6. ASSUME NEW j PROVE InSeq(t, j) <=> InSeq(r, j) \/ InSeq(s, j)
  <2>1. InSeq(t, j) => InSeq(r, j) \/ InSeq(s, j)
    BY <1>1, <1>2, <1>5 DEF InSeq
  <2>2. InSeq(r, j) => InSeq(t, j)
    BY <1>1, <1>2, <1>4 DEF InSeq
  <2>3. InSeq(s, j) => InSeq(t, j)
    BY <1>1, <1>2, <1>3 DEF InSeq
  <2>4. QED
    BY <2>1, <2>2, <2>3
<1>7. ASSUME Once(r), Once(s), \A j : ~(InSeq(r, j) /\ InSeq(s, j)) PROVE Once(t)
  <2> SUFFICES ASSUME NEW i \in 1..(m + n), NEW k \in 1..(m + n), t[i].job = t[k].job
               PROVE  i = k
    BY <1>2 DEF Once
  <2>1. CASE i \in 1..m /\ k \in 1..m
    BY <1>1, <1>4, <1>7, <2>1 DEF Once
  <2>2. CASE i - m \in 1..n /\ k - m \in 1..n /\ t[i] = s[i - m] /\ t[k] = s[k - m]
    <3>1. i - m = k - m
      BY <1>1, <1>7, <2>2 DEF Once
    <3>2. QED
      BY <1>1, <3>1
  <2>3. ASSUME NEW x \in 1..m, NEW y \in 1..n PROVE r[x].job # s[y].job
    BY <1>1, <1>7 DEF InSeq
  <2>4. QED
    BY <1>5, <2>1, <2>2, <2>3
<1>8. QED
  BY <1>6, <1>7 DEF t

LEMMA TailSeq ==
  ASSUME NEW s \in Seq(Envelope), s # <<>>, Once(s)
  PROVE  /\ Head(s) \in Envelope /\ InSeq(s, Head(s).job) /\ Once(Tail(s))
         /\ \A j : InSeq(Tail(s), j) <=> InSeq(s, j) /\ j # Head(s).job
<1> DEFINE t == Tail(s)
           n == Len(s)
<1>1. n \in Nat \ {0} /\ DOMAIN s = 1..n /\ DOMAIN t = 1..(n - 1) /\ Head(s) = s[1]
  OBVIOUS
<1>2. \A i \in 1..(n - 1) : t[i] = s[i + 1]
  OBVIOUS
<1>3. Head(s) \in Envelope
  OBVIOUS
<1> HIDE DEF t, n
<1>4. InSeq(s, Head(s).job)
  BY <1>1 DEF InSeq
<1>5. Once(t)
  <2> SUFFICES ASSUME NEW i \in 1..(n - 1), NEW k \in 1..(n - 1), t[i].job = t[k].job
               PROVE  i = k
    BY <1>1 DEF Once
  <2>1. i + 1 \in 1..n /\ k + 1 \in 1..n /\ t[i] = s[i + 1] /\ t[k] = s[k + 1]
    BY <1>1, <1>2
  <2>2. i + 1 = k + 1
    BY <1>1, <2>1 DEF Once
  <2>3. QED
    BY <1>1, <2>2
<1>6. ASSUME NEW j, InSeq(t, j) PROVE InSeq(s, j) /\ j # Head(s).job
  <2>1. PICK i \in 1..(n - 1) : t[i].job = j
    BY <1>1, <1>6 DEF InSeq
  <2>2. i + 1 \in 1..n /\ i + 1 # 1 /\ s[i + 1].job = j /\ 1 \in 1..n
    BY <1>1, <1>2, <2>1
  <2>3. QED
    BY <1>1, <2>2 DEF InSeq, Once
<1>7. ASSUME NEW j, InSeq(s, j), j # Head(s).job PROVE InSeq(t, j)
  <2>1. PICK i \in 1..n : s[i].job = j
    BY <1>1, <1>7 DEF InSeq
  <2>2. i # 1
    BY <1>1, <1>7, <2>1
  <2>3. i - 1 \in 1..(n - 1) /\ (i - 1) + 1 = i
    BY <1>1, <2>2
  <2>4. QED
    BY <1>1, <1>2, <2>1, <2>3 DEF InSeq
<1>8. QED
  BY <1>3, <1>4, <1>5, <1>6, <1>7 DEF t

-----------------------------------------------------------------------------
(***************************************************************************)
(* Where a job is: coarser than Runnable, which also says where in a       *)
(* sequence.  At most one place has it, and a sequence has it once.        *)
(***************************************************************************)
Running == {"held", "retry", "defer"}

Queued == <<"pending", 0>>

AtPending(x, j) == x = Queued /\ InSeq(pending, j)
AtHand(x, j) ==
  \E c \in Consumers : x = <<"hand", c>> /\ hand[c] # NoEnvelope /\ hand[c].job = j
AtChan(x, j) == \E c \in Consumers : x = <<"chan", c>> /\ InSeq(chan[c], j)
AtUnread(x, j) == \E c \in Consumers : x = <<"unread", c>> /\ InSeq(unread[c], j)
AtCall(x, j) == \E y \in calls : x = <<"call", y>> /\ y.env.job = j
AtTimer(x, j) == \E t \in timers : x = <<"timer", t>> /\ t.env.job = j
AtOut(x, j) == \E d \in out : x = <<"out", d>> /\ d.env.job = j /\ d.phase \in Running

At(x, j) ==
  \/ AtPending(x, j) \/ AtHand(x, j) \/ AtChan(x, j) \/ AtUnread(x, j)
  \/ AtCall(x, j) \/ AtTimer(x, j) \/ AtOut(x, j)

Somewhere(j) == \E x : At(x, j)

OncePlaced ==
  /\ Once(pending)
  /\ \A c \in Consumers : Once(chan[c]) /\ Once(unread[c])

OnePlace == \A j \in Jobs : \A x, y : At(x, j) /\ At(y, j) => x = y

\* A job that is finished, or was never submitted, is nowhere.
GoneFor(j) == \E g \in gone : g.env.job = j

NowhereInv ==
  \A j \in Jobs : /\ Finished(j) => ~Somewhere(j)
                  /\ Somewhere(j) \/ Finished(j) \/ GoneFor(j) => j \in Submitted

\* A job that left without being finished left for a reason NoJobLost allows.
Excused(j) == \E g \in gone : g.env.job = j /\ (closed \/ g.why = "unsettled")

LostInv == \A j \in accepted : Somewhere(j) \/ Finished(j) \/ Excused(j)

\* Consumers hold an envelope only between popping and sending it, and nothing is
\* drained from a stream that is still open.
IdleInv ==
  \A c \in Consumers : /\ pc[c] # "send" => hand[c] = NoEnvelope
                       /\ rx[c] = "open" => unread[c] = <<>>
                       /\ pc[c] = "none" => rx[c] = "none"
                       /\ rx[c] = "none" => unread[c] = <<>>

-----------------------------------------------------------------------------
(***************************************************************************)
(* Jobs in J go from place a to place b, or from place a away.             *)
(***************************************************************************)
Moves(J, a, b) ==
  \A j \in Jobs : \A x : At(x, j)' <=> (At(x, j) /\ ~(x = a /\ j \in J)) \/ (x = b /\ j \in J)

Leaves(J, a) ==
  \A j \in Jobs : \A x : At(x, j)' <=> At(x, j) /\ ~(x = a /\ j \in J)

LEMMA MovedOnce ==
  ASSUME OnePlace, NEW J, NEW a, NEW b, Moves(J, a, b),
         \A j \in J : At(a, j) \/ ~Somewhere(j)
  PROVE  OnePlace' /\ \A j \in Jobs : Somewhere(j)' <=> Somewhere(j) \/ j \in J
<1>1. \A j \in Jobs : \A x : At(x, j)' <=> IF j \in J THEN x = b ELSE At(x, j)
  BY DEF Moves, OnePlace, Somewhere
<1>2. OnePlace'
  BY <1>1 DEF OnePlace
<1>3. \A j \in Jobs : Somewhere(j)' <=> Somewhere(j) \/ j \in J
  BY <1>1 DEF Somewhere
<1>4. QED
  BY <1>2, <1>3

LEMMA LeftOnce ==
  ASSUME OnePlace, NEW J, NEW a, Leaves(J, a), \A j \in J : At(a, j)
  PROVE  OnePlace' /\ \A j \in Jobs : Somewhere(j)' <=> Somewhere(j) /\ j \notin J
<1>1. \A j \in Jobs : \A x : At(x, j)' <=> j \notin J /\ At(x, j)
  BY DEF Leaves, OnePlace
<1>2. OnePlace'
  BY <1>1 DEF OnePlace
<1>3. \A j \in Jobs : Somewhere(j)' <=> Somewhere(j) /\ j \notin J
  BY <1>1 DEF Somewhere
<1>4. QED
  BY <1>2, <1>3

\* What may become of a job: it is where it was or elsewhere, it left for a reason,
\* or it was just submitted.
Outcome(j) ==
  \/ /\ Somewhere(j)' <=> Somewhere(j)
     /\ Finished(j)' <=> Finished(j)
     /\ GoneFor(j)' <=> GoneFor(j)
     /\ j \in accepted' => j \in accepted \/ Somewhere(j)
  \/ Somewhere(j) /\ ~Somewhere(j)' /\ (Finished(j)' \/ Excused(j)')
  \/ /\ j \notin Submitted /\ j \in Submitted' /\ j \notin accepted'
     /\ Somewhere(j)' /\ (Finished(j)' <=> Finished(j))

LEMMA OutcomeKeeps ==
  ASSUME NowhereInv, LostInv, accepted' \subseteq Jobs,
         Submitted \subseteq Submitted', gone \subseteq gone', closed => closed',
         \A j \in Jobs : Outcome(j)
  PROVE  NowhereInv' /\ LostInv'
<1>1. NowhereInv'
  BY DEF NowhereInv, Outcome
<1>2. \A j \in Jobs : Excused(j) => Excused(j)'
  BY DEF Excused
<1>3. LostInv'
  BY <1>2 DEF LostInv, Outcome
<1>4. QED
  BY <1>1, <1>3

-----------------------------------------------------------------------------
(***************************************************************************)
(* What each kind of place gains and loses.                                *)
(***************************************************************************)
LEMMA SamePlaces ==
  /\ UNCHANGED pending => \A x, j : AtPending(x, j)' <=> AtPending(x, j)
  /\ UNCHANGED hand => \A x, j : AtHand(x, j)' <=> AtHand(x, j)
  /\ UNCHANGED chan => \A x, j : AtChan(x, j)' <=> AtChan(x, j)
  /\ UNCHANGED unread => \A x, j : AtUnread(x, j)' <=> AtUnread(x, j)
  /\ UNCHANGED calls => \A x, j : AtCall(x, j)' <=> AtCall(x, j)
  /\ UNCHANGED timers => \A x, j : AtTimer(x, j)' <=> AtTimer(x, j)
  /\ UNCHANGED out => \A x, j : AtOut(x, j)' <=> AtOut(x, j)
BY DEF AtPending, AtHand, AtChan, AtUnread, AtCall, AtTimer, AtOut

LEMMA PlaceTags ==
  /\ \A x, j : AtPending(x, j) => x[1] = "pending"
  /\ \A x, j : AtHand(x, j) => x[1] = "hand"
  /\ \A x, j : AtChan(x, j) => x[1] = "chan"
  /\ \A x, j : AtUnread(x, j) => x[1] = "unread"
  /\ \A x, j : AtCall(x, j) => x[1] = "call"
  /\ \A x, j : AtTimer(x, j) => x[1] = "timer"
  /\ \A x, j : AtOut(x, j) => x[1] = "out"
BY DEF AtPending, AtHand, AtChan, AtUnread, AtCall, AtTimer, AtOut, Queued

LEMMA PendingLoses ==
  ASSUME pending \in Seq(Envelope), Once(pending), pending # <<>>, pending' = Tail(pending)
  PROVE  /\ Head(pending) \in Envelope /\ Once(pending')
         /\ AtPending(Queued, Head(pending).job)
         /\ \A x, j : AtPending(x, j)' <=>
              AtPending(x, j) /\ ~(x = Queued /\ j \in {Head(pending).job})
BY TailSeq DEF AtPending

LEMMA PendingGains ==
  ASSUME pending \in Seq(Envelope), Once(pending),
         NEW e \in Envelope, ~InSeq(pending, e.job),
         pending' = InsertByPriority(pending, e)
  PROVE  /\ Once(pending')
         /\ \A x, j : AtPending(x, j)' <=> AtPending(x, j) \/ (x = Queued /\ j \in {e.job})
BY InsertSeq DEF AtPending

LEMMA PendingGainsFront ==
  ASSUME pending \in Seq(Envelope), Once(pending),
         NEW s \in Seq(Envelope), Once(s), \A j : ~(InSeq(s, j) /\ InSeq(pending, j)),
         NEW J, \A j : j \in J <=> InSeq(s, j),
         pending' = s \o pending
  PROVE  /\ Once(pending')
         /\ \A x, j : AtPending(x, j)' <=> AtPending(x, j) \/ (x = Queued /\ j \in J)
BY ConcatSeq DEF AtPending

LEMMA HandGains ==
  ASSUME hand \in [Consumers -> Envelope \cup {NoEnvelope}], NEW c \in Consumers,
         hand[c] = NoEnvelope, NEW e \in Envelope, hand' = [hand EXCEPT ![c] = e]
  PROVE  \A x, j : AtHand(x, j)' <=> AtHand(x, j) \/ (x = <<"hand", c>> /\ j \in {e.job})
<1>1. e # NoEnvelope
  BY MemoryAssumption
<1>2. \A b \in Consumers : hand'[b] = IF b = c THEN e ELSE hand[b]
  OBVIOUS
<1>3. QED
  BY <1>1, <1>2 DEF AtHand

LEMMA HandLoses ==
  ASSUME hand \in [Consumers -> Envelope \cup {NoEnvelope}], NEW c \in Consumers,
         hand[c] \in Envelope, hand' = [hand EXCEPT ![c] = NoEnvelope]
  PROVE  /\ AtHand(<<"hand", c>>, hand[c].job)
         /\ \A x, j : AtHand(x, j)' <=>
              AtHand(x, j) /\ ~(x = <<"hand", c>> /\ j \in {hand[c].job})
<1>1. hand[c] # NoEnvelope
  BY MemoryAssumption
<1>2. \A b \in Consumers : hand'[b] = IF b = c THEN NoEnvelope ELSE hand[b]
  OBVIOUS
<1>3. QED
  BY <1>1, <1>2 DEF AtHand

LEMMA ChanGains ==
  ASSUME chan \in [Consumers -> Seq(Envelope)], NEW c \in Consumers, NEW e \in Envelope,
         Once(chan[c]), ~InSeq(chan[c], e.job),
         chan' = [chan EXCEPT ![c] = Append(chan[c], e)]
  PROVE  /\ Once(chan'[c]) /\ \A b \in Consumers \ {c} : chan'[b] = chan[b]
         /\ \A x, j : AtChan(x, j)' <=> AtChan(x, j) \/ (x = <<"chan", c>> /\ j \in {e.job})
<1>1. chan[c] \in Seq(Envelope)
  OBVIOUS
<1> DEFINE s == Append(chan[c], e)
<1>2. Once(s) /\ \A j : InSeq(s, j) <=> InSeq(chan[c], j) \/ j = e.job
  BY <1>1, AppendSeq
<1> HIDE DEF s
<1>3. chan'[c] = s /\ \A b \in Consumers \ {c} : chan'[b] = chan[b]
  BY DEF s
<1>4. QED
  BY <1>2, <1>3 DEF AtChan

LEMMA ChanLosesHead ==
  ASSUME chan \in [Consumers -> Seq(Envelope)], NEW c \in Consumers,
         Once(chan[c]), chan[c] # <<>>, chan' = [chan EXCEPT ![c] = Tail(chan[c])]
  PROVE  /\ Head(chan[c]) \in Envelope
         /\ Once(chan'[c]) /\ \A b \in Consumers \ {c} : chan'[b] = chan[b]
         /\ AtChan(<<"chan", c>>, Head(chan[c]).job)
         /\ \A x, j : AtChan(x, j)' <=>
              AtChan(x, j) /\ ~(x = <<"chan", c>> /\ j \in {Head(chan[c]).job})
<1> DEFINE s == chan[c]
           t == Tail(s)
           h == Head(s)
<1>1. s \in Seq(Envelope)
  OBVIOUS
<1>2. h \in Envelope /\ InSeq(s, h.job) /\ Once(t)
      /\ \A j : InSeq(t, j) <=> InSeq(s, j) /\ j # h.job
  BY <1>1, TailSeq
<1>3. chan'[c] = t /\ \A b \in Consumers \ {c} : chan'[b] = chan[b]
  OBVIOUS
<1>4. chan[c] = s
  OBVIOUS
<1> HIDE DEF s, t, h
<1>5. AtChan(<<"chan", c>>, h.job)
  BY <1>2, <1>4 DEF AtChan
<1>6. ASSUME NEW x, NEW j
      PROVE  AtChan(x, j)' <=> AtChan(x, j) /\ ~(x = <<"chan", c>> /\ j \in {h.job})
  <2>1. InSeq(chan'[c], j) <=> InSeq(chan[c], j) /\ j # h.job
    BY <1>2, <1>3, <1>4
  <2>2. \A b \in Consumers \ {c} : chan'[b] = chan[b]
    BY <1>3
  <2>3. QED
    BY <2>1, <2>2 DEF AtChan
<1>7. QED
  BY <1>2, <1>3, <1>5, <1>6 DEF s, t, h

LEMMA ChanLosesAll ==
  ASSUME chan \in [Consumers -> Seq(Envelope)], NEW c \in Consumers,
         NEW J, \A j : j \in J <=> InSeq(chan[c], j), chan' = [chan EXCEPT ![c] = <<>>]
  PROVE  /\ Once(chan'[c]) /\ \A b \in Consumers \ {c} : chan'[b] = chan[b]
         /\ \A x, j : AtChan(x, j)' <=> AtChan(x, j) /\ ~(x = <<"chan", c>> /\ j \in J)
<1>1. chan'[c] = <<>> /\ \A b \in Consumers \ {c} : chan'[b] = chan[b]
  OBVIOUS
<1>2. QED
  BY <1>1, EmptySeq DEF AtChan

LEMMA UnreadGains ==
  ASSUME unread \in [Consumers -> Seq(Envelope)], NEW c \in Consumers, NEW s, Once(s),
         unread[c] = <<>>, NEW J, \A j : j \in J <=> InSeq(s, j),
         unread' = [unread EXCEPT ![c] = s]
  PROVE  /\ Once(unread'[c]) /\ \A b \in Consumers \ {c} : unread'[b] = unread[b]
         /\ \A x, j : AtUnread(x, j)' <=> AtUnread(x, j) \/ (x = <<"unread", c>> /\ j \in J)
<1>1. unread'[c] = s /\ \A b \in Consumers \ {c} : unread'[b] = unread[b]
  OBVIOUS
<1>2. QED
  BY <1>1, EmptySeq DEF AtUnread

LEMMA UnreadLoses ==
  ASSUME unread \in [Consumers -> Seq(Envelope)], NEW c \in Consumers,
         NEW J, \A j : j \in J <=> InSeq(unread[c], j), unread' = [unread EXCEPT ![c] = <<>>]
  PROVE  /\ Once(unread'[c]) /\ \A b \in Consumers \ {c} : unread'[b] = unread[b]
         /\ \A x, j : AtUnread(x, j)' <=> AtUnread(x, j) /\ ~(x = <<"unread", c>> /\ j \in J)
<1>1. unread'[c] = <<>> /\ \A b \in Consumers \ {c} : unread'[b] = unread[b]
  OBVIOUS
<1>2. QED
  BY <1>1, EmptySeq DEF AtUnread

LEMMA CallGains ==
  ASSUME NEW y, calls' = calls \cup {y}
  PROVE  \A x, j : AtCall(x, j)' <=> AtCall(x, j) \/ (x = <<"call", y>> /\ j \in {y.env.job})
BY DEF AtCall

LEMMA CallLoses ==
  ASSUME NEW y \in calls, calls' = calls \ {y}
  PROVE  /\ AtCall(<<"call", y>>, y.env.job)
         /\ \A x, j : AtCall(x, j)' <=> AtCall(x, j) /\ ~(x = <<"call", y>> /\ j \in {y.env.job})
BY DEF AtCall

LEMMA TimerGains ==
  ASSUME NEW t, timers' = timers \cup {t}
  PROVE  \A x, j : AtTimer(x, j)' <=> AtTimer(x, j) \/ (x = <<"timer", t>> /\ j \in {t.env.job})
BY DEF AtTimer

LEMMA TimerLoses ==
  ASSUME NEW t \in timers, timers' = timers \ {t}
  PROVE  /\ AtTimer(<<"timer", t>>, t.env.job)
         /\ \A x, j : AtTimer(x, j)' <=> AtTimer(x, j) /\ ~(x = <<"timer", t>> /\ j \in {t.env.job})
BY DEF AtTimer

LEMMA OutGains ==
  ASSUME NEW d, d.phase \in Running, out' = out \cup {d}
  PROVE  \A x, j : AtOut(x, j)' <=> AtOut(x, j) \/ (x = <<"out", d>> /\ j \in {d.env.job})
BY DEF AtOut

LEMMA OutLoses ==
  ASSUME NEW d \in out, d.phase \in Running, out' = out \ {d}
  PROVE  /\ AtOut(<<"out", d>>, d.env.job)
         /\ \A x, j : AtOut(x, j)' <=> AtOut(x, j) /\ ~(x = <<"out", d>> /\ j \in {d.env.job})
BY DEF AtOut

\* The last critical section of retry and defer drops what nobody runs any more.
LEMMA OutDrops ==
  ASSUME NEW d \in out, d.phase \notin Running, out' = out \ {d}
  PROVE  \A x, j : AtOut(x, j)' <=> AtOut(x, j)
BY DEF AtOut

LEMMA OutAdvances ==
  ASSUME out \subseteq Delivery, NEW d \in out, d.phase \in Running,
         NEW phase \in Phases, phase # d.phase, NEW delay \in {0, 1}, Advance(d, phase, delay)
  PROVE  LET n == [d EXCEPT !.phase = phase, !.delay = delay]
         IN  /\ AtOut(<<"out", d>>, d.env.job)
             /\ phase \in Running => \A x, j : AtOut(x, j)' <=>
                  \/ AtOut(x, j) /\ ~(x = <<"out", d>> /\ j \in {d.env.job})
                  \/ x = <<"out", n>> /\ j \in {d.env.job}
             /\ phase \notin Running => \A x, j : AtOut(x, j)' <=>
                  AtOut(x, j) /\ ~(x = <<"out", d>> /\ j \in {d.env.job})
<1> DEFINE n == [d EXCEPT !.phase = phase, !.delay = delay]
<1>1. d \in Delivery
  OBVIOUS
<1>2. n.env = d.env /\ n.phase = phase /\ n # d
  BY <1>1 DEF Delivery
<1>3. out' = (out \ {d}) \cup {n}
  BY DEF Advance
<1> HIDE DEF n
<1>4. AtOut(<<"out", d>>, d.env.job)
  BY DEF AtOut
<1>5. phase \in Running => \A x, j : AtOut(x, j)' <=>
        \/ AtOut(x, j) /\ ~(x = <<"out", d>> /\ j \in {d.env.job})
        \/ x = <<"out", n>> /\ j \in {d.env.job}
  BY <1>2, <1>3 DEF AtOut
<1>6. phase \notin Running => \A x, j : AtOut(x, j)' <=>
        AtOut(x, j) /\ ~(x = <<"out", d>> /\ j \in {d.env.job})
  BY <1>2, <1>3 DEF AtOut
<1>7. QED
  BY <1>4, <1>5, <1>6 DEF n

-----------------------------------------------------------------------------
LEMMA MoveOutcome ==
  ASSUME OnePlace, NEW J, NEW a, NEW b, Moves(J, a, b), \A j \in J : At(a, j),
         UNCHANGED <<settled, dead, gone>>, accepted' \subseteq accepted \cup J
  PROVE  OnePlace' /\ \A j \in Jobs : Outcome(j)
<1>1. OnePlace' /\ \A j \in Jobs : Somewhere(j)' <=> Somewhere(j) \/ j \in J
  BY MovedOnce
<1>2. \A j \in J : Somewhere(j)
  BY DEF Somewhere
<1>3. \A j \in Jobs : (Finished(j)' <=> Finished(j)) /\ (GoneFor(j)' <=> GoneFor(j))
  BY DEF Finished, GoneFor
<1>4. \A j \in accepted' : j \in accepted \/ Somewhere(j)
  BY <1>2
<1>5. QED
  BY <1>1, <1>2, <1>3, <1>4 DEF Outcome

LEMMA LeaveOutcome ==
  ASSUME OnePlace, NEW J, NEW a, Leaves(J, a), \A j \in J : At(a, j),
         \A j \in J : j \in Jobs => Finished(j)' \/ Excused(j)',
         \A j \in Jobs \ J : (Finished(j)' <=> Finished(j)) /\ (GoneFor(j)' <=> GoneFor(j)),
         accepted' \subseteq accepted \cup J
  PROVE  OnePlace' /\ \A j \in Jobs : Outcome(j)
<1>1. OnePlace' /\ \A j \in Jobs : Somewhere(j)' <=> Somewhere(j) /\ j \notin J
  BY LeftOnce
<1>2. \A j \in J : Somewhere(j)
  BY DEF Somewhere
<1>3. \A j \in accepted' : j \in accepted \/ Somewhere(j)
  BY <1>2
<1>4. QED
  BY <1>1, <1>2, <1>3 DEF Outcome

LEMMA StayOutcome ==
  ASSUME OnePlace, \A x, j : At(x, j)' <=> At(x, j), UNCHANGED <<gone, accepted>>,
         \A j \in Jobs : Finished(j)' <=> Finished(j)
  PROVE  OnePlace' /\ \A j \in Jobs : Outcome(j)
<1>1. OnePlace'
  BY DEF OnePlace
<1>2. \A j : Somewhere(j)' <=> Somewhere(j)
  BY DEF Somewhere
<1>3. \A j : GoneFor(j)' <=> GoneFor(j)
  BY DEF GoneFor
<1>4. QED
  BY <1>1, <1>2, <1>3 DEF Outcome

\* Nothing of what NowhereInv and LostInv read goes away.
Growing ==
  /\ accepted' \subseteq Jobs /\ Submitted \subseteq Submitted'
  /\ gone \subseteq gone' /\ (closed => closed')

PlaceInv == OnePlace /\ OncePlaced /\ NowhereInv /\ LostInv

LEMMA PlacesKept ==
  ASSUME PlaceInv, OnePlace', OncePlaced', Growing, \A j \in Jobs : Outcome(j)
  PROVE  PlaceInv'
BY OutcomeKeeps DEF PlaceInv, Growing

\* Where a job is, it is not in the queue as well.
LEMMA NotQueued ==
  ASSUME OnePlace, NEW j \in Jobs, NEW a, At(a, j), a # Queued
  PROVE  ~InSeq(pending, j)
<1>1. InSeq(pending, j) => At(Queued, j)
  BY DEF At, AtPending
<1>2. QED
  BY <1>1 DEF OnePlace

LEMMA NotInChan ==
  ASSUME OnePlace, NEW j \in Jobs, NEW a, At(a, j), NEW c \in Consumers, a # <<"chan", c>>
  PROVE  ~InSeq(chan[c], j)
<1>1. InSeq(chan[c], j) => At(<<"chan", c>>, j)
  BY DEF At, AtChan
<1>2. QED
  BY <1>1 DEF OnePlace

-----------------------------------------------------------------------------
(***************************************************************************)
(* The consumers' tasks and streams.                                       *)
(***************************************************************************)

\* Steps that touch no place a job can be in.
LEMMA NoPlaceTouched ==
  ASSUME TypeInv, PlaceInv, UNCHANGED <<pending, hand, chan, unread, calls, timers, out>>,
         UNCHANGED <<settled, dead, gone, accepted>>, closed => closed'
  PROVE  PlaceInv'
<1>1. \A x, j : At(x, j)' <=> At(x, j)
  BY SamePlaces DEF At
<1>2. \A j \in Jobs : Finished(j)' <=> Finished(j)
  BY DEF Finished
<1>3. OnePlace' /\ \A j \in Jobs : Outcome(j)
  BY <1>1, <1>2, StayOutcome DEF PlaceInv
<1>4. OncePlaced'
  BY DEF PlaceInv, OncePlaced
<1>5. Growing
  BY DEF Growing, Submitted, TypeInv, TypeOK, CallerType
<1>6. QED
  BY <1>3, <1>4, <1>5, PlacesKept

LEMMA PopMoves ==
  ASSUME TypeInv, IdleInv, PlaceInv, NEW c \in Consumers,
         pc[c] = "poll", pending # <<>>, hand' = [hand EXCEPT ![c] = Head(pending)],
         pending' = Tail(pending), UNCHANGED <<closed, settled, dead, chan, unread, callerVars>>
  PROVE  PlaceInv'
<1> DEFINE h == Head(pending)
           b == <<"hand", c>>
<1>1. pending \in Seq(Envelope) /\ Once(pending)
  BY DEF TypeInv, TypeOK, SharedType, PlaceInv, OncePlaced
<1>2. /\ h \in Envelope /\ Once(pending')
      /\ AtPending(Queued, h.job)
      /\ \A x, j : AtPending(x, j)' <=> AtPending(x, j) /\ ~(x = Queued /\ j \in {h.job})
  BY <1>1, PendingLoses
<1>3. \A x, j : AtHand(x, j)' <=> AtHand(x, j) \/ (x = b /\ j \in {h.job})
  <2>1. hand \in [Consumers -> Envelope \cup {NoEnvelope}] /\ hand[c] = NoEnvelope
    BY DEF TypeInv, TypeOK, ConsumerType, IdleInv
  <2>2. QED
    BY <1>2, <2>1, HandGains
<1>4. UNCHANGED <<calls, timers, out, gone, accepted>>
  BY DEF callerVars
<1>5. Queued[1] = "pending"
  BY DEF Queued
<1> HIDE DEF h, b
<1>6. Moves({h.job}, Queued, b)
  BY <1>2, <1>3, <1>4, <1>5, SamePlaces, PlaceTags DEF Moves, At
<1>7. \A j \in {h.job} : At(Queued, j)
  BY <1>2 DEF At
<1>8. OnePlace' /\ \A j \in Jobs : Outcome(j)
  BY <1>4, <1>6, <1>7, MoveOutcome DEF PlaceInv
<1>9. OncePlaced'
  BY <1>2 DEF PlaceInv, OncePlaced
<1>10. Growing
  BY <1>4 DEF Growing, Submitted, TypeInv, TypeOK, CallerType
<1>11. QED
  BY <1>8, <1>9, <1>10, PlacesKept

LEMMA SendMoves ==
  ASSUME TypeInv, PlaceInv, NEW c \in Consumers, Send(c)
  PROVE  PlaceInv'
<1> DEFINE e == hand[c]
           a == <<"hand", c>>
           b == <<"chan", c>>
<1>1. e \in Envelope
  BY DEF Send, TypeInv, HandInv
<1>2. /\ hand \in [Consumers -> Envelope \cup {NoEnvelope}]
      /\ chan \in [Consumers -> Seq(Envelope)]
  BY DEF TypeInv, TypeOK, ConsumerType
<1>3. /\ AtHand(a, e.job)
      /\ \A x, j : AtHand(x, j)' <=> AtHand(x, j) /\ ~(x = a /\ j \in {e.job})
  BY <1>1, <1>2, HandLoses DEF Send
<1>4. At(a, e.job) /\ a[1] = "hand" /\ a # b /\ e.job \in Jobs
  BY <1>1, <1>3 DEF At, Envelope
<1>5. ~InSeq(chan[c], e.job) /\ Once(chan[c])
  BY <1>4, NotInChan DEF PlaceInv, OncePlaced
<1>6. /\ Once(chan'[c]) /\ \A d \in Consumers \ {c} : chan'[d] = chan[d]
      /\ \A x, j : AtChan(x, j)' <=> AtChan(x, j) \/ (x = b /\ j \in {e.job})
  BY <1>1, <1>2, <1>5, ChanGains DEF Send
<1>7. /\ UNCHANGED <<pending, unread, calls, timers, out, gone, accepted>>
      /\ UNCHANGED <<settled, dead, closed>>
  BY DEF Send, sharedVars, callerVars
<1> HIDE DEF e, a, b
<1>8. Moves({e.job}, a, b)
  BY <1>3, <1>4, <1>6, <1>7, SamePlaces, PlaceTags DEF Moves, At
<1>9. OnePlace' /\ \A j \in Jobs : Outcome(j)
  BY <1>4, <1>7, <1>8, MoveOutcome DEF PlaceInv
<1>10. OncePlaced'
  BY <1>6, <1>7 DEF PlaceInv, OncePlaced
<1>11. Growing
  BY <1>7 DEF Growing, Submitted, TypeInv, TypeOK, CallerType
<1>12. QED
  BY <1>9, <1>10, <1>11, PlacesKept

LEMMA SendFailsMoves ==
  ASSUME TypeInv, PlaceInv, NEW c \in Consumers, SendFails(c)
  PROVE  PlaceInv'
<1> DEFINE e == hand[c]
           a == <<"hand", c>>
           s == <<e>>
<1>1. e \in Envelope
  BY DEF SendFails, TypeInv, HandInv
<1>2. /\ hand \in [Consumers -> Envelope \cup {NoEnvelope}]
      /\ pending \in Seq(Envelope) /\ Once(pending)
  BY DEF TypeInv, TypeOK, ConsumerType, SharedType, PlaceInv, OncePlaced
<1>3. /\ AtHand(a, e.job)
      /\ \A x, j : AtHand(x, j)' <=> AtHand(x, j) /\ ~(x = a /\ j \in {e.job})
  BY <1>1, <1>2, HandLoses DEF SendFails
<1>4. At(a, e.job) /\ a[1] = "hand" /\ a # Queued /\ e.job \in Jobs
  BY <1>1, <1>3 DEF At, Envelope, Queued
<1>5. ~InSeq(pending, e.job)
  BY <1>4, NotQueued DEF PlaceInv
<1>6. s \in Seq(Envelope) /\ Once(s) /\ \A j : j \in {e.job} <=> InSeq(s, j)
  BY <1>1 DEF Once, InSeq
<1>7. pending' = s \o pending
  BY DEF SendFails
<1>8. /\ UNCHANGED <<chan, unread, calls, timers, out, gone, accepted>>
      /\ UNCHANGED <<settled, dead, closed>>
  BY DEF SendFails, callerVars
<1> HIDE DEF e, a, s
<1>9. \A j : ~(InSeq(s, j) /\ InSeq(pending, j))
  BY <1>5, <1>6
<1>10. /\ Once(pending')
       /\ \A x, j : AtPending(x, j)' <=> AtPending(x, j) \/ (x = Queued /\ j \in {e.job})
  BY <1>2, <1>6, <1>7, <1>9, PendingGainsFront
<1>11. Moves({e.job}, a, Queued)
  BY <1>3, <1>4, <1>8, <1>10, SamePlaces, PlaceTags DEF Moves, At
<1>12. OnePlace' /\ \A j \in Jobs : Outcome(j)
  BY <1>4, <1>8, <1>11, MoveOutcome DEF PlaceInv
<1>13. OncePlaced'
  BY <1>8, <1>10 DEF PlaceInv, OncePlaced
<1>14. Growing
  BY <1>8 DEF Growing, Submitted, TypeInv, TypeOK, CallerType
<1>15. QED
  BY <1>12, <1>13, <1>14, PlacesKept

LEMMA StreamNextMoves ==
  ASSUME TypeInv, PlaceInv, NEW c \in Consumers, StreamNext(c)
  PROVE  PlaceInv'
<1> DEFINE h == Head(chan[c])
           d == [env |-> h, consumer |-> c, phase |-> "held", delay |-> 0]
           a == <<"chan", c>>
           b == <<"out", d>>
<1>1. chan \in [Consumers -> Seq(Envelope)] /\ Once(chan[c])
  BY DEF TypeInv, TypeOK, ConsumerType, PlaceInv, OncePlaced
<1>2. /\ h \in Envelope
      /\ Once(chan'[c]) /\ \A e \in Consumers \ {c} : chan'[e] = chan[e]
      /\ AtChan(a, h.job)
      /\ \A x, j : AtChan(x, j)' <=> AtChan(x, j) /\ ~(x = a /\ j \in {h.job})
  BY <1>1, ChanLosesHead DEF StreamNext
<1>3. d.phase \in Running /\ d.env = h
  BY DEF Running
<1>4. out' = out \cup {d}
  BY DEF StreamNext
<1>5. \A x, j : AtOut(x, j)' <=> AtOut(x, j) \/ (x = b /\ j \in {h.job})
  <2> HIDE DEF d, h
  <2>1. QED
    BY <1>3, <1>4, OutGains
<1>6. /\ UNCHANGED <<pending, hand, unread, calls, timers, gone, accepted>>
      /\ UNCHANGED <<settled, dead, closed>>
  BY DEF StreamNext, sharedVars
<1>7. a[1] = "chan"
  OBVIOUS
<1> HIDE DEF h, d, a, b
<1>8. Moves({h.job}, a, b)
  BY <1>2, <1>5, <1>6, <1>7, SamePlaces, PlaceTags DEF Moves, At
<1>9. \A j \in {h.job} : At(a, j)
  BY <1>2 DEF At
<1>10. OnePlace' /\ \A j \in Jobs : Outcome(j)
  BY <1>6, <1>8, <1>9, MoveOutcome DEF PlaceInv
<1>11. OncePlaced'
  BY <1>2, <1>6 DEF PlaceInv, OncePlaced
<1>12. Growing
  BY <1>6 DEF Growing, Submitted, TypeInv, TypeOK, CallerType
<1>13. QED
  BY <1>10, <1>11, <1>12, PlacesKept

LEMMA DropStreamMoves ==
  ASSUME TypeInv, IdleInv, PlaceInv, NEW c \in Consumers, DropStream(c)
  PROVE  PlaceInv'
<1> DEFINE s == chan[c]
           J == {j \in Jobs : InSeq(s, j)}
           a == <<"chan", c>>
           b == <<"unread", c>>
<1>1. /\ chan \in [Consumers -> Seq(Envelope)] /\ unread \in [Consumers -> Seq(Envelope)]
      /\ Once(s) /\ unread[c] = <<>>
  BY DEF TypeInv, TypeOK, ConsumerType, PlaceInv, OncePlaced, IdleInv, DropStream
<1>2. \A j : j \in J <=> InSeq(s, j)
  <2>1. s \in Seq(Envelope)
    BY <1>1
  <2> HIDE DEF s
  <2>2. QED
    BY <2>1, JobsOfSeq
<1>3. chan' = [chan EXCEPT ![c] = <<>>] /\ unread' = [unread EXCEPT ![c] = s]
  BY DEF DropStream
<1>4. /\ UNCHANGED <<pending, hand, calls, timers, out, gone, accepted>>
      /\ UNCHANGED <<settled, dead, closed>>
  BY DEF DropStream, sharedVars, callerVars
<1>5. a[1] = "chan" /\ \A j \in J : At(a, j)
  BY <1>2 DEF At, AtChan
<1> HIDE DEF J
<1>6. /\ Once(chan'[c]) /\ \A e \in Consumers \ {c} : chan'[e] = chan[e]
      /\ \A x, j : AtChan(x, j)' <=> AtChan(x, j) /\ ~(x = a /\ j \in J)
  BY <1>1, <1>2, <1>3, ChanLosesAll
<1>7. /\ Once(unread'[c]) /\ \A e \in Consumers \ {c} : unread'[e] = unread[e]
      /\ \A x, j : AtUnread(x, j)' <=> AtUnread(x, j) \/ (x = b /\ j \in J)
  BY <1>1, <1>2, <1>3, UnreadGains
<1> HIDE DEF a, b
<1>8. Moves(J, a, b)
  BY <1>4, <1>5, <1>6, <1>7, SamePlaces, PlaceTags DEF Moves, At
<1>9. OnePlace' /\ \A j \in Jobs : Outcome(j)
  BY <1>4, <1>5, <1>8, MoveOutcome DEF PlaceInv
<1>10. OncePlaced'
  BY <1>4, <1>6, <1>7 DEF PlaceInv, OncePlaced
<1>11. Growing
  BY <1>4 DEF Growing, Submitted, TypeInv, TypeOK, CallerType
<1>12. QED
  BY <1>9, <1>10, <1>11, PlacesKept

LEMMA RequeueUnreadMoves ==
  ASSUME TypeInv, PlaceInv, NEW c \in Consumers, RequeueUnread(c)
  PROVE  PlaceInv'
<1> DEFINE s == unread[c]
           J == {j \in Jobs : InSeq(s, j)}
           a == <<"unread", c>>
<1>1. /\ unread \in [Consumers -> Seq(Envelope)] /\ s \in Seq(Envelope) /\ Once(s)
      /\ pending \in Seq(Envelope) /\ Once(pending)
  BY DEF TypeInv, TypeOK, ConsumerType, SharedType, PlaceInv, OncePlaced
<1>2. \A j : j \in J <=> InSeq(s, j)
  <2>1. s \in Seq(Envelope)
    BY <1>1
  <2> HIDE DEF s
  <2>2. QED
    BY <2>1, JobsOfSeq
<1>3. unread' = [unread EXCEPT ![c] = <<>>]
  BY DEF RequeueUnread
<1>4. /\ UNCHANGED <<hand, chan, calls, timers, out, accepted>>
      /\ UNCHANGED <<settled, dead, closed>>
  BY DEF RequeueUnread
<1>5. a[1] = "unread" /\ a # Queued /\ \A j \in J : At(a, j)
  BY <1>2 DEF At, AtUnread, Queued
<1> HIDE DEF J
<1>6. /\ Once(unread'[c]) /\ \A e \in Consumers \ {c} : unread'[e] = unread[e]
      /\ \A x, j : AtUnread(x, j)' <=> AtUnread(x, j) /\ ~(x = a /\ j \in J)
  BY <1>1, <1>2, <1>3, UnreadLoses
<1>7. CASE pending' = s \o pending /\ UNCHANGED gone
  <2>1. \A j : ~(InSeq(s, j) /\ InSeq(pending, j))
    <3>1. \A j \in J : j \in Jobs
      BY DEF J
    <3>2. QED
      BY <1>2, <1>5, <3>1, NotQueued DEF PlaceInv
  <2> HIDE DEF a, s
  <2>2. /\ Once(pending')
        /\ \A x, j : AtPending(x, j)' <=> AtPending(x, j) \/ (x = Queued /\ j \in J)
    BY <1>1, <1>2, <1>7, <2>1, PendingGainsFront
  <2>3. Moves(J, a, Queued)
    BY <1>4, <1>5, <1>6, <2>2, SamePlaces, PlaceTags DEF Moves, At
  <2>4. OnePlace' /\ \A j \in Jobs : Outcome(j)
    BY <1>4, <1>5, <1>7, <2>3, MoveOutcome DEF PlaceInv
  <2>5. OncePlaced'
    BY <1>4, <1>6, <2>2 DEF PlaceInv, OncePlaced
  <2>6. Growing
    BY <1>4, <1>7 DEF Growing, Submitted, TypeInv, TypeOK, CallerType
  <2>7. QED
    BY <2>4, <2>5, <2>6, PlacesKept
<1>8. CASE /\ closed /\ UNCHANGED pending
           /\ gone' = gone \cup {Gone(s[i], "unread") : i \in DOMAIN s}
  <2>1. ASSUME NEW j PROVE (\E g \in gone' : g.env.job = j) <=> GoneFor(j) \/ j \in J
    <3> HIDE DEF s
    <3>1. \A g \in gone' : g \in gone \/ \E i \in DOMAIN s : g = Gone(s[i], "unread")
      BY <1>8
    <3>2. gone \subseteq gone' /\ \A i \in DOMAIN s : Gone(s[i], "unread") \in gone'
      BY <1>8
    <3>3. \A i \in DOMAIN s : Gone(s[i], "unread").env.job = s[i].job
      BY DEF Gone
    <3> HIDE DEF Gone
    <3>4. QED
      BY <1>2, <3>1, <3>2, <3>3 DEF GoneFor, InSeq
  <2>2. \A j \in J : Excused(j)'
    BY <1>4, <1>8, <2>1 DEF Excused
  <2>3. \A j \in Jobs \ J : (Finished(j)' <=> Finished(j)) /\ (GoneFor(j)' <=> GoneFor(j))
    BY <1>4, <2>1 DEF Finished, GoneFor
  <2> HIDE DEF a, s
  <2>4. Leaves(J, a)
    BY <1>4, <1>5, <1>6, <1>8, SamePlaces, PlaceTags DEF Leaves, At
  <2>5. OnePlace' /\ \A j \in Jobs : Outcome(j)
    BY <1>4, <1>5, <2>2, <2>3, <2>4, LeaveOutcome DEF PlaceInv
  <2>6. OncePlaced'
    BY <1>4, <1>6, <1>8 DEF PlaceInv, OncePlaced
  <2>7. Growing
    BY <1>4, <1>8 DEF Growing, Submitted, TypeInv, TypeOK, CallerType
  <2>8. QED
    BY <2>5, <2>6, <2>7, PlacesKept
<1>9. QED
  BY <1>7, <1>8 DEF RequeueUnread

LEMMA PlaceConsumer ==
  ASSUME TypeInv, IdleInv, PlaceInv, NEW c \in Consumers, Consume(c) \/ ConsumerTask(c)
  PROVE  PlaceInv'
<1>1. CASE Consume(c) \/ AcquirePermit(c) \/ AwaitSignal(c) \/ Unregister(c)
  BY <1>1, NoPlaceTouched DEF Consume, AcquirePermit, AwaitSignal, Unregister, sharedVars, callerVars
<1>2. CASE PopFront(c)
  <2>1. CASE UNCHANGED <<pending, hand>>
    BY <1>2, <2>1, NoPlaceTouched DEF PopFront, callerVars
  <2>2. QED
    BY <1>2, <2>1, PopMoves DEF PopFront
<1>3. QED
  BY <1>1, <1>2, SendMoves, SendFailsMoves DEF ConsumerTask

-----------------------------------------------------------------------------
(***************************************************************************)
(* Producers, timers and deliveries.                                       *)
(***************************************************************************)
LEMMA SubmitMoves ==
  ASSUME TypeInv, PlaceInv, NEW j \in Jobs, NEW hold \in BOOLEAN, NEW delay \in {0, 1},
         PublishCheck(j, hold, delay)
  PROVE  PlaceInv'
<1> DEFINE y == [env   |-> IF hold THEN NewDeferred(j) ELSE NewEnvelope(j),
                 hold  |-> hold,
                 delay |-> delay]
           b == <<"call", y>>
<1>1. y.env.job = j
  BY DEF NewDeferred, NewEnvelope
<1>2. calls' = calls \cup {y}
  BY DEF PublishCheck
<1>3. /\ UNCHANGED <<pending, hand, chan, unread, timers, out, gone, accepted>>
      /\ UNCHANGED <<settled, dead, closed>>
  BY DEF PublishCheck, sharedVars, consumerVars
<1>4. j \notin Submitted
  BY DEF PublishCheck
<1> HIDE DEF y
<1>5. \A x, k : AtCall(x, k)' <=> AtCall(x, k) \/ (x = b /\ k \in {j})
  BY <1>1, <1>2, CallGains
<1> HIDE DEF b
<1>6. ~Somewhere(j) /\ ~Finished(j)
  BY <1>4 DEF PlaceInv, NowhereInv
<1>7. Moves({j}, b, b)
  BY <1>3, <1>5, <1>6, SamePlaces DEF Moves, At, Somewhere
<1>8. OnePlace' /\ \A k \in Jobs : Somewhere(k)' <=> Somewhere(k) \/ k \in {j}
  BY <1>6, <1>7, MovedOnce DEF PlaceInv
<1>9. \A k : (Finished(k)' <=> Finished(k)) /\ (GoneFor(k)' <=> GoneFor(k))
  BY <1>3 DEF Finished, GoneFor
<1>10. j \in Submitted' /\ j \notin accepted' /\ Submitted \subseteq Submitted'
  BY <1>1, <1>2, <1>3, <1>4 DEF Submitted
<1>11. \A k \in Jobs : Outcome(k)
  BY <1>3, <1>8, <1>9, <1>10, <1>4 DEF Outcome
<1>12. OncePlaced'
  BY <1>3 DEF PlaceInv, OncePlaced
<1>13. Growing
  BY <1>3, <1>10 DEF Growing, TypeInv, TypeOK, CallerType
<1>14. QED
  BY <1>8, <1>11, <1>12, <1>13, PlacesKept

\* Where an envelope lands that is scheduled, held or enqueued.
LandsQueued(e) ==
  /\ Once(pending)' /\ UNCHANGED gone
  /\ \A x, j : AtPending(x, j)' <=> AtPending(x, j) \/ (x = Queued /\ j \in {e.job})

LandsNowhere(e) ==
  closed /\ UNCHANGED pending /\ \E why : gone' = gone \cup {Gone(e, why)}

LandsTimed(e, t) == t.env = e /\ timers' = timers \cup {t} /\ UNCHANGED <<pending, gone>>

LEMMA GoneSince ==
  ASSUME NEW e, NEW why, gone' = gone \cup {Gone(e, why)}
  PROVE  /\ \A j : GoneFor(j)' <=> GoneFor(j) \/ j = e.job
         /\ closed' \/ why = "unsettled" => Excused(e.job)'
<1> DEFINE g == Gone(e, why)
<1>1. g.env.job = e.job /\ g.why = why
  BY DEF Gone
<1>2. gone' = gone \cup {g}
  OBVIOUS
<1> HIDE DEF g
<1>3. QED
  BY <1>1, <1>2 DEF GoneFor, Excused

LEMMA EnqueueLands ==
  ASSUME TypeInv, OncePlaced, NEW e \in Envelope, ~InSeq(pending, e.job), NEW why,
         EnqueueNow(e, why)
  PROVE  LandsQueued(e) \/ LandsNowhere(e)
<1>1. pending \in Seq(Envelope) /\ Once(pending)
  BY DEF TypeInv, TypeOK, SharedType, OncePlaced
<1>2. CASE closed /\ gone' = gone \cup {Gone(e, why)} /\ UNCHANGED <<pending, signal>>
  BY <1>2 DEF LandsNowhere
<1>3. CASE pending' = InsertByPriority(pending, e) /\ UNCHANGED gone
  BY <1>1, <1>3, PendingGains DEF LandsQueued
<1>4. QED
  BY <1>2, <1>3 DEF EnqueueNow

LEMMA ScheduleLands ==
  ASSUME TypeInv, OncePlaced, NEW e \in Envelope, ~InSeq(pending, e.job), NEW delay,
         Schedule(e, delay) \/ Hold(e, delay)
  PROVE  \/ LandsQueued(e) /\ UNCHANGED timers
         \/ LandsNowhere(e) /\ UNCHANGED timers
         \/ \E t : LandsTimed(e, t)
<1>1. CASE EnqueueNow(e, "refused") /\ UNCHANGED timers
  BY <1>1, EnqueueLands
<1>2. ASSUME NEW hold, timers' = timers \cup {[env |-> e, hold |-> hold]},
             UNCHANGED <<pending, gone>>
      PROVE  \E t : LandsTimed(e, t)
  <2>1. LandsTimed(e, [env |-> e, hold |-> hold])
    BY <1>2 DEF LandsTimed
  <2>2. QED
    BY <2>1
<1>3. QED
  BY <1>1, <1>2 DEF Schedule, Hold

\* A job that leaves place a, a call or a delivery, lands with its next envelope e.
LEMMA LandingMoves ==
  ASSUME TypeInv, PlaceInv, NEW e \in Envelope, NEW a, At(a, e.job),
         a[1] \in {"call", "out"}, UNCHANGED <<hand, chan, unread, settled, dead, closed>>,
         \A x, j : (AtCall(x, j)' \/ AtOut(x, j)') <=>
                     (AtCall(x, j) \/ AtOut(x, j)) /\ ~(x = a /\ j \in {e.job}),
         \/ LandsQueued(e) /\ UNCHANGED timers
         \/ LandsNowhere(e) /\ UNCHANGED timers
         \/ \E t : LandsTimed(e, t),
         accepted' \subseteq accepted \cup {e.job}, Submitted \subseteq Submitted'
  PROVE  PlaceInv'
<1>1. \A j \in {e.job} : At(a, j)
  OBVIOUS
<1>2. e.job \in Jobs /\ accepted' \subseteq Jobs
  BY DEF Envelope, TypeInv, TypeOK, CallerType
<1>3. CASE LandsQueued(e) /\ UNCHANGED timers
  <2>1. Moves({e.job}, a, Queued)
    BY <1>3, SamePlaces, PlaceTags DEF Moves, At, LandsQueued
  <2>2. OnePlace' /\ \A j \in Jobs : Outcome(j)
    BY <1>1, <1>3, <2>1, MoveOutcome DEF PlaceInv, LandsQueued
  <2>3. OncePlaced' /\ Growing
    BY <1>2, <1>3 DEF PlaceInv, OncePlaced, Growing, LandsQueued
  <2>4. QED
    BY <2>2, <2>3, PlacesKept
<1>4. CASE \E t : LandsTimed(e, t)
  <2>1. PICK t : LandsTimed(e, t)
    BY <1>4
  <2>2. \A x, j : AtTimer(x, j)' <=> AtTimer(x, j) \/ (x = <<"timer", t>> /\ j \in {e.job})
    BY <2>1, TimerGains DEF LandsTimed
  <2>3. Moves({e.job}, a, <<"timer", t>>)
    BY <2>1, <2>2, SamePlaces, PlaceTags DEF Moves, At, LandsTimed
  <2>4. OnePlace' /\ \A j \in Jobs : Outcome(j)
    BY <1>1, <2>1, <2>3, MoveOutcome DEF PlaceInv, LandsTimed
  <2>5. OncePlaced' /\ Growing
    BY <1>2, <2>1 DEF PlaceInv, OncePlaced, Growing, LandsTimed
  <2>6. QED
    BY <2>4, <2>5, PlacesKept
<1>5. CASE LandsNowhere(e) /\ UNCHANGED timers
  <2>1. PICK why : gone' = gone \cup {Gone(e, why)}
    BY <1>5 DEF LandsNowhere
  <2>2. Excused(e.job)' /\ \A j : GoneFor(j)' <=> GoneFor(j) \/ j = e.job
    BY <1>5, <2>1, GoneSince DEF LandsNowhere
  <2>3. Leaves({e.job}, a)
    BY <1>5, SamePlaces, PlaceTags DEF Leaves, At, LandsNowhere
  <2>4. \A j : Finished(j)' <=> Finished(j)
    BY DEF Finished
  <2>5. OnePlace' /\ \A j \in Jobs : Outcome(j)
    BY <1>1, <2>2, <2>3, <2>4, LeaveOutcome DEF PlaceInv
  <2>6. OncePlaced' /\ Growing
    BY <1>2, <1>5, <2>1 DEF PlaceInv, OncePlaced, Growing, LandsNowhere
  <2>7. QED
    BY <2>5, <2>6, PlacesKept
<1>6. QED
  BY <1>3, <1>4, <1>5

LEMMA PublishFinishMoves ==
  ASSUME TypeInv, PlaceInv, NEW y \in calls, PublishFinish(y)
  PROVE  PlaceInv'
<1> DEFINE a == <<"call", y>>
<1>1. y.env \in Envelope /\ y.env.job \in Jobs
  BY DEF TypeInv, TypeOK, CallerType, Call, Envelope
<1>2. /\ AtCall(a, y.env.job)
      /\ \A x, j : AtCall(x, j)' <=> AtCall(x, j) /\ ~(x = a /\ j \in {y.env.job})
  BY CallLoses DEF PublishFinish
<1>3. /\ UNCHANGED <<hand, chan, unread, settled, dead, closed, out>>
      /\ accepted' \subseteq accepted \cup {y.env.job} /\ Submitted \subseteq Submitted'
  BY DEF PublishFinish, consumerVars, Submitted
<1>4. At(a, y.env.job) /\ a[1] \in {"call", "out"} /\ a # Queued
  BY <1>2 DEF At, Queued
<1>5. ~InSeq(pending, y.env.job)
  BY <1>1, <1>4, NotQueued DEF PlaceInv
<1>6. \/ LandsQueued(y.env) /\ UNCHANGED timers
      \/ LandsNowhere(y.env) /\ UNCHANGED timers
      \/ \E t : LandsTimed(y.env, t)
  BY <1>1, <1>5, ScheduleLands DEF PublishFinish, PlaceInv
<1> HIDE DEF a
<1>7. \A x, j : (AtCall(x, j)' \/ AtOut(x, j)') <=>
                  (AtCall(x, j) \/ AtOut(x, j)) /\ ~(x = a /\ j \in {y.env.job})
  <2>1. \A j : ~AtOut(a, j)
    BY PlaceTags DEF a
  <2>2. \A x, j : AtOut(x, j)' <=> AtOut(x, j)
    BY <1>3, SamePlaces
  <2>3. QED
    BY <1>2, <2>1, <2>2
<1>8. QED
  BY <1>1, <1>3, <1>4, <1>6, <1>7, LandingMoves

LEMMA TimerFiresMoves ==
  ASSUME TypeInv, PlaceInv, NEW t \in timers, TimerFires(t)
  PROVE  PlaceInv'
<1> DEFINE e == t.env
           a == <<"timer", t>>
<1>1. e \in Envelope /\ e.job \in Jobs
  BY DEF TypeInv, TypeOK, CallerType, Timer, Envelope
<1>2. /\ AtTimer(a, e.job)
      /\ \A x, j : AtTimer(x, j)' <=> AtTimer(x, j) /\ ~(x = a /\ j \in {e.job})
  BY TimerLoses DEF TimerFires
<1>3. UNCHANGED <<hand, chan, unread, settled, dead, closed, calls, out, accepted>>
  BY DEF TimerFires, consumerVars
<1>4. (\A j \in {e.job} : At(a, j)) /\ a[1] = "timer" /\ a # Queued
  BY <1>2 DEF At, Queued
<1>5. ~InSeq(pending, e.job)
  BY <1>1, <1>4, NotQueued DEF PlaceInv
<1>6. LandsQueued(e) \/ LandsNowhere(e)
  BY <1>1, <1>5, EnqueueLands DEF TimerFires, PlaceInv
<1>7. accepted' \subseteq Jobs /\ Submitted \subseteq Submitted'
  BY <1>3 DEF TypeInv, TypeOK, CallerType, Submitted
<1> HIDE DEF a, e
<1>8. CASE LandsQueued(e)
  <2>1. Moves({e.job}, a, Queued)
    BY <1>2, <1>3, <1>4, <1>8, SamePlaces, PlaceTags DEF Moves, At, LandsQueued
  <2>2. OnePlace' /\ \A j \in Jobs : Outcome(j)
    BY <1>3, <1>4, <1>8, <2>1, MoveOutcome DEF PlaceInv, LandsQueued
  <2>3. OncePlaced' /\ Growing
    BY <1>3, <1>7, <1>8 DEF PlaceInv, OncePlaced, Growing, LandsQueued
  <2>4. QED
    BY <2>2, <2>3, PlacesKept
<1>9. CASE LandsNowhere(e)
  <2>1. PICK why : gone' = gone \cup {Gone(e, why)}
    BY <1>9 DEF LandsNowhere
  <2>2. Excused(e.job)' /\ \A j : GoneFor(j)' <=> GoneFor(j) \/ j = e.job
    BY <1>3, <1>9, <2>1, GoneSince DEF LandsNowhere
  <2>3. Leaves({e.job}, a)
    BY <1>2, <1>3, <1>4, <1>9, SamePlaces, PlaceTags DEF Leaves, At, LandsNowhere
  <2>4. \A j : Finished(j)' <=> Finished(j)
    BY <1>3 DEF Finished
  <2>5. OnePlace' /\ \A j \in Jobs : Outcome(j)
    BY <1>3, <1>4, <2>2, <2>3, <2>4, LeaveOutcome DEF PlaceInv
  <2>6. OncePlaced' /\ Growing
    BY <1>3, <1>7, <1>9, <2>1 DEF PlaceInv, OncePlaced, Growing, LandsNowhere
  <2>7. QED
    BY <2>5, <2>6, PlacesKept
<1>10. QED
  BY <1>6, <1>8, <1>9

LEMMA SuccessorMoves ==
  ASSUME TypeInv, PlaceInv, NEW d \in out, RetrySchedule(d) \/ DeferHold(d)
  PROVE  PlaceInv'
<1> DEFINE a == <<"out", d>>
<1>1. d \in Delivery /\ d.env \in Envelope /\ d.env.job \in Jobs
  BY DEF TypeInv, TypeOK, CallerType, Delivery, Envelope
<1>2. PICK e \in Envelope : e.job = d.env.job /\ (Schedule(e, d.delay) \/ Hold(e, d.delay))
  <2>1. CASE RetrySchedule(d)
    <3>1. NextAttempt(d.env) \in Envelope
      BY <1>1, <2>1, NextAttemptType DEF RetrySchedule, TypeInv, SuccessorInv
    <3>2. NextAttempt(d.env).job = d.env.job
      BY <1>1 DEF NextAttempt, Envelope
    <3>3. QED
      BY <2>1, <3>1, <3>2 DEF RetrySchedule
  <2>2. CASE DeferHold(d)
    <3>1. Deferred(d.env) \in Envelope
      BY <1>1, <2>2, DeferredType DEF DeferHold, TypeInv, SuccessorInv
    <3>2. Deferred(d.env).job = d.env.job
      BY <1>1 DEF Deferred, Envelope
    <3>3. QED
      BY <2>2, <3>1, <3>2 DEF DeferHold
  <2>3. QED
    BY <2>1, <2>2
<1>3. PICK phase \in {"retried", "deferred"} : Advance(d, phase, 0)
  BY DEF RetrySchedule, DeferHold
<1>4. d.phase \in Running /\ phase \notin Running /\ phase \in Phases /\ phase # d.phase
  BY DEF RetrySchedule, DeferHold, Running, Phases
<1>5. /\ AtOut(a, d.env.job)
      /\ \A x, j : AtOut(x, j)' <=> AtOut(x, j) /\ ~(x = a /\ j \in {d.env.job})
  BY <1>3, <1>4, OutAdvances DEF TypeInv, TypeOK, CallerType
<1>6. UNCHANGED <<hand, chan, unread, settled, dead, closed, calls, accepted>>
  BY DEF RetrySchedule, DeferHold, consumerVars
<1>7. At(a, e.job) /\ a[1] \in {"call", "out"} /\ a # Queued
  BY <1>2, <1>5 DEF At, Queued
<1>8. ~InSeq(pending, e.job)
  BY <1>1, <1>2, <1>7, NotQueued DEF PlaceInv
<1>9. \/ LandsQueued(e) /\ UNCHANGED timers
      \/ LandsNowhere(e) /\ UNCHANGED timers
      \/ \E t : LandsTimed(e, t)
  BY <1>2, <1>8, ScheduleLands DEF PlaceInv
<1>10. accepted' \subseteq accepted \cup {e.job} /\ Submitted \subseteq Submitted'
  BY <1>6 DEF Submitted
<1> HIDE DEF a
<1>11. \A x, j : (AtCall(x, j)' \/ AtOut(x, j)') <=>
                   (AtCall(x, j) \/ AtOut(x, j)) /\ ~(x = a /\ j \in {e.job})
  <2>1. \A j : ~AtCall(a, j)
    BY PlaceTags DEF a
  <2>2. \A x, j : AtCall(x, j)' <=> AtCall(x, j)
    BY <1>6, SamePlaces
  <2>3. QED
    BY <1>2, <1>5, <2>1, <2>2
<1>12. QED
  BY <1>6, <1>7, <1>9, <1>10, <1>11, LandingMoves

\* A delivery that can still be run is settled for good or forgotten.
LEMMA EndMoves ==
  ASSUME TypeInv, PlaceInv, NEW d \in out, d.phase \in Running, out' = out \ {d},
         UNCHANGED <<pending, hand, chan, unread, calls, timers, accepted, closed>>,
         gone \subseteq gone', Finished(d.env.job)' \/ Excused(d.env.job)',
         \A j \in Jobs \ {d.env.job} :
           (Finished(j)' <=> Finished(j)) /\ (GoneFor(j)' <=> GoneFor(j))
  PROVE  PlaceInv'
<1> DEFINE a == <<"out", d>>
           e == d.env.job
<1>1. /\ AtOut(a, e)
      /\ \A x, j : AtOut(x, j)' <=> AtOut(x, j) /\ ~(x = a /\ j \in {e})
  BY OutLoses
<1>2. a[1] = "out"
  OBVIOUS
<1> HIDE DEF a
<1>3. Leaves({e}, a)
  BY <1>1, <1>2, SamePlaces, PlaceTags DEF Leaves, At
<1>4. \A j \in {e} : At(a, j)
  BY <1>1 DEF At
<1>5. OnePlace' /\ \A j \in Jobs : Outcome(j)
  BY <1>3, <1>4, LeaveOutcome DEF PlaceInv
<1>6. OncePlaced'
  BY DEF PlaceInv, OncePlaced
<1>7. Growing
  BY DEF Growing, Submitted, TypeInv, TypeOK, CallerType
<1>8. QED
  BY <1>5, <1>6, <1>7, PlacesKept

LEMMA ForgetMoves ==
  ASSUME TypeInv, PlaceInv, NEW d \in out, d.phase \in Running, NEW why, Forget(d, why),
         closed \/ why = "unsettled"
  PROVE  PlaceInv'
<1>1. /\ UNCHANGED <<pending, hand, chan, unread, calls, timers, accepted, closed>>
      /\ UNCHANGED <<settled, dead>>
      /\ out' = out \ {d} /\ gone' = gone \cup {Gone(d.env, why)}
  BY DEF Forget, Release, sharedVars
<1>2. /\ \A j : GoneFor(j)' <=> GoneFor(j) \/ j = d.env.job
      /\ Excused(d.env.job)'
  BY <1>1, GoneSince
<1>3. \A j : Finished(j)' <=> Finished(j)
  BY <1>1 DEF Finished
<1>4. QED
  BY <1>1, <1>2, <1>3, EndMoves

LEMMA FinishMoves ==
  ASSUME TypeInv, PlaceInv, NEW d \in out, Ack(d) \/ (DeadLetter(d) /\ ~closed)
  PROVE  PlaceInv'
<1>1. /\ UNCHANGED <<pending, hand, chan, unread, calls, timers, accepted, closed, gone>>
      /\ out' = out \ {d} /\ d.phase \in Running
      /\ \/ settled' = settled \cup {[env |-> d.env, kind |-> "Succeeded"]} /\ UNCHANGED dead
         \/ dead' = dead \cup {d.env} /\ UNCHANGED settled
  BY DEF Ack, DeadLetter, RecordAck, Release, Forget, Running
<1>2. Finished(d.env.job)'
  <2>1. CASE dead' = dead \cup {d.env}
    BY <2>1 DEF Finished
  <2>2. ASSUME NEW r, r = [env |-> d.env, kind |-> "Succeeded"], settled' = settled \cup {r}
        PROVE  Finished(d.env.job)'
    <3>1. r.env.job = d.env.job /\ r.kind = "Succeeded" /\ r \in settled'
      BY <2>2
    <3>2. QED
      BY <3>1, Zenon DEF Finished
  <2>3. QED
    BY <1>1, <2>1, <2>2
<1>3. \A j : j # d.env.job => (Finished(j)' <=> Finished(j)) /\ (GoneFor(j)' <=> GoneFor(j))
  BY <1>1 DEF Finished, GoneFor
<1>4. QED
  BY <1>1, <1>2, <1>3, EndMoves

LEMMA AdvanceMoves ==
  ASSUME TypeInv, PlaceInv, NEW d \in out, d.phase = "held", NEW phase \in {"retry", "defer"},
         NEW delay \in {0, 1}, Advance(d, phase, delay),
         UNCHANGED <<calls, timers, accepted, gone>>, UNCHANGED <<sharedVars, consumerVars>>
  PROVE  PlaceInv'
<1> DEFINE n == [d EXCEPT !.phase = phase, !.delay = delay]
           a == <<"out", d>>
           b == <<"out", n>>
           e == d.env.job
<1>0. n.env = d.env /\ n.phase = phase /\ n # d /\ out' = (out \ {d}) \cup {n}
  <2>1. d \in Delivery
    BY DEF TypeInv, TypeOK, CallerType
  <2>2. n.env = d.env /\ n.phase = phase
    BY <2>1 DEF Delivery
  <2>3. QED
    BY <2>2 DEF Advance
<1> HIDE DEF n
<1>1. d.phase \in Running /\ phase \in Running /\ phase \in Phases /\ phase # d.phase
  BY DEF Running, Phases
<1>2. /\ AtOut(a, e)
      /\ \A x, j : AtOut(x, j)' <=>
           \/ AtOut(x, j) /\ ~(x = a /\ j \in {e})
           \/ x = b /\ j \in {e}
  BY <1>0, <1>1 DEF AtOut
<1>3. /\ UNCHANGED <<pending, hand, chan, unread, calls, timers, accepted, closed, gone>>
      /\ UNCHANGED <<settled, dead>>
  BY DEF sharedVars, consumerVars
<1>4. a[1] = "out"
  OBVIOUS
<1> HIDE DEF a, b
<1>5. Moves({e}, a, b)
  BY <1>2, <1>3, <1>4, SamePlaces, PlaceTags DEF Moves, At
<1>6. \A j \in {e} : At(a, j)
  BY <1>2 DEF At
<1>7. OnePlace' /\ \A j \in Jobs : Outcome(j)
  BY <1>3, <1>5, <1>6, MoveOutcome DEF PlaceInv
<1>8. OncePlaced'
  BY <1>3 DEF PlaceInv, OncePlaced
<1>9. Growing
  BY <1>3 DEF Growing, Submitted, TypeInv, TypeOK, CallerType
<1>10. QED
  BY <1>7, <1>8, <1>9, PlacesKept

\* The third critical section of retry and defer: the successor is what counts.
LEMMA SettleAckMoves ==
  ASSUME TypeInv, PlaceInv, NEW d \in out, SettleAck(d)
  PROVE  PlaceInv'
<1>1. /\ UNCHANGED <<pending, hand, chan, unread, calls, timers, accepted, closed, gone, dead>>
      /\ out' = out \ {d} /\ d.phase \notin Running
      /\ \E kind \in {"Retried", "Deferred"} :
           settled' = settled \cup {[env |-> d.env, kind |-> kind]}
  BY DEF SettleAck, RecordAck, Release, Running
<1>2. \A x, j : AtOut(x, j)' <=> AtOut(x, j)
  BY <1>1, OutDrops
<1>3. \A x, j : At(x, j)' <=> At(x, j)
  BY <1>1, <1>2, SamePlaces DEF At
<1>4. \A j : Finished(j)' <=> Finished(j)
  BY <1>1 DEF Finished
<1>5. OnePlace' /\ \A j \in Jobs : Outcome(j)
  BY <1>1, <1>3, <1>4, StayOutcome DEF PlaceInv
<1>6. OncePlaced'
  BY <1>1 DEF PlaceInv, OncePlaced
<1>7. Growing
  BY <1>1 DEF Growing, Submitted, TypeInv, TypeOK, CallerType
<1>8. QED
  BY <1>5, <1>6, <1>7, PlacesKept

LEMMA PlaceDelivery ==
  ASSUME TypeInv, PlaceInv, NEW d \in out, Settle(d) \/ DropDelivery(d) \/ SettleOn(d)
  PROVE  PlaceInv'
<1>1. CASE Ack(d) \/ DeadLetter(d)
  <2>1. CASE Ack(d) \/ (DeadLetter(d) /\ ~closed)
    BY <2>1, FinishMoves
  <2>2. CASE DeadLetter(d) /\ closed
    BY <2>2, ForgetMoves DEF DeadLetter, Running
  <2>3. QED
    BY <1>1, <2>1, <2>2
<1>2. ASSUME NEW phase \in {"retry", "defer"}, NEW delay \in {0, 1}, SettleCheck(d, phase, delay)
      PROVE  PlaceInv'
  BY <1>2, ForgetMoves, AdvanceMoves DEF SettleCheck, Running
<1>3. CASE \E delay \in {0, 1} : RetryCheck(d, delay) \/ DeferCheck(d, delay)
  BY <1>2, <1>3 DEF RetryCheck, DeferCheck
<1>4. CASE DropDelivery(d)
  BY <1>4, ForgetMoves DEF DropDelivery, Running
<1>5. QED
  BY <1>1, <1>3, <1>4, SuccessorMoves, SettleAckMoves DEF Settle, SettleOn

-----------------------------------------------------------------------------
(***************************************************************************)
(* The inductive invariant of the places, for every step.                  *)
(***************************************************************************)
LEMMA InitPlace == Init => IdleInv /\ PlaceInv
<1> SUFFICES ASSUME Init PROVE IdleInv /\ PlaceInv
  OBVIOUS
<1>1. IdleInv
  BY DEF Init, IdleInv
<1>2. OncePlaced
  BY EmptySeq DEF Init, OncePlaced
<1>3. \A x, j : ~At(x, j)
  <2>1. \A x, j : ~AtPending(x, j) /\ ~AtChan(x, j) /\ ~AtUnread(x, j)
    BY EmptySeq DEF Init, AtPending, AtChan, AtUnread
  <2>2. \A x, j : ~AtHand(x, j) /\ ~AtCall(x, j) /\ ~AtTimer(x, j) /\ ~AtOut(x, j)
    BY DEF Init, AtHand, AtCall, AtTimer, AtOut
  <2>3. QED
    BY <2>1, <2>2 DEF At
<1>4. OnePlace
  BY <1>3 DEF OnePlace
<1>5. NowhereInv
  BY <1>3 DEF Init, NowhereInv, Somewhere, Finished, GoneFor
<1>6. LostInv
  BY DEF Init, LostInv
<1>7. QED
  BY <1>1, <1>2, <1>4, <1>5, <1>6 DEF PlaceInv

LEMMA IdleStep == TypeInv /\ IdleInv /\ [Next]_vars => IdleInv'
<1> SUFFICES ASSUME TypeInv, IdleInv, [Next]_vars PROVE IdleInv'
  OBVIOUS
<1>1. CASE UNCHANGED <<pc, hand, rx, unread>>
  BY <1>1 DEF IdleInv
<1>2. /\ pc \in [Consumers -> ConsumerPc]
      /\ hand \in [Consumers -> Envelope \cup {NoEnvelope}]
      /\ rx \in [Consumers -> {"none", "open", "dropped"}]
      /\ unread \in [Consumers -> Seq(Envelope)]
  BY DEF TypeInv, TypeOK, ConsumerType
<1>3. ASSUME NEW c \in Consumers, Consume(c) PROVE IdleInv'
  BY <1>2, <1>3 DEF Consume, IdleInv
<1>4. ASSUME NEW c \in Consumers, AcquirePermit(c) \/ AwaitSignal(c) \/ Unregister(c)
      PROVE  IdleInv'
  <2>1. /\ UNCHANGED <<hand, rx, unread>> /\ pc[c] \notin {"send", "none"}
        /\ \E v \in {"ending", "poll", "ended"} : pc' = [pc EXCEPT ![c] = v]
    BY <1>4, Zenon DEF AcquirePermit, AwaitSignal, Unregister, Leave
  <2>2. QED
    BY <1>2, <2>1 DEF IdleInv
<1>5. ASSUME NEW c \in Consumers, PopFront(c) PROVE IdleInv'
  <2>1. UNCHANGED <<rx, unread>> /\ pc[c] \notin {"send", "none"}
    BY <1>5 DEF PopFront
  <2>2. CASE UNCHANGED hand /\ \E v \in {"ending", "wait"} : pc' = [pc EXCEPT ![c] = v]
    BY <1>2, <2>1, <2>2 DEF IdleInv
  <2>3. CASE pc' = [pc EXCEPT ![c] = "send"] /\ hand' = [hand EXCEPT ![c] = Head(pending)]
    BY <1>2, <2>1, <2>3 DEF IdleInv
  <2>4. QED
    BY <1>5, <2>2, <2>3, Zenon DEF PopFront, Leave
<1>6. ASSUME NEW c \in Consumers, Send(c) \/ SendFails(c) PROVE IdleInv'
  <2>1. /\ UNCHANGED <<rx, unread>> /\ pc[c] = "send"
        /\ hand' = [hand EXCEPT ![c] = NoEnvelope]
        /\ \E v \in {"ending", "permit"} : pc' = [pc EXCEPT ![c] = v]
    BY <1>6, Zenon DEF Send, SendFails, Leave
  <2>2. QED
    BY <1>2, <2>1 DEF IdleInv
<1>7. ASSUME NEW c \in Consumers, DropStream(c) PROVE IdleInv'
  BY <1>2, <1>7 DEF DropStream, IdleInv
<1>8. ASSUME NEW c \in Consumers, RequeueUnread(c) PROVE IdleInv'
  BY <1>2, <1>8 DEF RequeueUnread, IdleInv
<1>9. CASE \E c \in Consumers : StreamNext(c)
  BY <1>1, <1>9 DEF StreamNext
<1>10. CASE \E d \in out : Settle(d) \/ DropDelivery(d) \/ SettleOn(d)
  BY <1>1, <1>10 DEF Settle, SettleOn, Ack, DeadLetter, DropDelivery, RetryCheck, DeferCheck,
     SettleCheck, SettleAck, RecordAck, Forget, Release, RetrySchedule, DeferHold, consumerVars
<1>11. CASE \/ \E j \in Jobs, hold \in BOOLEAN, delay \in {0, 1} : PublishCheck(j, hold, delay)
            \/ \E call \in calls : PublishFinish(call)
            \/ \E t \in timers : TimerFires(t)
            \/ Close
  BY <1>1, <1>11 DEF PublishCheck, PublishFinish, TimerFires, Close, consumerVars
<1>12. CASE UNCHANGED vars
  BY <1>1, <1>12 DEF vars, consumerVars
<1>13. QED
  BY <1>3, <1>4, <1>5, <1>6, <1>7, <1>8, <1>9, <1>10, <1>11, <1>12 DEF Next, ConsumerTask

LEMMA PlaceStep == TypeInv /\ IdleInv /\ PlaceInv /\ [Next]_vars => PlaceInv'
<1> SUFFICES ASSUME TypeInv, IdleInv, PlaceInv, [Next]_vars PROVE PlaceInv'
  OBVIOUS
<1>1. CASE Close \/ UNCHANGED vars
  BY <1>1, NoPlaceTouched DEF Close, vars, sharedVars, consumerVars, callerVars
<1>2. CASE \E c \in Consumers : StreamNext(c) \/ DropStream(c) \/ RequeueUnread(c)
  BY <1>2, StreamNextMoves, DropStreamMoves, RequeueUnreadMoves
<1>3. CASE \E c \in Consumers : Consume(c) \/ ConsumerTask(c)
  BY <1>3, PlaceConsumer
<1>4. CASE \E d \in out : Settle(d) \/ DropDelivery(d) \/ SettleOn(d)
  BY <1>4, PlaceDelivery
<1>5. QED
  BY <1>1, <1>2, <1>3, <1>4, SubmitMoves, PublishFinishMoves, TimerFiresMoves DEF Next

\* The inductive invariant: types, idle hands, and one place for every job.
IInv == TypeInv /\ IdleInv /\ PlaceInv

\* The conjunction above holds in every reachable state of the memory backend: this
\* is where each critical section is shown to move a job's copy, never to copy it.
THEOREM Invariance == Spec => []IInv
<1>1. IdleInv /\ PlaceInv /\ TypeInv /\ [Next]_vars => IdleInv' /\ PlaceInv'
  BY IdleStep, PlaceStep
<1>2. QED
  BY <1>1, InitPlace, TypeInvariant, PTL DEF Spec, IInv

-----------------------------------------------------------------------------
(***************************************************************************)
(* What it says of Runnable.                                               *)
(***************************************************************************)

\* The place a runnable copy is in.
PlaceOf(x) ==
  IF x[1] = "pending" THEN Queued
  ELSE IF x[1] \in {"chan", "unread"} THEN <<x[1], x[2][1]>> ELSE x

LEMMA RunnableForms ==
  ASSUME NEW j, NEW x
  PROVE  x \in Runnable(j) <=>
           \/ \E i \in DOMAIN pending : x = <<"pending", i>> /\ pending[i].job = j
           \/ \E c \in Consumers : x = <<"hand", c>> /\ hand[c] # NoEnvelope /\ hand[c].job = j
           \/ \E c \in Consumers : \E i \in DOMAIN chan[c] :
                x = <<"chan", <<c, i>>>> /\ chan[c][i].job = j
           \/ \E c \in Consumers : \E i \in DOMAIN unread[c] :
                x = <<"unread", <<c, i>>>> /\ unread[c][i].job = j
           \/ AtCall(x, j) \/ AtTimer(x, j) \/ AtOut(x, j)
<1>1. \A y : y \in {<<"chan", z>> : z \in {w \in UNION {{c} \X DOMAIN chan[c] : c \in Consumers} :
                              chan[w[1]][w[2]].job = j}}
         <=> \E c \in Consumers : \E i \in DOMAIN chan[c] :
                y = <<"chan", <<c, i>>>> /\ chan[c][i].job = j
  OBVIOUS
<1>2. \A y : y \in {<<"unread", z>> : z \in {w \in UNION {{c} \X DOMAIN unread[c] : c \in Consumers} :
                              unread[w[1]][w[2]].job = j}}
         <=> \E c \in Consumers : \E i \in DOMAIN unread[c] :
                y = <<"unread", <<c, i>>>> /\ unread[c][i].job = j
  OBVIOUS
<1>3. QED
  BY <1>1, <1>2 DEF Runnable, AtCall, AtTimer, AtOut, Running

LEMMA RunnablePlaces ==
  ASSUME NEW j, NEW x \in Runnable(j)
  PROVE  At(PlaceOf(x), j)
<1>1. CASE \E i \in DOMAIN pending : x = <<"pending", i>> /\ pending[i].job = j
  BY <1>1 DEF At, AtPending, InSeq, PlaceOf
<1>2. CASE \E c \in Consumers : x = <<"hand", c>> /\ hand[c] # NoEnvelope /\ hand[c].job = j
  BY <1>2 DEF At, AtHand, PlaceOf
<1>3. ASSUME NEW c \in Consumers, NEW i \in DOMAIN chan[c],
             x = <<"chan", <<c, i>>>>, chan[c][i].job = j
      PROVE  At(PlaceOf(x), j)
  <2>1. PlaceOf(x) = <<"chan", c>>
    BY <1>3 DEF PlaceOf
  <2>2. QED
    BY <1>3, <2>1 DEF At, AtChan, InSeq
<1>4. ASSUME NEW c \in Consumers, NEW i \in DOMAIN unread[c],
             x = <<"unread", <<c, i>>>>, unread[c][i].job = j
      PROVE  At(PlaceOf(x), j)
  <2>1. PlaceOf(x) = <<"unread", c>>
    BY <1>4 DEF PlaceOf
  <2>2. QED
    BY <1>4, <2>1 DEF At, AtUnread, InSeq
<1>5. CASE AtCall(x, j) \/ AtTimer(x, j) \/ AtOut(x, j)
  <2>1. x[1] \in {"call", "timer", "out"}
    BY <1>5, PlaceTags
  <2>2. PlaceOf(x) = x
    BY <2>1 DEF PlaceOf
  <2>3. QED
    BY <1>5, <2>2 DEF At
<1>6. QED
  BY <1>1, <1>2, <1>3, <1>4, <1>5, RunnableForms

LEMMA PlacesRunnable ==
  ASSUME NEW j, Somewhere(j)
  PROVE  Runnable(j) # {}
<1>1. PICK x : At(x, j)
  BY DEF Somewhere
<1>2. CASE AtPending(x, j)
  BY <1>2, RunnableForms DEF AtPending, InSeq
<1>3. CASE AtHand(x, j)
  BY <1>3, RunnableForms DEF AtHand
<1>4. CASE AtChan(x, j)
  BY <1>4, RunnableForms DEF AtChan, InSeq
<1>5. CASE AtUnread(x, j)
  BY <1>5, RunnableForms DEF AtUnread, InSeq
<1>6. CASE AtCall(x, j) \/ AtTimer(x, j) \/ AtOut(x, j)
  BY <1>6, RunnableForms
<1>7. QED
  BY <1>1, <1>2, <1>3, <1>4, <1>5, <1>6 DEF At

\* Two runnable copies of a job are in one place, and there at one index.
LEMMA RunnableOnce ==
  ASSUME OnePlace, OncePlaced, NEW j \in Jobs, NEW x \in Runnable(j), NEW y \in Runnable(j)
  PROVE  x = y
<1>1. PlaceOf(x) = PlaceOf(y)
  BY RunnablePlaces DEF OnePlace
<1> DEFINE Form(z) ==
      \/ \E i \in DOMAIN pending : z = <<"pending", i>> /\ pending[i].job = j
      \/ \E c \in Consumers : z = <<"hand", c>> /\ hand[c] # NoEnvelope /\ hand[c].job = j
      \/ \E c \in Consumers : \E i \in DOMAIN chan[c] :
           z = <<"chan", <<c, i>>>> /\ chan[c][i].job = j
      \/ \E c \in Consumers : \E i \in DOMAIN unread[c] :
           z = <<"unread", <<c, i>>>> /\ unread[c][i].job = j
      \/ AtCall(z, j) \/ AtTimer(z, j) \/ AtOut(z, j)
<1>2. Form(x) /\ Form(y)
  BY RunnableForms
<1>3. \A z : Form(z) =>
        \/ /\ z[1] = "pending" /\ PlaceOf(z) = Queued
           /\ z[2] \in DOMAIN pending /\ pending[z[2]].job = j /\ z = <<"pending", z[2]>>
        \/ z[1] \in {"hand", "call", "timer", "out"} /\ PlaceOf(z) = z
        \/ \E c \in Consumers : \E i \in DOMAIN chan[c] :
             z = <<"chan", <<c, i>>>> /\ chan[c][i].job = j /\ PlaceOf(z) = <<"chan", c>>
        \/ \E c \in Consumers : \E i \in DOMAIN unread[c] :
             z = <<"unread", <<c, i>>>> /\ unread[c][i].job = j /\ PlaceOf(z) = <<"unread", c>>
  <2> SUFFICES ASSUME NEW z, Form(z)
               PROVE
        \/ /\ z[1] = "pending" /\ PlaceOf(z) = Queued
           /\ z[2] \in DOMAIN pending /\ pending[z[2]].job = j /\ z = <<"pending", z[2]>>
        \/ z[1] \in {"hand", "call", "timer", "out"} /\ PlaceOf(z) = z
        \/ \E c \in Consumers : \E i \in DOMAIN chan[c] :
             z = <<"chan", <<c, i>>>> /\ chan[c][i].job = j /\ PlaceOf(z) = <<"chan", c>>
        \/ \E c \in Consumers : \E i \in DOMAIN unread[c] :
             z = <<"unread", <<c, i>>>> /\ unread[c][i].job = j /\ PlaceOf(z) = <<"unread", c>>
    OBVIOUS
  <2>1. AtCall(z, j) \/ AtTimer(z, j) \/ AtOut(z, j) => z[1] \in {"call", "timer", "out"}
    BY PlaceTags
  <2>2. \A c, i : PlaceOf(<<"chan", <<c, i>>>>) = <<"chan", c>>
    BY DEF PlaceOf
  <2>3. \A c, i : PlaceOf(<<"unread", <<c, i>>>>) = <<"unread", c>>
    BY DEF PlaceOf
  <2>4. z[1] \in {"hand", "call", "timer", "out"} => PlaceOf(z) = z
    BY DEF PlaceOf
  <2>5. z[1] = "pending" => PlaceOf(z) = Queued
    BY DEF PlaceOf
  <2>6. QED
    BY <2>1, <2>2, <2>3, <2>4, <2>5
<1> HIDE DEF Form
<1>4. CASE x[1] = "pending" \/ y[1] = "pending"
  <2>1. x[1] = "pending" /\ y[1] = "pending"
    BY <1>1, <1>2, <1>3, <1>4 DEF Queued
  <2>2. QED
    BY <1>2, <1>3, <2>1 DEF OncePlaced, Once
<1>5. ASSUME NEW c \in Consumers, NEW i \in DOMAIN chan[c], chan[c][i].job = j,
             NEW b \in Consumers, NEW k \in DOMAIN chan[b], chan[b][k].job = j,
             x = <<"chan", <<c, i>>>>, y = <<"chan", <<b, k>>>>, c = b
      PROVE  x = y
  BY <1>5 DEF OncePlaced, Once
<1>6. ASSUME NEW c \in Consumers, NEW i \in DOMAIN unread[c], unread[c][i].job = j,
             NEW b \in Consumers, NEW k \in DOMAIN unread[b], unread[b][k].job = j,
             x = <<"unread", <<c, i>>>>, y = <<"unread", <<b, k>>>>, c = b
      PROVE  x = y
  BY <1>6 DEF OncePlaced, Once
<1>7. CASE x[1] # "pending" /\ y[1] # "pending"
  BY <1>1, <1>2, <1>3, <1>5, <1>6, <1>7
<1>8. QED
  BY <1>4, <1>7

\* The memory backend never duplicates a job, for any number of jobs, consumers,
\* timers and callers: at most one copy of it can be run, and none once it is done.
THEOREM NeverDuplicated == Spec => []OneRunnableCopy
<1>1. IInv => OneRunnableCopy
  <2> SUFFICES ASSUME IInv, NEW j \in Jobs
               PROVE  Cardinality(Runnable(j)) <= 1 /\ (Finished(j) => Runnable(j) = {})
    BY DEF OneRunnableCopy
  <2>1. CASE Runnable(j) = {}
    BY <2>1, FS_EmptySet
  <2>2. ASSUME NEW x \in Runnable(j)
        PROVE  Cardinality(Runnable(j)) <= 1 /\ ~Finished(j)
    <3>1. Runnable(j) = {x}
      BY RunnableOnce DEF IInv, PlaceInv
    <3>2. Cardinality({x}) = 1
      BY FS_Singleton
    <3>3. ~Finished(j)
      BY RunnablePlaces DEF IInv, PlaceInv, NowhereInv, Somewhere
    <3>4. QED
      BY <3>1, <3>2, <3>3
  <2>3. QED
    BY <2>1, <2>2
<1>2. QED
  BY <1>1, Invariance, PTL

\* A message never vanishes because a consumer went away: whatever a stream, a send,
\* a retry, a timer or a requeue does, an accepted job can still be run or is done,
\* unless its delivery was dropped by its owner or the backend was closed.
THEOREM NeverLost == Spec => []NoJobLost
<1>1. IInv => NoJobLost
  BY PlacesRunnable DEF IInv, PlaceInv, LostInv, Excused, NoJobLost
<1>2. QED
  BY <1>1, Invariance, PTL

-----------------------------------------------------------------------------
(***************************************************************************)
(* The counter of holds.  A new hold is a new timer, because the job it    *)
(* waits for was elsewhere, and it is counted; so release_hold never       *)
(* saturates while a hold is alive.                                        *)
(***************************************************************************)
Holds == {t \in timers : t.hold}

HeldInv == IsFiniteSet(Holds) /\ HeldIsExact

LEMMA HeldSame ==
  ASSUME HeldInv, UNCHANGED held, Holds' = Holds
  PROVE  HeldInv'
BY DEF HeldInv, HeldIsExact, Holds

LEMMA HeldQuiet ==
  ASSUME HeldInv, UNCHANGED <<held, timers>>
  PROVE  HeldInv'
BY HeldSame DEF Holds

\* Where a job is, no timer waits for it.
LEMMA NotTimed ==
  ASSUME OnePlace, NEW e, e.job \in Jobs, NEW a, At(a, e.job), a[1] # "timer", NEW hold
  PROVE  [env |-> e, hold |-> hold] \notin timers
<1> DEFINE t == [env |-> e, hold |-> hold]
<1>1. t.env = e
  OBVIOUS
<1> HIDE DEF t
<1>2. t \in timers => At(<<"timer", t>>, e.job)
  BY <1>1 DEF At, AtTimer
<1>3. <<"timer", t>>[1] = "timer"
  OBVIOUS
<1>4. t \notin timers
  BY <1>2, <1>3 DEF OnePlace
<1>5. QED
  BY <1>4 DEF t

LEMMA HoldBegins ==
  ASSUME HeldInv, TypeInv, OnePlace, NEW e \in Envelope, NEW a, At(a, e.job), a[1] # "timer",
         NEW delay, Schedule(e, delay) \/ Hold(e, delay)
  PROVE  HeldInv'
<1>1. CASE UNCHANGED <<timers, held>>
  BY <1>1, HeldQuiet
<1>2. e.job \in Jobs
  BY DEF Envelope
<1>3. ASSUME NEW t, t = [env |-> e, hold |-> FALSE], timers' = timers \cup {t}, UNCHANGED held
      PROVE  HeldInv'
  <2>1. t.hold = FALSE
    BY <1>3
  <2>2. Holds' = Holds
    BY <1>3, <2>1 DEF Holds
  <2>3. QED
    BY <1>3, <2>2, HeldSame
<1>4. ASSUME NEW t, t = [env |-> e, hold |-> TRUE], timers' = timers \cup {t}, held' = held + 1
      PROVE  HeldInv'
  <2>1. t.hold = TRUE /\ t \notin timers
    BY <1>2, <1>4, NotTimed
  <2>2. Holds' = Holds \cup {t} /\ t \notin Holds
    BY <1>4, <2>1 DEF Holds
  <2>3. IsFiniteSet(Holds) /\ held = Cardinality(Holds)
    BY DEF HeldInv, HeldIsExact, Holds
  <2>4. IsFiniteSet(Holds') /\ Cardinality(Holds') = Cardinality(Holds) + 1
    BY <2>2, <2>3, FS_AddElement
  <2>5. held' = Cardinality(Holds')
    BY <1>4, <2>3, <2>4
  <2>6. QED
    BY <2>4, <2>5 DEF HeldInv, HeldIsExact, Holds
<1>5. QED
  BY <1>1, <1>3, <1>4 DEF Schedule, Hold

LEMMA HoldEnds ==
  ASSUME HeldInv, TypeInv, NEW t \in timers, TimerFires(t)
  PROVE  HeldInv'
<1>1. t.hold \in BOOLEAN /\ timers' = timers \ {t}
  BY DEF TypeInv, TypeOK, CallerType, Timer, TimerFires
<1>2. CASE t.hold = FALSE
  <2>1. Holds' = Holds
    BY <1>1, <1>2 DEF Holds
  <2>2. QED
    BY <1>2, <2>1, HeldSame DEF TimerFires
<1>3. CASE t.hold = TRUE
  <2>1. Holds' = Holds \ {t} /\ t \in Holds
    BY <1>1, <1>3 DEF Holds
  <2>2. IsFiniteSet(Holds) /\ held = Cardinality(Holds)
    BY DEF HeldInv, HeldIsExact, Holds
  <2>3. IsFiniteSet(Holds') /\ Cardinality(Holds') = Cardinality(Holds) - 1
    BY <2>1, <2>2, FS_RemoveElement
  <2>4. Cardinality(Holds) \in Nat /\ Cardinality(Holds) # 0
    BY <2>1, <2>2, FS_CardinalityType, FS_EmptySet
  <2>5. held' = held - 1
    BY <1>3, <2>2, <2>4 DEF TimerFires, ReleaseHold
  <2>6. held' = Cardinality(Holds')
    BY <2>2, <2>3, <2>5
  <2>7. QED
    BY <2>3, <2>6 DEF HeldInv, HeldIsExact, Holds
<1>4. QED
  BY <1>1, <1>2, <1>3

\* `deferred()` is exact, for any number of holds, timers and closes: the counter is
\* the number of live holds at every moment.
THEOREM HoldsCounted == Spec => []HeldIsExact
<1>1. Init => HeldInv
  <2> SUFFICES ASSUME Init PROVE HeldInv
    OBVIOUS
  <2>1. Holds = {} /\ held = 0
    BY DEF Init, Holds
  <2>2. QED
    BY <2>1, FS_EmptySet DEF HeldInv, HeldIsExact, Holds
<1>2. IInv /\ HeldInv /\ [Next]_vars => HeldInv'
  <2> SUFFICES ASSUME IInv, HeldInv, [Next]_vars PROVE HeldInv'
    OBVIOUS
  <2>1. ASSUME NEW y \in calls, PublishFinish(y) PROVE HeldInv'
    <3> DEFINE a == <<"call", y>>
    <3>1. y.env \in Envelope
      BY DEF IInv, TypeInv, TypeOK, CallerType, Call
    <3>2. At(a, y.env.job) /\ a[1] # "timer"
      BY DEF At, AtCall
    <3> HIDE DEF a
    <3>3. Schedule(y.env, y.delay) \/ Hold(y.env, y.delay)
      BY <2>1 DEF PublishFinish
    <3>4. QED
      BY <3>1, <3>2, <3>3, HoldBegins DEF IInv, PlaceInv
  <2>2. ASSUME NEW d \in out, RetrySchedule(d) \/ DeferHold(d) PROVE HeldInv'
    <3> DEFINE a == <<"out", d>>
    <3>1. d \in Delivery /\ d.env \in Envelope /\ d.phase \in Running
      BY <2>2 DEF IInv, TypeInv, TypeOK, CallerType, Delivery, RetrySchedule, DeferHold, Running
    <3>2. At(a, d.env.job) /\ a[1] # "timer"
      BY <3>1 DEF At, AtOut
    <3> HIDE DEF a
    <3>3. CASE RetrySchedule(d)
      <4>1. NextAttempt(d.env) \in Envelope
        BY <3>1, <3>3, NextAttemptType DEF RetrySchedule, IInv, TypeInv, SuccessorInv
      <4>2. NextAttempt(d.env).job = d.env.job
        BY <3>1 DEF NextAttempt, Envelope
      <4>3. QED
        BY <3>2, <3>3, <4>1, <4>2, HoldBegins DEF RetrySchedule, IInv, PlaceInv
    <3>4. CASE DeferHold(d)
      <4>1. Deferred(d.env) \in Envelope
        BY <3>1, <3>4, DeferredType DEF DeferHold, IInv, TypeInv, SuccessorInv
      <4>2. Deferred(d.env).job = d.env.job
        BY <3>1 DEF Deferred, Envelope
      <4>3. QED
        BY <3>2, <3>4, <4>1, <4>2, HoldBegins DEF DeferHold, IInv, PlaceInv
    <3>5. QED
      BY <2>2, <3>3, <3>4
  <2>3. CASE \E t \in timers : TimerFires(t)
    BY <2>3, HoldEnds DEF IInv
  <2>4. CASE \E d \in out : Settle(d) \/ DropDelivery(d) \/ SettleAck(d)
    BY <2>4, HeldQuiet DEF Settle, Ack, DeadLetter, DropDelivery, RetryCheck, DeferCheck,
       SettleCheck, SettleAck, RecordAck, Forget, sharedVars
  <2>5. CASE \E c \in Consumers : \/ Consume(c) \/ ConsumerTask(c) \/ StreamNext(c)
                                  \/ DropStream(c) \/ RequeueUnread(c)
    BY <2>5, HeldQuiet DEF Consume, ConsumerTask, AcquirePermit, PopFront, AwaitSignal, Send,
       SendFails, Unregister, StreamNext, DropStream, RequeueUnread, sharedVars, callerVars
  <2>6. CASE \/ \E j \in Jobs, hold \in BOOLEAN, delay \in {0, 1} : PublishCheck(j, hold, delay)
             \/ Close \/ UNCHANGED vars
    BY <2>6, HeldQuiet DEF PublishCheck, Close, vars, sharedVars, callerVars
  <2>7. QED
    BY <2>1, <2>2, <2>3, <2>4, <2>5, <2>6 DEF Next, SettleOn
<1>3. HeldInv => HeldIsExact
  BY DEF HeldInv
<1>4. QED
  BY <1>1, <1>2, <1>3, Invariance, PTL DEF Spec

-----------------------------------------------------------------------------
(***************************************************************************)
(* The prefetch window.  Every message a consumer has taken holds one      *)
(* permit of its semaphore, and so does the consumer between acquiring one *)
(* and popping; no step makes their sum with the free permits larger.      *)
(***************************************************************************)
Mine(c) == {d \in out : d.consumer = c}
Handed(c) == Cardinality(Mine(c))
InHand(c) == IF hand[c] = NoEnvelope THEN 0 ELSE 1
Busy(c) == IF pc[c] \in {"poll", "wait"} THEN 1 ELSE 0

SlotOf(c) ==
  /\ IsFiniteSet(Mine(c))
  /\ pc[c] = "none" => Mine(c) = {} /\ chan[c] = <<>>
  /\ permits[c] + Handed(c) + Len(chan[c]) + InHand(c) + Busy(c) <= Permits

SlotInv == \A c \in Consumers : SlotOf(c)

LEMMA SlotTypes ==
  ASSUME TypeInv, NEW c \in Consumers, SlotOf(c)
  PROVE  /\ permits[c] \in Nat /\ Handed(c) \in Nat /\ Len(chan[c]) \in Nat
         /\ chan[c] \in Seq(Envelope)
         /\ InHand(c) \in {0, 1} /\ Busy(c) \in {0, 1} /\ Permits \in Nat
<1>1. permits[c] \in Nat /\ chan[c] \in Seq(Envelope)
  BY DEF TypeInv, TypeOK, ConsumerType
<1>2. Len(chan[c]) \in Nat
  BY <1>1
<1>3. Handed(c) \in Nat
  BY FS_CardinalityType DEF SlotOf, Handed
<1>4. Permits \in Nat
  BY MemoryAssumption DEF MemoryAssumption, Permits
<1>5. QED
  BY <1>1, <1>2, <1>3, <1>4 DEF InHand, Busy

\* The sums the steps below turn into each other.
LEMMA SumAcquire ==
  \A p, h, l, i, b, w \in Nat : p + h + l + i + b <= w =>
    (p - 1) + h + l + i + 0 <= w /\ (p - 1) + h + l + i + 1 <= w
OBVIOUS

LEMMA SumSend ==
  \A p, h, l, i, b, w \in Nat : p + h + l + i + b <= w /\ i = 1 =>
    (p + 1) + h + l + 0 + 0 <= w /\ p + h + (l + 1) + 0 + 0 <= w
OBVIOUS

LEMMA SumNext ==
  \A p, h, l, i, b, w \in Nat : p + h + l + i + b <= w =>
    p + (h + 1) + (l - 1) + i + b <= w
OBVIOUS

LEMMA SumNextAgain ==
  \A p, h, l, i, b, w \in Nat : p + h + l + i + b <= w =>
    p + h + (l - 1) + i + b <= w
OBVIOUS

LEMMA SumSettle ==
  \A p, h, l, i, b, w \in Nat : p + h + l + i + b <= w =>
    (p + 1) + (h - 1) + l + i + b <= w
OBVIOUS

LEMMA SumAdvance ==
  \A p, h, l, i, b, w \in Nat : p + h + l + i + b <= w =>
    p + (h - 1) + l + i + b <= w
OBVIOUS

\* A consumer of which nothing changes keeps its window.
LEMMA SlotSame ==
  ASSUME NEW b, SlotOf(b), Mine(b)' = Mine(b), chan'[b] = chan[b], pc'[b] = pc[b],
         hand'[b] = hand[b], permits'[b] = permits[b]
  PROVE  SlotOf(b)'
<1>1. Handed(b)' = Handed(b)
  BY DEF Handed
<1>2. InHand(b)' = InHand(b) /\ Busy(b)' = Busy(b)
  BY DEF InHand, Busy
<1>3. QED
  BY <1>1, <1>2 DEF SlotOf

LEMMA SlotQuiet ==
  ASSUME SlotInv, UNCHANGED <<out, chan, pc, hand, permits>>
  PROVE  SlotInv'
<1>1. \A b : Mine(b)' = Mine(b)
  BY DEF Mine
<1>2. QED
  BY <1>1, SlotSame DEF SlotInv

\* A step of one consumer's task that hands nothing out.
LEMMA SlotTask ==
  ASSUME TypeInv, SlotInv, UNCHANGED out, NEW c \in Consumers,
         \A b \in Consumers \ {c} : /\ chan'[b] = chan[b] /\ pc'[b] = pc[b]
                                    /\ hand'[b] = hand[b] /\ permits'[b] = permits[b],
         pc'[c] # "none",
         permits'[c] + Handed(c) + Len(chan'[c]) + InHand(c)' + Busy(c)' <= Permits
  PROVE  SlotInv'
<1>1. \A b : Mine(b)' = Mine(b)
  BY DEF Mine
<1>2. \A b \in Consumers \ {c} : SlotOf(b)'
  BY <1>1, SlotSame DEF SlotInv
<1>3. SlotOf(c)'
  <2>1. Handed(c)' = Handed(c)
    BY <1>1 DEF Handed
  <2>2. IsFiniteSet(Mine(c)')
    BY <1>1 DEF SlotInv, SlotOf
  <2>3. QED
    BY <2>1, <2>2 DEF SlotOf
<1>4. QED
  BY <1>2, <1>3 DEF SlotInv

LEMMA SlotConsumer ==
  ASSUME TypeInv, IdleInv, SlotInv, NEW c \in Consumers, Consume(c) \/ ConsumerTask(c)
  PROVE  SlotInv'
<1>1. /\ pc \in [Consumers -> ConsumerPc] /\ permits \in [Consumers -> Nat]
      /\ hand \in [Consumers -> Envelope \cup {NoEnvelope}]
      /\ chan \in [Consumers -> Seq(Envelope)]
  BY DEF TypeInv, TypeOK, ConsumerType
<1>2. /\ permits[c] \in Nat /\ Handed(c) \in Nat /\ Len(chan[c]) \in Nat
      /\ chan[c] \in Seq(Envelope)
      /\ InHand(c) \in {0, 1} /\ Busy(c) \in {0, 1} /\ Permits \in Nat
  BY SlotTypes DEF SlotInv
<1>3. permits[c] + Handed(c) + Len(chan[c]) + InHand(c) + Busy(c) <= Permits
  BY DEF SlotInv, SlotOf
<1>4. UNCHANGED out
  BY DEF Consume, ConsumerTask, AcquirePermit, PopFront, AwaitSignal, Send, SendFails,
     Unregister, callerVars
<1>5. \A v, w : /\ hand'[c] = NoEnvelope => InHand(c)' = 0
                /\ InHand(c)' <= 1
                /\ hand' = hand => InHand(c)' = InHand(c)
                /\ pc'[c] \notin {"poll", "wait"} => Busy(c)' = 0
                /\ Busy(c)' <= 1
  BY DEF InHand, Busy
<1>6. /\ pc[c] \in {"poll", "wait"} => Busy(c) = 1
      /\ hand[c] \in Envelope => InHand(c) = 1
      /\ pc[c] # "send" => InHand(c) = 0
  BY MemoryAssumption DEF InHand, Busy, IdleInv, MemoryAssumption
<1>7. CASE Consume(c)
  <2>1. Handed(c) = 0 /\ chan[c] = <<>> /\ Len(chan[c]) = 0
    BY <1>7, FS_EmptySet DEF Consume, SlotInv, SlotOf, Handed
  <2>2. UNCHANGED <<chan, hand>> /\ pc' = [pc EXCEPT ![c] = pc'[c]] /\ pc'[c] \in {"ended", "permit"}
    BY <1>1, <1>7 DEF Consume
  <2>3. /\ permits'[c] \in {permits[c], Permits}
        /\ \A b \in Consumers \ {c} : permits'[b] = permits[b] /\ pc'[b] = pc[b]
    BY <1>1, <1>7 DEF Consume
  <2>4. InHand(c)' = 0 /\ Busy(c)' = 0
    BY <1>5, <1>6, <1>7, <2>2 DEF Consume
  <2>5. permits'[c] + Handed(c) + Len(chan'[c]) + InHand(c)' + Busy(c)' <= Permits
    BY <1>2, <1>3, <2>1, <2>2, <2>3, <2>4
  <2>6. QED
    BY <1>4, <2>2, <2>3, <2>5, SlotTask
<1>8. CASE AcquirePermit(c)
  <2>1. UNCHANGED <<chan, hand>> /\ pc'[c] \in {"ending", "poll"}
    BY <1>1, <1>8 DEF AcquirePermit
  <2>2. /\ \/ permits'[c] = permits[c] /\ pc'[c] = "ending"
           \/ permits'[c] = permits[c] - 1
        /\ \A b \in Consumers \ {c} : permits'[b] = permits[b] /\ pc'[b] = pc[b]
    BY <1>1, <1>8 DEF AcquirePermit
  <2>3. permits'[c] + Handed(c) + Len(chan'[c]) + InHand(c)' + Busy(c)' <= Permits
    <3>1. InHand(c)' = InHand(c) /\ (pc'[c] = "ending" => Busy(c)' = 0) /\ Busy(c)' \in {0, 1}
      BY <2>1 DEF InHand, Busy
    <3>2. Busy(c) \in Nat /\ InHand(c) \in Nat /\ Len(chan'[c]) = Len(chan[c])
      BY <1>2, <2>1
    <3>3. CASE permits'[c] = permits[c] /\ Busy(c)' = 0
      BY <1>2, <1>3, <3>1, <3>2, <3>3
    <3>4. CASE permits'[c] = permits[c] - 1
      <4>1. /\ (permits[c] - 1) + Handed(c) + Len(chan[c]) + InHand(c) + 0 <= Permits
            /\ (permits[c] - 1) + Handed(c) + Len(chan[c]) + InHand(c) + 1 <= Permits
        BY <1>2, <1>3, <3>2, SumAcquire, Zenon
      <4>2. QED
        BY <3>1, <3>2, <3>4, <4>1
    <3>5. QED
      BY <2>2, <3>1, <3>3, <3>4
  <2>4. QED
    BY <1>4, <2>1, <2>2, <2>3, SlotTask
<1>9. CASE PopFront(c)
  <2>1. /\ UNCHANGED chan /\ pc'[c] \in {"ending", "send", "wait"}
        /\ pc[c] = "poll"
    BY <1>1, <1>9 DEF PopFront, Leave
  <2>2. \A b \in Consumers \ {c} : /\ permits'[b] = permits[b] /\ pc'[b] = pc[b]
                                   /\ hand'[b] = hand[b]
    BY <1>1, <1>9 DEF PopFront, Leave
  <2>3. \/ permits'[c] = permits[c] + 1 /\ UNCHANGED hand /\ pc'[c] = "ending"
        \/ permits'[c] = permits[c] /\ pc'[c] = "send"
        \/ permits'[c] = permits[c] /\ UNCHANGED hand /\ pc'[c] = "wait"
    BY <1>1, <1>9 DEF PopFront, Leave
  <2>4. /\ UNCHANGED hand => InHand(c)' = 0
        /\ InHand(c)' \in {0, 1} /\ Busy(c)' \in {0, 1}
        /\ pc'[c] \in {"ending", "send"} => Busy(c)' = 0
    BY <1>6, <2>1 DEF InHand, Busy
  <2>5. Busy(c) = 1 /\ InHand(c) = 0
    BY <1>6, <2>1
  <2>6. permits'[c] + Handed(c) + Len(chan'[c]) + InHand(c)' + Busy(c)' <= Permits
    BY <1>2, <1>3, <2>1, <2>3, <2>4, <2>5, SMTT(60)
  <2>7. QED
    BY <1>4, <2>1, <2>2, <2>6, SlotTask
<1>10. CASE AwaitSignal(c)
  <2>1. UNCHANGED <<chan, hand>> /\ pc'[c] \in {"ending", "poll"} /\ pc[c] = "wait"
    BY <1>1, <1>10 DEF AwaitSignal, Leave
  <2>2. /\ \A b \in Consumers \ {c} : permits'[b] = permits[b] /\ pc'[b] = pc[b]
        /\ \/ permits'[c] = permits[c] + 1 /\ pc'[c] = "ending"
           \/ permits'[c] = permits[c]
    BY <1>1, <1>10 DEF AwaitSignal, Leave
  <2>3. /\ InHand(c)' = InHand(c) /\ Busy(c)' \in {0, 1} /\ Busy(c) = 1
        /\ pc'[c] = "ending" => Busy(c)' = 0
    BY <1>6, <2>1 DEF InHand, Busy
  <2>4. permits'[c] + Handed(c) + Len(chan'[c]) + InHand(c)' + Busy(c)' <= Permits
    BY <1>2, <1>3, <2>1, <2>2, <2>3, SMTT(60)
  <2>5. QED
    BY <1>4, <2>1, <2>2, <2>4, SlotTask
<1>11. CASE Send(c) \/ SendFails(c)
  <2>1. /\ pc[c] = "send" /\ hand[c] \in Envelope /\ hand'[c] = NoEnvelope
        /\ pc'[c] \in {"ending", "permit"}
    BY <1>1, <1>11 DEF Send, SendFails, Leave, TypeInv, HandInv
  <2>2. \A b \in Consumers \ {c} : /\ permits'[b] = permits[b] /\ pc'[b] = pc[b]
                                   /\ hand'[b] = hand[b] /\ chan'[b] = chan[b]
    BY <1>1, <1>11 DEF Send, SendFails, Leave
  <2>3. \/ permits'[c] = permits[c] /\ chan'[c] = Append(chan[c], hand[c])
        \/ permits'[c] = permits[c] + 1 /\ chan'[c] = chan[c]
    BY <1>1, <1>11 DEF Send, SendFails, Leave
  <2>5. InHand(c) = 1 /\ InHand(c)' = 0 /\ Busy(c)' = 0
    BY <1>5, <1>6, <2>1
  <2>7. permits'[c] + Handed(c) + Len(chan'[c]) + InHand(c)' + Busy(c)' <= Permits
    <3>0. Len(Append(chan[c], hand[c])) = Len(chan[c]) + 1
      BY <1>2, <2>1
    <3>1. Busy(c) \in Nat /\ InHand(c) \in Nat
      BY <1>2
    <3>2. /\ (permits[c] + 1) + Handed(c) + Len(chan[c]) + 0 + 0 <= Permits
          /\ permits[c] + Handed(c) + (Len(chan[c]) + 1) + 0 + 0 <= Permits
      BY <1>2, <1>3, <2>5, <3>1, SumSend, Zenon
    <3>3. QED
      BY <2>3, <2>5, <3>0, <3>2
  <2>8. QED
    BY <1>4, <2>1, <2>2, <2>7, SlotTask
<1>12. CASE Unregister(c)
  <2>1. UNCHANGED <<chan, hand, permits>> /\ pc'[c] = "ended"
    BY <1>1, <1>12 DEF Unregister
  <2>2. \A b \in Consumers \ {c} : pc'[b] = pc[b]
    BY <1>1, <1>12 DEF Unregister
  <2>3. InHand(c)' = InHand(c) /\ Busy(c)' = 0
    BY <2>1 DEF InHand, Busy
  <2>4. permits'[c] + Handed(c) + Len(chan'[c]) + InHand(c)' + Busy(c)' <= Permits
    BY <1>2, <1>3, <2>1, <2>3
  <2>5. QED
    BY <1>4, <2>1, <2>2, <2>4, SlotTask
<1>13. QED
  BY <1>7, <1>8, <1>9, <1>10, <1>11, <1>12 DEF ConsumerTask

LEMMA SlotStream ==
  ASSUME TypeInv, IdleInv, SlotInv, NEW c \in Consumers, StreamNext(c) \/ DropStream(c)
  PROVE  SlotInv'
<1>1. /\ pc \in [Consumers -> ConsumerPc] /\ permits \in [Consumers -> Nat]
      /\ chan \in [Consumers -> Seq(Envelope)]
  BY DEF TypeInv, TypeOK, ConsumerType
<1>2. /\ permits[c] \in Nat /\ Handed(c) \in Nat /\ Len(chan[c]) \in Nat
      /\ chan[c] \in Seq(Envelope)
      /\ InHand(c) \in {0, 1} /\ Busy(c) \in {0, 1} /\ Permits \in Nat
  BY SlotTypes DEF SlotInv
<1>3. permits[c] + Handed(c) + Len(chan[c]) + InHand(c) + Busy(c) <= Permits
  BY DEF SlotInv, SlotOf
<1>4. pc[c] # "none" /\ UNCHANGED <<pc, hand>>
  BY DEF StreamNext, DropStream, IdleInv
<1>5. InHand(c)' = InHand(c) /\ Busy(c)' = Busy(c)
  BY <1>4 DEF InHand, Busy
<1>6. CASE StreamNext(c)
  <2> DEFINE d == [env |-> Head(chan[c]), consumer |-> c, phase |-> "held", delay |-> 0]
  <2>1. d.consumer = c /\ out' = out \cup {d}
    BY <1>6 DEF StreamNext
  <2> HIDE DEF d
  <2>2. Mine(c)' = Mine(c) \cup {d} /\ \A b \in Consumers \ {c} : Mine(b)' = Mine(b)
    BY <2>1 DEF Mine
  <2>3. /\ chan[c] # <<>> /\ chan'[c] = Tail(chan[c]) /\ permits' = permits
        /\ \A b \in Consumers \ {c} : chan'[b] = chan[b]
    BY <1>1, <1>6 DEF StreamNext
  <2>4. Len(chan'[c]) = Len(chan[c]) - 1 /\ Len(chan'[c]) \in Nat
    BY <1>2, <2>3
  <2>5. IsFiniteSet(Mine(c))
    BY DEF SlotInv, SlotOf
  <2>6. /\ IsFiniteSet(Mine(c)')
        /\ Handed(c)' \in {Handed(c), Handed(c) + 1}
    BY <2>2, <2>5, FS_AddElement DEF Handed
  <2>7. permits'[c] + Handed(c)' + Len(chan'[c]) + InHand(c)' + Busy(c)' <= Permits
    <3>1. Busy(c) \in Nat /\ InHand(c) \in Nat /\ permits'[c] = permits[c]
      BY <1>2, <2>3
    <3>2. /\ permits[c] + (Handed(c) + 1) + (Len(chan[c]) - 1) + InHand(c) + Busy(c) <= Permits
          /\ permits[c] + Handed(c) + (Len(chan[c]) - 1) + InHand(c) + Busy(c) <= Permits
      <4>1. /\ permits[c] \in Nat /\ Handed(c) \in Nat /\ Len(chan[c]) \in Nat
            /\ InHand(c) \in Nat /\ Busy(c) \in Nat /\ Permits \in Nat
        BY <1>2, <3>1
      <4>2. permits[c] + (Handed(c) + 1) + (Len(chan[c]) - 1) + InHand(c) + Busy(c) <= Permits
        BY <1>3, <4>1, SumNext
      <4>3. permits[c] + Handed(c) + (Len(chan[c]) - 1) + InHand(c) + Busy(c) <= Permits
        BY <1>3, <4>1, SumNextAgain
      <4>4. QED
        BY <4>2, <4>3
    <3>3. CASE Handed(c)' = Handed(c)
      BY <1>5, <2>4, <3>1, <3>2, <3>3
    <3>4. CASE Handed(c)' = Handed(c) + 1
      BY <1>5, <2>4, <3>1, <3>2, <3>4
    <3>5. QED
      BY <2>6, <3>3, <3>4
  <2>8. SlotOf(c)'
    BY <1>4, <2>6, <2>7 DEF SlotOf
  <2>9. \A b \in Consumers \ {c} : SlotOf(b)'
    BY <1>4, <2>2, <2>3, SlotSame DEF SlotInv
  <2>10. QED
    BY <2>8, <2>9 DEF SlotInv
<1>7. CASE DropStream(c)
  <2>1. /\ UNCHANGED out /\ permits'[c] = permits[c] + Len(chan[c])
        /\ chan'[c] = <<>>
    BY <1>1, <1>7 DEF DropStream, callerVars
  <2>2. \A b \in Consumers \ {c} : permits'[b] = permits[b] /\ chan'[b] = chan[b]
    BY <1>1, <1>7 DEF DropStream
  <2>3. Len(chan'[c]) = 0
    BY <2>1
  <2>4. permits'[c] + Handed(c) + Len(chan'[c]) + InHand(c)' + Busy(c)' <= Permits
    BY <1>2, <1>3, <1>5, <2>1, <2>3
  <2>5. QED
    BY <1>4, <2>1, <2>2, <2>4, SlotTask
<1>8. QED
  BY <1>6, <1>7

\* Settling or dropping a delivery gives its permit back.
LEMMA SlotReleased ==
  ASSUME TypeInv, SlotInv, NEW d \in out, Release(d)
  PROVE  SlotInv'
<1> DEFINE c == d.consumer
<1>0. c \in Consumers /\ permits \in [Consumers -> Nat]
  BY DEF TypeInv, TypeOK, CallerType, ConsumerType, Delivery
<1>1. /\ permits[c] \in Nat /\ Handed(c) \in Nat /\ Len(chan[c]) \in Nat
      /\ InHand(c) \in {0, 1} /\ Busy(c) \in {0, 1} /\ Permits \in Nat
  BY <1>0, SlotTypes DEF SlotInv
<1>2. /\ permits[c] + Handed(c) + Len(chan[c]) + InHand(c) + Busy(c) <= Permits
      /\ IsFiniteSet(Mine(c))
  BY <1>0 DEF SlotInv, SlotOf
<1>3. UNCHANGED <<pc, hand, chan>> /\ out' = out \ {d}
  BY DEF Release
<1>4. permits'[c] = permits[c] + 1 /\ \A b \in Consumers \ {c} : permits'[b] = permits[b]
  BY <1>0 DEF Release
<1>5. /\ Mine(c)' = Mine(c) \ {d} /\ d \in Mine(c)
      /\ \A b \in Consumers \ {c} : Mine(b)' = Mine(b)
  BY <1>3 DEF Mine
<1> HIDE DEF c
<1>6. IsFiniteSet(Mine(c)') /\ Handed(c)' = Handed(c) - 1
  BY <1>2, <1>5, FS_RemoveElement DEF Handed
<1>7. InHand(c)' = InHand(c) /\ Busy(c)' = Busy(c)
  BY <1>3 DEF InHand, Busy
<1>8. permits'[c] + Handed(c)' + Len(chan'[c]) + InHand(c)' + Busy(c)' <= Permits
  <2>1. /\ permits[c] \in Nat /\ Handed(c) \in Nat /\ Len(chan[c]) \in Nat
        /\ InHand(c) \in Nat /\ Busy(c) \in Nat /\ Permits \in Nat
    BY <1>1
  <2>2. (permits[c] + 1) + (Handed(c) - 1) + Len(chan[c]) + InHand(c) + Busy(c) <= Permits
    BY <1>2, <2>1, SumSettle
  <2>3. QED
    BY <1>3, <1>4, <1>6, <1>7, <2>2
<1>9. SlotOf(c)'
  <2>1. pc'[c] # "none"
    BY <1>0, <1>3, <1>5 DEF SlotInv, SlotOf
  <2>2. QED
    BY <1>6, <1>8, <2>1 DEF SlotOf
<1>10. \A b \in Consumers \ {c} : SlotOf(b)'
  BY <1>3, <1>4, <1>5, SlotSame DEF SlotInv
<1>11. QED
  BY <1>9, <1>10 DEF SlotInv

\* A delivery that is being settled keeps its permit.
LEMMA SlotAdvanced ==
  ASSUME TypeInv, SlotInv, NEW d \in out, NEW phase, NEW delay, Advance(d, phase, delay),
         UNCHANGED <<pc, hand, chan, permits>>
  PROVE  SlotInv'
<1> DEFINE c == d.consumer
           n == [d EXCEPT !.phase = phase, !.delay = delay]
<1>0. d \in Delivery /\ c \in Consumers
  BY DEF TypeInv, TypeOK, CallerType, Delivery
<1>1. n.consumer = c
  BY <1>0 DEF Delivery
<1>2. out' = (out \ {d}) \cup {n}
  BY DEF Advance
<1> HIDE DEF n
<1>3. /\ Mine(c)' = (Mine(c) \ {d}) \cup {n} /\ d \in Mine(c)
      /\ \A b \in Consumers \ {c} : Mine(b)' = Mine(b)
  BY <1>1, <1>2 DEF Mine
<1> HIDE DEF c
<1>4. /\ permits[c] \in Nat /\ Handed(c) \in Nat /\ Len(chan[c]) \in Nat
      /\ InHand(c) \in {0, 1} /\ Busy(c) \in {0, 1} /\ Permits \in Nat
  BY <1>0, SlotTypes DEF SlotInv
<1>5. /\ permits[c] + Handed(c) + Len(chan[c]) + InHand(c) + Busy(c) <= Permits
      /\ IsFiniteSet(Mine(c))
  BY <1>0 DEF SlotInv, SlotOf
<1>6. IsFiniteSet(Mine(c) \ {d}) /\ Cardinality(Mine(c) \ {d}) = Handed(c) - 1
  BY <1>3, <1>5, FS_RemoveElement DEF Handed
<1>7. IsFiniteSet(Mine(c)') /\ Handed(c)' \in {Handed(c) - 1, Handed(c)}
  <2>1. /\ IsFiniteSet((Mine(c) \ {d}) \cup {n})
        /\ Cardinality((Mine(c) \ {d}) \cup {n}) =
             IF n \in Mine(c) \ {d} THEN Cardinality(Mine(c) \ {d})
                                    ELSE Cardinality(Mine(c) \ {d}) + 1
    BY <1>6, FS_AddElement
  <2>2. Handed(c)' = Cardinality(Mine(c)')
    BY DEF Handed
  <2>3. QED
    BY <1>3, <1>4, <1>6, <2>1, <2>2
<1>8. InHand(c)' = InHand(c) /\ Busy(c)' = Busy(c)
  BY DEF InHand, Busy
<1>9. permits'[c] + Handed(c)' + Len(chan'[c]) + InHand(c)' + Busy(c)' <= Permits
  <2>1. /\ permits[c] \in Nat /\ Handed(c) \in Nat /\ Len(chan[c]) \in Nat
        /\ InHand(c) \in Nat /\ Busy(c) \in Nat /\ Permits \in Nat
    BY <1>4
  <2>2. CASE Handed(c)' = Handed(c)
    BY <1>5, <1>8, <2>2
  <2>3. CASE Handed(c)' = Handed(c) - 1
    <3>1. permits[c] + (Handed(c) - 1) + Len(chan[c]) + InHand(c) + Busy(c) <= Permits
      BY <1>5, <2>1, SumAdvance
    <3>2. QED
      BY <1>8, <2>3, <3>1
  <2>4. QED
    BY <1>7, <2>2, <2>3
<1>10. SlotOf(c)'
  <2>1. pc'[c] # "none"
    BY <1>0, <1>3 DEF SlotInv, SlotOf
  <2>2. QED
    BY <1>7, <1>9, <2>1 DEF SlotOf
<1>11. \A b \in Consumers \ {c} : SlotOf(b)'
  BY <1>3, SlotSame DEF SlotInv
<1>12. QED
  BY <1>10, <1>11 DEF SlotInv

LEMMA SlotDelivery ==
  ASSUME TypeInv, SlotInv, NEW d \in out, Settle(d) \/ DropDelivery(d) \/ SettleOn(d)
  PROVE  SlotInv'
<1>1. CASE Release(d)
  BY <1>1, SlotReleased
<1>2. CASE (\E phase, delay : Advance(d, phase, delay)) /\ UNCHANGED <<pc, hand, chan, permits>>
  BY <1>2, SlotAdvanced
<1>3. ASSUME NEW phase, NEW delay, SettleCheck(d, phase, delay) PROVE SlotInv'
  BY <1>1, <1>2, <1>3 DEF SettleCheck, Forget, consumerVars
<1>4. CASE RetrySchedule(d) \/ DeferHold(d)
  BY <1>2, <1>4 DEF RetrySchedule, DeferHold, consumerVars
<1>5. CASE Ack(d) \/ DeadLetter(d) \/ DropDelivery(d) \/ SettleAck(d)
  BY <1>1, <1>5 DEF Ack, DeadLetter, DropDelivery, SettleAck, RecordAck, Forget
<1>6. QED
  BY <1>3, <1>4, <1>5 DEF Settle, SettleOn, RetryCheck, DeferCheck

\* consume honours prefetch, for any window and any number of consumers: what a
\* consumer has taken off the queue and nobody has settled fits its window.
THEOREM WindowKept == Spec => []PrefetchBound
<1>1. Init => SlotInv
  <2> SUFFICES ASSUME Init, NEW c \in Consumers PROVE SlotOf(c)
    BY DEF SlotInv
  <2>1. Mine(c) = {} /\ chan[c] = <<>> /\ permits[c] = 0 /\ hand[c] = NoEnvelope /\ pc[c] = "none"
    BY DEF Init, Mine
  <2>2. Handed(c) = 0 /\ IsFiniteSet(Mine(c)) /\ InHand(c) = 0 /\ Busy(c) = 0 /\ Len(chan[c]) = 0
    BY <2>1, FS_EmptySet DEF Handed, InHand, Busy
  <2>3. Permits \in Nat
    BY MemoryAssumption DEF MemoryAssumption, Permits
  <2>4. QED
    BY <2>1, <2>2, <2>3 DEF SlotOf
<1>2. IInv /\ SlotInv /\ [Next]_vars => SlotInv'
  <2> SUFFICES ASSUME TypeInv, IdleInv, SlotInv, [Next]_vars PROVE SlotInv'
    BY DEF IInv
  <2>1. CASE \E c \in Consumers : Consume(c) \/ ConsumerTask(c)
    BY <2>1, SlotConsumer
  <2>2. CASE \E c \in Consumers : StreamNext(c) \/ DropStream(c)
    BY <2>2, SlotStream
  <2>3. CASE \E d \in out : Settle(d) \/ DropDelivery(d) \/ SettleOn(d)
    BY <2>3, SlotDelivery
  <2>4. CASE \/ \E j \in Jobs, hold \in BOOLEAN, delay \in {0, 1} : PublishCheck(j, hold, delay)
             \/ \E call \in calls : PublishFinish(call)
             \/ \E t \in timers : TimerFires(t)
             \/ \E c \in Consumers : RequeueUnread(c)
             \/ Close \/ UNCHANGED vars
    BY <2>4, SlotQuiet DEF PublishCheck, PublishFinish, TimerFires, RequeueUnread, Close, vars,
       sharedVars, consumerVars, callerVars
  <2>5. QED
    BY <2>1, <2>2, <2>3, <2>4 DEF Next
<1>3. TypeInv /\ SlotInv => PrefetchBound
  <2> SUFFICES ASSUME TypeInv, SlotInv, NEW c \in Consumers PROVE Outstanding(c) <= Permits
    BY DEF PrefetchBound
  <2>1. /\ permits[c] \in Nat /\ Handed(c) \in Nat /\ Len(chan[c]) \in Nat
        /\ InHand(c) \in {0, 1} /\ Busy(c) \in {0, 1} /\ Permits \in Nat
    BY SlotTypes DEF SlotInv
  <2>2. permits[c] + Handed(c) + Len(chan[c]) + InHand(c) + Busy(c) <= Permits
    BY DEF SlotInv, SlotOf
  <2>3. Outstanding(c) = Handed(c) + Len(chan[c]) + InHand(c)
    BY DEF Outstanding, Handed, Mine, InHand
  <2>4. InHand(c) \in Nat /\ Busy(c) \in Nat
    BY <2>1
  <2>5. QED
    BY <2>1, <2>2, <2>3, <2>4, SMTT(60)
<1>4. QED
  BY <1>1, <1>2, <1>3, Invariance, PTL DEF Spec, IInv

-----------------------------------------------------------------------------
(***************************************************************************)
(* What a closed backend accepts.                                          *)
(***************************************************************************)

\* A closed backend accepts nothing, for any number of callers past their closed
\* check, timers and settling deliveries: no dead letter is recorded, and the only
\* messages that come back to pending are the ones consumers had popped.
THEOREM ClosedStaysShut == Spec => ClosedAcceptsNothing
<1> DEFINE Accepts ==
      closed => /\ dead' = dead
                /\ \A i \in DOMAIN pending' :
                     \/ \E k \in DOMAIN pending : pending'[i] = pending[k]
                     \/ \E c \in Consumers : pending'[i] = hand[c]
<1>1. TypeInv /\ [Next]_vars => Accepts
  <2> SUFFICES ASSUME TypeInv, [Next]_vars, closed
               PROVE  /\ dead' = dead
                      /\ \A i \in DOMAIN pending' :
                           \/ \E k \in DOMAIN pending : pending'[i] = pending[k]
                           \/ \E c \in Consumers : pending'[i] = hand[c]
    OBVIOUS
  <2>1. CASE UNCHANGED <<pending, dead>>
    BY <2>1
  <2>2. ASSUME NEW c \in Consumers, SendFails(c)
        PROVE  Accepts
    <3>1. pending \in Seq(Envelope) /\ hand[c] \in Envelope
      BY <2>2 DEF SendFails, TypeInv, TypeOK, SharedType, HandInv
    <3> DEFINE n == Len(pending)
               p == <<hand[c]>> \o pending
    <3>2. /\ n \in Nat /\ DOMAIN pending = 1..n /\ DOMAIN p = 1..(n + 1) /\ p[1] = hand[c]
          /\ \A i \in 2..(n + 1) : p[i] = pending[i - 1]
      BY <3>1
    <3>3. pending' = p /\ dead' = dead
      BY <2>2 DEF SendFails
    <3> HIDE DEF n, p
    <3>4. ASSUME NEW i \in DOMAIN pending'
          PROVE  \/ \E k \in DOMAIN pending : pending'[i] = pending[k]
                 \/ \E b \in Consumers : pending'[i] = hand[b]
      <4>1. i \in 1..(n + 1)
        BY <3>2, <3>3
      <4>2. CASE i = 1
        BY <3>2, <3>3, <4>2
      <4>3. CASE i # 1
        <5>1. i - 1 \in DOMAIN pending /\ i \in 2..(n + 1)
          BY <3>2, <4>1, <4>3
        <5>2. QED
          BY <3>2, <3>3, <5>1
      <4>4. QED
        BY <4>2, <4>3
    <3>5. QED
      BY <3>3, <3>4
  <2>3. ASSUME NEW e, NEW delay, Schedule(e, delay) \/ Hold(e, delay) PROVE UNCHANGED pending
    BY <2>3 DEF Schedule, Hold, EnqueueNow
  <2>4. CASE \E call \in calls : PublishFinish(call)
    BY <2>1, <2>3, <2>4 DEF PublishFinish
  <2>5. CASE \E t \in timers : TimerFires(t)
    BY <2>1, <2>5 DEF TimerFires, EnqueueNow
  <2>6. CASE \E d \in out : Settle(d) \/ DropDelivery(d) \/ SettleOn(d)
    <3>1. PICK d \in out : Settle(d) \/ DropDelivery(d) \/ SettleOn(d)
      BY <2>6
    <3>2. CASE RetrySchedule(d) \/ DeferHold(d)
      BY <2>1, <2>3, <3>2 DEF RetrySchedule, DeferHold
    <3>3. CASE Settle(d) \/ DropDelivery(d) \/ SettleAck(d)
      BY <2>1, <3>3 DEF Settle, Ack, DeadLetter, DropDelivery, RetryCheck, DeferCheck,
         SettleCheck, SettleAck, RecordAck, Forget, sharedVars
    <3>4. QED
      BY <3>1, <3>2, <3>3 DEF SettleOn
  <2>7. CASE \E c \in Consumers : \/ Consume(c) \/ AcquirePermit(c) \/ PopFront(c)
                                  \/ AwaitSignal(c) \/ Send(c) \/ Unregister(c)
                                  \/ StreamNext(c) \/ DropStream(c) \/ RequeueUnread(c)
    BY <2>1, <2>7 DEF Consume, AcquirePermit, PopFront, AwaitSignal, Send, Unregister,
       StreamNext, DropStream, RequeueUnread, sharedVars
  <2>8. CASE \/ \E j \in Jobs, hold \in BOOLEAN, delay \in {0, 1} : PublishCheck(j, hold, delay)
             \/ Close \/ UNCHANGED vars
    BY <2>1, <2>8 DEF PublishCheck, Close, vars, sharedVars
  <2>9. QED
    BY <2>2, <2>4, <2>5, <2>6, <2>7, <2>8 DEF Next, ConsumerTask
<1> HIDE DEF Accepts
<1>2. Spec => [][Accepts]_vars
  BY <1>1, TypeInvariant, PTL DEF Spec
<1>3. QED
  BY <1>2 DEF Accepts, ClosedAcceptsNothing
=============================================================================
