---------------------------- MODULE PublisherProofs ----------------------------
(***************************************************************************)
(* The publisher's promises, for every pool size, set of calls and delays, *)
(* granularity and bound: held messages are never early nor deleted before *)
(* they are due, an Ok is a message handed over, the pool stays within its *)
(* permits, and a close waits for every publish.                           *)
(***************************************************************************)
EXTENDS Publisher, DelaysProofs, FiniteSetTheorems

\* Where a call is before its message is on the wire.
BeforeSend == {"idle", "declare", "queued", "ensure", "open", "publish"}

\* What NeverEarly reads of a call, typed.
HoldTypes ==
  /\ pc \in [Calls -> Holding \cup Ended \cup {"idle", "declare", "queued"}]
  /\ delay \in [Calls -> Nat]
  /\ ttl \in [Calls -> Nat]
  /\ where \in [Calls -> {"nowhere", "queue", "hold", "lost"}]
  /\ age \in [Calls -> Nat]

\* A call with a TTL waits at least as long as it was asked to, only such a call is
\* held, and no message is anywhere before it is sent.
HoldInv ==
  /\ HoldTypes
  /\ \A c \in Calls :
       /\ ttl[c] # 0 => delay[c] <= PerMs * ttl[c]
       /\ where[c] = "hold" => ttl[c] # 0
       /\ pc[c] \in BeforeSend => where[c] = "nowhere"

\* A step that moves calls on without sending anything keeps HoldInv.
LEMMA MovesOn ==
  ASSUME HoldInv,
         pc' \in [Calls -> Holding \cup Ended \cup {"idle", "declare", "queued"}],
         \A c \in Calls : pc'[c] \in BeforeSend => pc[c] \in BeforeSend,
         UNCHANGED <<delay, ttl, where, age>>
  PROVE  HoldInv'
BY DEF HoldInv, HoldTypes

\* One call gets to `to`, which is before its send only if it was before.
LEMMA OneMovesOn ==
  ASSUME HoldInv, NEW c \in Calls, NEW to \in Holding \cup Ended \cup {"declare", "queued"},
         Goto(c, to),
         to \in BeforeSend => pc[c] \in BeforeSend,
         UNCHANGED <<delay, ttl, where, age>>
  PROVE  HoldInv'
<1>1. pc' \in [Calls -> Holding \cup Ended \cup {"idle", "declare", "queued"}]
  BY DEF HoldInv, HoldTypes, Goto
<1>2. \A d \in Calls : pc'[d] \in BeforeSend => pc[d] \in BeforeSend
  BY DEF HoldInv, HoldTypes, Goto
<1>3. QED
  BY <1>1, <1>2, MovesOn

LEMMA HoldInit == Init => HoldInv
BY DEF Init, HoldInv, HoldTypes, BeforeSend, Holding, Leased, Ended

\* Calls on their way to a channel: publish_held up to the declaration, the pool,
\* the ends.
LEMMA CallMoves ==
  ASSUME HoldInv, NEW c \in Calls,
         \/ PublishNow(c) \/ DeclareHold(c) \/ Acquire(c) \/ EnsureConnected(c)
         \/ OpenConfirmChannel(c) \/ ConfirmLost(c) \/ Cancel(c)
  PROVE  HoldInv'
<1> USE DEF BeforeSend, Holding, Leased, Ended
<1>1. CASE PublishNow(c)
  <2>1. pc[c] \in BeforeSend /\ UNCHANGED <<delay, ttl, where, age>>
    BY <1>1 DEF PublishNow, holdVars
  <2>2. Goto(c, "queued") \/ Goto(c, "err")
    BY <1>1 DEF PublishNow, Enter
  <2>3. QED
    BY <2>1, <2>2, OneMovesOn
<1>2. CASE DeclareHold(c)
  <2>1. pc[c] \in BeforeSend /\ UNCHANGED <<delay, ttl, where, age>>
    BY <1>2 DEF DeclareHold
  <2>2. Goto(c, "queued") \/ Goto(c, "err")
    BY <1>2 DEF DeclareHold, Enter
  <2>3. QED
    BY <2>1, <2>2, OneMovesOn
<1>3. CASE Acquire(c)
  <2>1. pc[c] \in BeforeSend /\ UNCHANGED <<delay, ttl, where, age>>
    BY <1>3 DEF Acquire, holdVars
  <2>2. Goto(c, "publish") \/ Goto(c, "ensure")
    BY <1>3 DEF Acquire
  <2>3. QED
    BY <2>1, <2>2, OneMovesOn
<1>4. CASE EnsureConnected(c)
  <2>1. pc[c] \in BeforeSend /\ UNCHANGED <<delay, ttl, where, age>>
    BY <1>4 DEF EnsureConnected, holdVars
  <2>2. Goto(c, "open") \/ Goto(c, "err")
    BY <1>4 DEF EnsureConnected
  <2>3. QED
    BY <2>1, <2>2, OneMovesOn
<1>5. CASE OpenConfirmChannel(c)
  <2>1. pc[c] \in BeforeSend /\ UNCHANGED <<delay, ttl, where, age>>
    BY <1>5 DEF OpenConfirmChannel, holdVars
  <2>2. Goto(c, "publish") \/ Goto(c, "err")
    BY <1>5 DEF OpenConfirmChannel
  <2>3. QED
    BY <2>1, <2>2, OneMovesOn
<1>6. CASE ConfirmLost(c)
  <2>1. Goto(c, "err") /\ UNCHANGED <<delay, ttl, where, age>>
    BY <1>6 DEF ConfirmLost, holdVars
  <2>2. QED
    BY <2>1, OneMovesOn
<1>7. CASE Cancel(c)
  <2>1. Goto(c, "gone") /\ UNCHANGED <<delay, ttl, where, age>>
    BY <1>7 DEF Cancel, holdVars
  <2>2. QED
    BY <2>1, OneMovesOn
<1> QED
  BY <1>1, <1>2, <1>3, <1>4, <1>5, <1>6, <1>7

\* publish_held: the TTL is the rounded delay, which NeverShortened bounds.
LEMMA HeldMoves ==
  ASSUME HoldInv, NEW c \in Calls, PublishHeld(c)
  PROVE  HoldInv'
<1> USE DEF BeforeSend, Holding, Leased, Ended
<1>1. PICK d \in Waits, hold \in {"Retry", "Deferral"} :
        LET t == deferred_ttl_ms(d, Granularity(hold))
        IN  \/ Goto(c, "err") /\ UNCHANGED <<delay, ttl>>
            \/ /\ t # TooLong
               /\ Goto(c, "declare")
               /\ delay' = [delay EXCEPT ![c] = d]
               /\ ttl' = [ttl EXCEPT ![c] = t]
  BY DEF PublishHeld
<1> DEFINE t == deferred_ttl_ms(d, Granularity(hold))
<1>2. pc[c] = "idle" /\ UNCHANGED <<where, age>>
  BY DEF PublishHeld, holdVars
<1>3. CASE Goto(c, "err") /\ UNCHANGED <<delay, ttl>>
  BY <1>2, <1>3, OneMovesOn
<1>4. CASE /\ t # TooLong
           /\ Goto(c, "declare")
           /\ delay' = [delay EXCEPT ![c] = d]
           /\ ttl' = [ttl EXCEPT ![c] = t]
  <2>1. d \in Nat /\ Granularity(hold) \in Nat
    BY PublisherAssumption DEF Granularity
  <2>2. t \in Nat /\ d <= PerMs * t
    BY <1>4, <2>1, NeverShortened, DelaysAssumption DEF Ttls, MAX_DEFERRAL_MS
  <2> HIDE DEF t
  <2>3. HoldTypes'
    BY <1>2, <1>4, <2>1, <2>2 DEF HoldInv, HoldTypes, Goto
  <2>4. where[c] = "nowhere"
    BY <1>2 DEF HoldInv
  <2>5. ASSUME NEW e \in Calls
        PROVE  /\ ttl'[e] # 0 => delay'[e] <= PerMs * ttl'[e]
               /\ where'[e] = "hold" => ttl'[e] # 0
               /\ pc'[e] \in BeforeSend => where'[e] = "nowhere"
    <3>1. CASE e = c
      <4>1. ttl'[e] = t /\ delay'[e] = d /\ where'[e] = "nowhere"
        BY <1>2, <1>4, <2>4, <3>1 DEF HoldInv, HoldTypes
      <4>2. QED
        BY <2>2, <4>1
    <3>2. CASE e # c
      BY <1>2, <1>4, <3>2 DEF HoldInv, HoldTypes, Goto
    <3>3. QED
      BY <3>1, <3>2
  <2>6. QED
    BY <2>3, <2>5 DEF HoldInv
<1>5. QED
  BY <1>1, <1>3, <1>4

\* basic_publish: only a call with a TTL gets its message into a hold queue.
LEMMA SendMoves ==
  ASSUME HoldInv, NEW c \in Calls, BasicPublish(c)
  PROVE  HoldInv'
<1> USE DEF BeforeSend, Holding, Leased, Ended
<1>1. pc[c] = "publish" /\ UNCHANGED <<delay, ttl, age>>
  BY DEF BasicPublish
<1>2. CASE ~Up(chan[c])
  BY <1>1, <1>2, OneMovesOn DEF BasicPublish
<1>3. CASE Up(chan[c])
  <2>1. PICK routed : Send(c, routed)
    BY <1>3 DEF BasicPublish
  <2>2. Goto(c, "confirm")
    BY <1>3 DEF BasicPublish
  <2>3. where' = [where EXCEPT ![c] = IF ~routed THEN @
                                      ELSE IF ttl[c] = 0 THEN "queue" ELSE "hold"]
    BY <2>1 DEF Send
  <2>4. HoldTypes'
    BY <1>1, <2>2, <2>3 DEF HoldInv, HoldTypes, Goto
  <2>5. \A e \in Calls : where'[e] = "hold" => ttl'[e] # 0
    BY <1>1, <2>3 DEF HoldInv, HoldTypes
  <2>6. \A e \in Calls : pc'[e] \in BeforeSend => where'[e] = "nowhere"
    BY <2>2, <2>3 DEF HoldInv, HoldTypes, Goto
  <2>7. QED
    BY <1>1, <2>4, <2>5, <2>6 DEF HoldInv
<1>4. QED
  BY <1>2, <1>3

\* Confirmations and the close end calls, and the broker moves held messages on.
LEMMA OthersMove ==
  ASSUME HoldInv,
         \/ \E k \in DOMAIN status : Confirm(k)
         \/ MarkClosing \/ ClosePool \/ CloseDeclareChannel
         \/ BrokerNext
  PROVE  HoldInv'
<1> USE DEF BeforeSend, Holding, Leased, Ended
<1>1. CASE \E k \in DOMAIN status : Confirm(k)
  <2>1. PICK k \in DOMAIN status : Confirm(k)
    BY <1>1
  <2>2. UNCHANGED <<delay, ttl, where, age>>
    BY <2>1 DEF Confirm, holdVars
  <2>3. PICK n, given, verdict : Resolve(k, n, given, verdict)
    BY <2>1 DEF Confirm
  <2>4. \A c \in Calls : pc'[c] = pc[c] \/ pc'[c] \in {"ok", "err"}
    BY <2>3 DEF Resolve, confirmation_to_result
  <2>5. pc' = [c \in Calls |-> pc'[c]]
    BY <2>3 DEF Resolve
  <2>6. pc' \in [Calls -> Holding \cup Ended \cup {"idle", "declare", "queued"}]
    BY <2>4, <2>5 DEF HoldInv, HoldTypes
  <2>7. QED
    BY <2>2, <2>4, <2>6, MovesOn
<1>2. CASE ClosePool
  <2>1. pc' = [c \in Calls |-> IF pc[c] = "queued" THEN "err" ELSE pc[c]]
    BY <1>2 DEF ClosePool
  <2>2. UNCHANGED <<delay, ttl, where, age>>
    BY <1>2 DEF ClosePool, holdVars
  <2>3. pc' \in [Calls -> Holding \cup Ended \cup {"idle", "declare", "queued"}]
    BY <2>1 DEF HoldInv, HoldTypes
  <2>4. \A c \in Calls : pc'[c] \in BeforeSend => pc[c] \in BeforeSend
    BY <2>1
  <2>5. QED
    BY <2>2, <2>3, <2>4, MovesOn
<1>3. CASE UNCHANGED <<pc, delay, ttl, where, age>>
  BY <1>3 DEF HoldInv, HoldTypes
<1>4. CASE MarkClosing \/ CloseDeclareChannel \/ \E K : Break(K)
  BY <1>3, <1>4 DEF MarkClosing, CloseDeclareChannel, Break, callVars, holdVars
<1>5. CASE \E c \in Calls : Release(c)
  BY <1>5 DEF Release, callVars, HoldInv, HoldTypes
<1>6. CASE \E t \in Ttls : DeleteHold(t)
  BY <1>6 DEF DeleteHold, callVars, HoldInv, HoldTypes
<1>7. CASE Tick
  <2>1. UNCHANGED <<pc, delay, ttl, where>>
    BY <1>7 DEF Tick
  <2>2. age' \in [Calls -> Nat]
    BY <1>7 DEF Tick, HoldInv, HoldTypes
  <2>3. QED
    BY <2>1, <2>2 DEF HoldInv, HoldTypes
<1> QED
  BY <1>1, <1>2, <1>4, <1>5, <1>6, <1>7 DEF BrokerNext

LEMMA HoldStep == HoldInv /\ [Next]_vars => HoldInv'
<1> SUFFICES ASSUME HoldInv, [Next]_vars PROVE HoldInv'
  OBVIOUS
<1>1. CASE UNCHANGED vars
  BY <1>1 DEF vars, callVars, holdVars, HoldInv, HoldTypes
<1>2. ASSUME NEW c \in Calls, PublishNow(c) \/ PublishHeld(c) \/ CallNext(c) \/ Cancel(c)
      PROVE  HoldInv'
  BY <1>2, CallMoves, HeldMoves, SendMoves DEF CallNext
<1>3. QED
  BY <1>1, <1>2, OthersMove DEF Next

\* Nothing but the end of its TTL puts a held message back on its queue: every
\* other step leaves it in the hold queue or loses it.
LEMMA OnlyReleaseReturns ==
  ASSUME HoldInv, [Next]_vars, NEW c \in Calls, where[c] = "hold", where'[c] = "queue"
  PROVE  Release(c)
<1>1. CASE UNCHANGED where
  BY <1>1
<1>2. CASE \E d \in Calls : BasicPublish(d)
  <2>1. PICK d \in Calls : BasicPublish(d)
    BY <1>2
  <2>2. d # c
    BY <2>1 DEF BasicPublish, HoldInv, BeforeSend
  <2>3. where'[c] = where[c]
    BY <2>1, <2>2 DEF BasicPublish, Send, HoldInv, HoldTypes
  <2>4. QED
    BY <2>3
<1>3. CASE \E t \in Ttls : DeleteHold(t)
  BY <1>3 DEF DeleteHold
<1>4. CASE \E d \in Calls : Release(d)
  BY <1>4 DEF Release, HoldInv, HoldTypes
<1>5. ASSUME NEW d \in Calls,
             \/ PublishNow(d) \/ PublishHeld(d) \/ DeclareHold(d) \/ Acquire(d)
             \/ EnsureConnected(d) \/ OpenConfirmChannel(d) \/ ConfirmLost(d) \/ Cancel(d)
      PROVE  UNCHANGED where
  BY <1>5 DEF PublishNow, PublishHeld, DeclareHold, Acquire, EnsureConnected,
              OpenConfirmChannel, ConfirmLost, Cancel, holdVars
<1>6. ASSUME \/ \E k \in DOMAIN status : Confirm(k)
             \/ MarkClosing \/ ClosePool \/ CloseDeclareChannel
             \/ \E K : Break(K)
             \/ Tick
             \/ UNCHANGED vars
      PROVE  UNCHANGED where
  BY <1>6 DEF Confirm, MarkClosing, ClosePool, CloseDeclareChannel, Break, Tick, holdVars, vars
<1>7. QED
  BY <1>1, <1>2, <1>3, <1>4, <1>5, <1>6 DEF Next, CallNext, BrokerNext

\* "Never early": whatever is asked for, at whatever granularity and however long the
\* publish had to wait, a held message is back on its queue no sooner than after its
\* delay (publish_held, deferred_ttl_ms, deferred_queue_args).
THEOREM HoldsNeverEarly == Spec => NeverEarly
<1>1. HoldInv /\ [Next]_vars =>
        [\A c \in Calls : where[c] = "hold" /\ where'[c] = "queue" => age[c] >= delay[c]]_vars
  <2> SUFFICES ASSUME HoldInv, [Next]_vars, NEW c \in Calls,
                      where[c] = "hold", where'[c] = "queue"
               PROVE  age[c] >= delay[c]
    OBVIOUS
  <2>1. age[c] >= PerMs * ttl[c]
    BY OnlyReleaseReturns DEF Release
  <2>2. delay[c] <= PerMs * ttl[c]
    BY DEF HoldInv
  <2>3. age[c] \in Nat /\ delay[c] \in Nat /\ ttl[c] \in Nat /\ PerMs \in Nat
    BY DelaysAssumption DEF HoldInv, HoldTypes
  <2>4. PerMs * ttl[c] \in Nat
    BY <2>3, SMT
  <2>5. QED
    BY <2>1, <2>2, <2>3, <2>4
<1>2. QED
  BY <1>1, HoldInit, HoldStep, PTL DEF Spec, NeverEarly
-----------------------------------------------------------------------------
(***************************************************************************)
(* The inductive invariant: the pool, the wire and the clocks.             *)
(***************************************************************************)
Holders == {c \in Calls : pc[c] \in Holding}
Lessees == {c \in Calls : pc[c] \in Leased}

FlagTypes ==
  /\ poolOpen \in BOOLEAN /\ declareUp \in BOOLEAN /\ closing \in BOOLEAN
  /\ closer \in {"open", "marked", "draining", "pool", "done"}
  /\ troubles \in 0..MaxTroubles /\ cancels \in 0..MaxCancels

ChannelTypes ==
  /\ status \in Seq({"up", "dead"})
  /\ idle \in Seq(DOMAIN status)
  /\ chan \in [Calls -> {0} \cup DOMAIN status]
  /\ dirty \subseteq DOMAIN status

\* Who waits for a permit has a place in the queue.
QueueInv ==
  /\ queue \in Seq(Calls \cup {Closer})
  /\ \A c \in Calls : pc[c] = "queued" => \E i \in DOMAIN queue : queue[i] = c

\* A permit is with the semaphore or with a call, and every call that holds one could
\* bring back a channel of its own.
PermitInv ==
  /\ IsFiniteSet(Holders)
  /\ permits \in Nat
  /\ permits + Cardinality(Holders) = pool_size
  /\ Len(idle) + Cardinality(Holders) <= pool_size

\* A channel is in one place, and one that is up is in the pool or leased.
LeaseInv ==
  /\ \A i, j \in DOMAIN idle : idle[i] = idle[j] => i = j
  /\ \A c \in Lessees : chan[c] # 0 /\ \A i \in DOMAIN idle : idle[i] # chan[c]
  /\ \A c, d \in Lessees : chan[c] = chan[d] => c = d
  /\ \A k \in DOMAIN status : status[k] = "up" =>
       (\E i \in DOMAIN idle : idle[i] = k) \/ (\E c \in Lessees : chan[c] = k)

\* Once the pool is closed nobody gets back in.
ClosedInv ==
  ~poolOpen => /\ \A c \in Calls : pc[c] \notin Holding \cup {"queued"}
               /\ \A k \in DOMAIN status : status[k] = "dead"

WireTypes ==
  /\ unconfirmed \in Seq(Seq(Calls)) /\ returned \in Seq(Nat)
  /\ DOMAIN unconfirmed = DOMAIN status /\ DOMAIN returned = DOMAIN status

\* Channel k carries nothing, or the publish of its one lessee, and a returned message
\* is waiting there just when it is that publish's.
Clean(k) ==
  \/ unconfirmed[k] = <<>> /\ returned[k] = 0
  \/ \E c \in Calls : /\ unconfirmed[k] = <<c>> /\ pc[c] = "confirm" /\ chan[c] = k
                      /\ returned[k] = IF where[c] = "nowhere" THEN 1 ELSE 0

WireInv ==
  /\ \A k \in DOMAIN status : \A i \in DOMAIN unconfirmed[k] :
       chan[unconfirmed[k][i]] = k /\ pc[unconfirmed[k][i]] \notin BeforeSend
  /\ \A k \in DOMAIN status \ dirty : status[k] = "up" => Clean(k)

ClockTypes ==
  /\ delay \in [Calls -> {0} \cup Waits] /\ ttl \in [Calls -> {0} \cup Ttls]
  /\ lag \in [Calls -> Nat]
  /\ holds \subseteq Ttls /\ unused \in [Ttls -> Nat]

\* What a call's hold lasts.
Due(c) == PerMs * ttl[c]

\* From its declaration to its send.
Waiting == BeforeSend \ {"idle", "declare"}

\* A hold queue has been unused for no longer than the time since the declaration of
\* any call that waits to send to it or is held in it, unless that call was late.
OnTime(c) ==
  /\ pc[c] \in {"idle", "declare"} => lag[c] = 0
  /\ pc[c] = "idle" => ttl[c] = 0
  /\ pc[c] = "declare" => ttl[c] # 0
  /\ pc[c] \in BeforeSend => age[c] = 0
  /\ lag[c] <= Due(c) /\ age[c] <= Due(c)
  /\ ttl[c] # 0 /\ (pc[c] \in Waiting \/ where[c] = "hold") =>
       lag[c] = Due(c) \/ unused[ttl[c]] <= lag[c] + age[c]
  /\ where[c] = "lost" => lag[c] = Due(c)

ClockInv == \A c \in Calls : OnTime(c)

IInv ==
  /\ HoldInv /\ FlagTypes /\ ChannelTypes /\ QueueInv /\ PermitInv /\ LeaseInv /\ ClosedInv
  /\ WireTypes /\ WireInv /\ OkMeansHandedOver /\ ClockTypes /\ ClockInv
-----------------------------------------------------------------------------
(***************************************************************************)
(* What steps do to the pool.                                              *)
(***************************************************************************)

\* Call c keeps what it has of the pool.
Stays(c) ==
  /\ pc'[c] \in Holding <=> pc[c] \in Holding
  /\ pc'[c] \in Leased <=> pc[c] \in Leased

Others(c) == \A d \in Calls \ {c} : Stays(d)

PoolFrame == UNCHANGED <<idle, permits, chan, status>> /\ \A d \in Calls : Stays(d)

\* A call takes a permit and with it a channel that is up,
Takes(c) ==
  /\ pc[c] = "queued" /\ pc'[c] = "publish" /\ Others(c)
  /\ permits > 0 /\ permits' = permits - 1
  /\ idle # <<>> /\ idle' = SubSeq(idle, 1, Len(idle) - 1)
  /\ chan' = [chan EXCEPT ![c] = idle[Len(idle)]]
  /\ UNCHANGED status

\* or a permit only,
Starts(c) ==
  /\ pc[c] = "queued" /\ pc'[c] = "ensure" /\ Others(c)
  /\ permits > 0 /\ permits' = permits - 1
  /\ \/ idle = <<>> /\ UNCHANGED idle
     \/ /\ idle # <<>> /\ status[idle[Len(idle)]] # "up"
        /\ idle' = SubSeq(idle, 1, Len(idle) - 1)
  /\ UNCHANGED <<chan, status>>

\* and gets a channel for it,
Opens(c) ==
  /\ pc[c] = "open" /\ pc'[c] = "publish" /\ Others(c)
  /\ status' = Append(status, "up")
  /\ chan' = [chan EXCEPT ![c] = Len(status) + 1]
  /\ UNCHANGED <<idle, permits>>

\* or gives it back;
GivesUp(c) ==
  /\ pc[c] \in Holding \ Leased /\ pc'[c] \in Ended /\ Others(c)
  /\ permits' = permits + 1
  /\ UNCHANGED <<idle, chan, status>>

\* a lease ends.
Drops(c) ==
  /\ pc[c] \in Leased /\ pc'[c] \in Ended /\ Others(c)
  /\ DropLease(c)
  /\ UNCHANGED <<chan, status>>

PoolStep ==
  \/ PoolFrame
  \/ \E c \in Calls : Takes(c) \/ Starts(c) \/ Opens(c) \/ GivesUp(c) \/ Drops(c)
  \/ ClosePool
  \/ \E K \in SUBSET DOMAIN status : Break(K)

\* A channel that is confirmed has one lessee to end at most.
LEMMA ConfirmEndsOne ==
  ASSUME HoldTypes, ChannelTypes, WireTypes, WireInv, LeaseInv,
         NEW k \in DOMAIN status, NEW n \in 1..Len(unconfirmed[k]), NEW given, NEW verdict,
         Resolve(k, n, given, verdict), UNCHANGED <<chan, status>>
  PROVE  PoolFrame \/ \E c \in Calls : Drops(c)
<1> DEFINE waiting == {c \in {unconfirmed[k][i] : i \in 1..n} : pc[c] = "confirm"}
<1>1. unconfirmed[k] \in Seq(Calls) /\ Len(unconfirmed[k]) \in Nat
  BY DEF WireTypes
<1>2. \A i \in 1..n : i \in DOMAIN unconfirmed[k]
  BY <1>1
<1>3. \A c \in waiting : c \in Calls /\ chan[c] = k /\ pc[c] = "confirm"
  BY <1>1, <1>2 DEF WireInv
<1>4. \A c, d \in waiting : c = d
  BY <1>3 DEF LeaseInv, Lessees, Leased
<1>5. /\ \A c \in Calls \ waiting : pc'[c] = pc[c]
      /\ \A c \in waiting : pc'[c] \in {"ok", "err"}
  BY <1>3 DEF Resolve, confirmation_to_result
<1>6. (waiting = {} /\ UNCHANGED <<idle, permits>>) \/ \E c \in waiting : DropLease(c)
  BY DEF Resolve
<1> HIDE DEF waiting
<1>7. CASE waiting = {} /\ UNCHANGED <<idle, permits>>
  BY <1>5, <1>7 DEF PoolFrame, Stays
<1>8. CASE \E c \in waiting : DropLease(c)
  <2>1. PICK c \in waiting : DropLease(c)
    BY <1>8
  <2>2. Others(c)
    BY <1>4, <1>5 DEF Others, Stays
  <2>3. pc[c] \in Leased /\ pc'[c] \in Ended /\ c \in Calls
    BY <1>3, <1>5 DEF Leased, Ended
  <2> QED
    BY <2>1, <2>2, <2>3 DEF Drops
<1> QED
  BY <1>6, <1>7, <1>8

\* One call goes on.
LEMMA GotoOthers ==
  ASSUME HoldTypes, NEW c \in Calls, NEW to, Goto(c, to)
  PROVE  Others(c) /\ pc'[c] = to
BY DEF HoldTypes, Goto, Others, Stays

LEMMA PoolSteps ==
  ASSUME HoldTypes, ChannelTypes, WireTypes, WireInv, LeaseInv, Next
  PROVE  PoolStep
<1> USE DEF Holding, Leased, Ended
<1>1. ASSUME NEW c \in Calls, NEW to, Goto(c, to), UNCHANGED <<idle, permits, chan, status>>,
             to \in Holding <=> pc[c] \in Holding, to \in Leased <=> pc[c] \in Leased
      PROVE  PoolStep
  <2>1. Others(c) /\ Stays(c)
    BY <1>1, GotoOthers DEF Stays
  <2> QED
    BY <1>1, <2>1 DEF PoolStep, PoolFrame, Others
<1>2. ASSUME NEW c \in Calls, PublishNow(c) \/ DeclareHold(c)
      PROVE  PoolStep
  <2>1. UNCHANGED <<idle, permits, chan, status>> /\ pc[c] \in {"idle", "declare"}
    BY <1>2 DEF PublishNow, DeclareHold, wireVars
  <2>2. Goto(c, "queued") \/ Goto(c, "err")
    BY <1>2 DEF PublishNow, DeclareHold, Enter
  <2> QED
    BY <1>1, <2>1, <2>2
<1>3. ASSUME NEW c \in Calls, PublishHeld(c)
      PROVE  PoolStep
  <2>1. UNCHANGED <<idle, permits, chan, status>> /\ pc[c] = "idle"
    BY <1>3 DEF PublishHeld, poolVars, wireVars
  <2>2. Goto(c, "declare") \/ Goto(c, "err")
    BY <1>3 DEF PublishHeld
  <2> QED
    BY <1>1, <2>1, <2>2
<1>4. ASSUME NEW c \in Calls, Acquire(c)
      PROVE  PoolStep
  <2> DEFINE k == IF idle = <<>> THEN 0 ELSE idle[Len(idle)]
  <2>1. /\ pc[c] = "queued" /\ permits > 0 /\ permits' = permits - 1 /\ UNCHANGED status
        /\ idle' = IF idle = <<>> THEN idle ELSE SubSeq(idle, 1, Len(idle) - 1)
        /\ \/ Up(k) /\ Goto(c, "publish") /\ chan' = [chan EXCEPT ![c] = k]
           \/ ~Up(k) /\ Goto(c, "ensure") /\ UNCHANGED chan
    BY <1>4 DEF Acquire, wireVars
  <2>2. idle # <<>> => Len(idle) \in DOMAIN idle /\ idle[Len(idle)] \in DOMAIN status /\ 0 \notin DOMAIN status
    BY DEF ChannelTypes
  <2>3. CASE Up(k) /\ Goto(c, "publish") /\ chan' = [chan EXCEPT ![c] = k]
    <3>1. idle # <<>> /\ k = idle[Len(idle)]
      BY <2>3 DEF Up
    <3>2. Takes(c)
      BY <2>1, <2>3, <3>1, GotoOthers DEF Takes
    <3> QED
      BY <3>2 DEF PoolStep
  <2>4. CASE ~Up(k) /\ Goto(c, "ensure") /\ UNCHANGED chan
    <3>1. idle = <<>> \/ status[idle[Len(idle)]] # "up"
      BY <2>2, <2>4 DEF Up
    <3>2. Starts(c)
      BY <2>1, <2>4, <3>1, GotoOthers DEF Starts
    <3> QED
      BY <3>2 DEF PoolStep
  <2> QED
    BY <2>1, <2>3, <2>4
<1>5. ASSUME NEW c \in Calls, EnsureConnected(c)
      PROVE  PoolStep
  <2>1. UNCHANGED <<idle, chan, status>> /\ pc[c] = "ensure"
    BY <1>5 DEF EnsureConnected, wireVars
  <2>2. CASE Goto(c, "open") /\ UNCHANGED permits
    BY <1>1, <2>1, <2>2
  <2>3. CASE Goto(c, "err") /\ permits' = permits + 1
    BY <2>1, <2>3, GotoOthers DEF PoolStep, GivesUp
  <2> QED
    BY <1>5, <2>2, <2>3 DEF EnsureConnected
<1>6. ASSUME NEW c \in Calls, OpenConfirmChannel(c)
      PROVE  PoolStep
  <2>1. UNCHANGED idle /\ pc[c] = "open"
    BY <1>6 DEF OpenConfirmChannel
  <2>2. CASE /\ Goto(c, "publish") /\ chan' = [chan EXCEPT ![c] = Len(status) + 1]
             /\ status' = Append(status, "up") /\ UNCHANGED permits
    BY <2>1, <2>2, GotoOthers DEF PoolStep, Opens
  <2>3. CASE Goto(c, "err") /\ permits' = permits + 1 /\ UNCHANGED <<chan, status>>
    BY <2>1, <2>3, GotoOthers DEF PoolStep, GivesUp
  <2> QED
    BY <1>6, <2>2, <2>3 DEF OpenConfirmChannel
<1>7. ASSUME NEW c \in Calls, BasicPublish(c) \/ ConfirmLost(c)
      PROVE  PoolStep
  <2>1. UNCHANGED <<chan, status>> /\ pc[c] \in Leased
    BY <1>7 DEF BasicPublish, ConfirmLost, wireVars
  <2>2. CASE pc[c] = "publish" /\ Goto(c, "confirm") /\ UNCHANGED <<idle, permits>>
    BY <1>1, <2>1, <2>2
  <2>3. CASE Goto(c, "err") /\ DropLease(c)
    BY <2>1, <2>3, GotoOthers DEF PoolStep, Drops
  <2> QED
    BY <1>7, <2>2, <2>3 DEF BasicPublish, ConfirmLost
<1>8. ASSUME NEW c \in Calls, Cancel(c)
      PROVE  PoolStep
  <2>1. UNCHANGED <<chan, status>> /\ Goto(c, "gone") /\ pc[c] \in Holding \cup {"declare", "queued"}
    BY <1>8 DEF Cancel
  <2>2. CASE pc[c] \in Leased
    BY <1>8, <2>1, <2>2, GotoOthers DEF PoolStep, Drops, DropLease, Cancel
  <2>3. CASE pc[c] \in Holding \ Leased
    BY <1>8, <2>1, <2>3, GotoOthers DEF PoolStep, GivesUp, Cancel
  <2>4. CASE pc[c] \in {"declare", "queued"}
    BY <1>1, <1>8, <2>1, <2>4 DEF Cancel
  <2> QED
    BY <2>1, <2>2, <2>3, <2>4
<1>9. ASSUME NEW k \in DOMAIN status, Confirm(k)
      PROVE  PoolStep
  <2>1. PICK n \in 1..Len(unconfirmed[k]), verdict \in {"Ack", "Nack"} :
          \E given : Resolve(k, n, given, verdict)
    BY <1>9 DEF Confirm
  <2>2. PICK given : Resolve(k, n, given, verdict)
    BY <2>1
  <2>3. UNCHANGED <<chan, status>>
    BY <1>9 DEF Confirm
  <2> QED
    BY <2>2, <2>3, ConfirmEndsOne DEF PoolStep
<1>10. CASE \/ MarkClosing \/ CloseDeclareChannel
            \/ \E c \in Calls : Release(c)
            \/ \E t \in Ttls : DeleteHold(t)
  <2>1. UNCHANGED <<idle, permits, chan, status, pc>>
    BY <1>10 DEF MarkClosing, CloseDeclareChannel, Release, DeleteHold, poolVars, callVars, wireVars
  <2> QED
    BY <2>1 DEF PoolStep, PoolFrame, Stays
<1>11. CASE Tick
  <2>1. UNCHANGED <<idle, permits, chan, status, pc>>
    BY <1>11 DEF Tick, poolVars, wireVars
  <2> QED
    BY <2>1 DEF PoolStep, PoolFrame, Stays
<1>12. CASE (\E k \in DOMAIN status : Break({k})) \/ Break(DOMAIN status) \/ ClosePool
  BY <1>12, Zenon DEF PoolStep
<1>13. ASSUME NEW c \in Calls, PublishNow(c) \/ PublishHeld(c) \/ CallNext(c) \/ Cancel(c)
       PROVE  PoolStep
  BY <1>2, <1>3, <1>4, <1>5, <1>6, <1>7, <1>8, <1>13, Zenon DEF CallNext
<1> QED
  BY <1>9, <1>10, <1>11, <1>12, <1>13, Zenon DEF Next, BrokerNext
-----------------------------------------------------------------------------
(***************************************************************************)
(* The pool keeps its channels and permits.                                *)
(***************************************************************************)

LEMMA Closed ==
  ASSUME status \in Seq({"up", "dead"}), NEW K
  PROVE  /\ WithClosed(K) \in Seq({"up", "dead"})
         /\ DOMAIN WithClosed(K) = DOMAIN status
         /\ \A k \in DOMAIN status : WithClosed(K)[k] = IF k \in K THEN "dead" ELSE status[k]
<1>1. DOMAIN status = 1..Len(status) /\ Len(status) \in Nat
  OBVIOUS
<1>2. WithClosed(K) \in [1..Len(status) -> {"up", "dead"}]
  BY <1>1 DEF WithClosed
<1> QED
  BY <1>1, <1>2 DEF WithClosed

\* What is left of the pool when its last channel is taken.
LEMMA Popped ==
  ASSUME ChannelTypes, idle # <<>>, idle' = SubSeq(idle, 1, Len(idle) - 1)
  PROVE  /\ Len(idle) \in Nat \ {0} /\ Len(idle) \in DOMAIN idle
         /\ idle[Len(idle)] \in DOMAIN status
         /\ idle' \in Seq(DOMAIN status) /\ Len(idle') = Len(idle) - 1
         /\ DOMAIN idle' = DOMAIN idle \ {Len(idle)}
         /\ \A i \in DOMAIN idle' : idle'[i] = idle[i]
<1>1. idle \in Seq(DOMAIN status) /\ Len(idle) \in Nat \ {0} /\ DOMAIN idle = 1..Len(idle)
  BY DEF ChannelTypes
<1>2. /\ idle' \in Seq(DOMAIN status) /\ Len(idle') = Len(idle) - 1
      /\ \A i \in 1..(Len(idle) - 1) : idle'[i] = idle[i]
  BY <1>1
<1>3. DOMAIN idle' = 1..(Len(idle) - 1)
  BY <1>1, <1>2
<1> QED
  BY <1>1, <1>2, <1>3

\* The pool when a lease ends.
LEMMA Pushed ==
  ASSUME ChannelTypes, LeaseInv, NEW c \in Calls, pc[c] \in Leased, DropLease(c)
  PROVE  /\ Len(idle) \in Nat /\ Len(idle') = Len(idle) + 1
         /\ idle' \in Seq(DOMAIN status)
         /\ DOMAIN idle' = DOMAIN idle \cup {Len(idle) + 1} /\ Len(idle) + 1 \notin DOMAIN idle
         /\ \A i \in DOMAIN idle : idle'[i] = idle[i]
         /\ idle'[Len(idle) + 1] = chan[c]
<1>1. chan[c] \in DOMAIN status
  BY DEF ChannelTypes, LeaseInv, Lessees
<1> QED
  BY <1>1 DEF ChannelTypes, DropLease

LEMMA ChannelStep ==
  ASSUME ChannelTypes, LeaseInv, HoldTypes, PoolStep,
         dirty' \subseteq dirty \cup {chan[c] : c \in Lessees}
  PROVE  ChannelTypes'
<1>1. dirty' \subseteq DOMAIN status
  BY DEF ChannelTypes, LeaseInv, Lessees
<1>2. CASE UNCHANGED <<chan, status>> /\ idle' \in Seq(DOMAIN status)
  BY <1>1, <1>2 DEF ChannelTypes
<1>3. CASE PoolFrame
  BY <1>2, <1>3 DEF PoolFrame, ChannelTypes
<1>4. ASSUME NEW c \in Calls, Takes(c) PROVE ChannelTypes'
  <2>1. idle' \in Seq(DOMAIN status) /\ idle[Len(idle)] \in DOMAIN status
    BY <1>4, Popped DEF Takes
  <2>2. chan' \in [Calls -> {0} \cup DOMAIN status]
    BY <1>4, <2>1 DEF Takes, ChannelTypes
  <2> QED
    BY <1>1, <1>4, <2>1, <2>2 DEF Takes, ChannelTypes
<1>5. ASSUME NEW c \in Calls, Starts(c) PROVE ChannelTypes'
  <2>1. idle' \in Seq(DOMAIN status)
    BY <1>5, Popped DEF Starts, ChannelTypes
  <2> QED
    BY <1>2, <1>5, <2>1 DEF Starts
<1>6. ASSUME NEW c \in Calls, Opens(c) PROVE ChannelTypes'
  <2>1. /\ status' \in Seq({"up", "dead"}) /\ DOMAIN status' = DOMAIN status \cup {Len(status) + 1}
    BY <1>6 DEF Opens, ChannelTypes
  <2>2. idle' \in Seq(DOMAIN status')
    BY <1>6, <2>1 DEF Opens, ChannelTypes
  <2>3. chan' \in [Calls -> {0} \cup DOMAIN status']
    BY <1>6, <2>1 DEF Opens, ChannelTypes
  <2> QED
    BY <1>1, <2>1, <2>2, <2>3 DEF ChannelTypes
<1>7. ASSUME NEW c \in Calls, GivesUp(c) \/ Drops(c) PROVE ChannelTypes'
  <2>1. idle' \in Seq(DOMAIN status)
    BY <1>7, Pushed DEF GivesUp, Drops, ChannelTypes
  <2> QED
    BY <1>2, <1>7, <2>1 DEF GivesUp, Drops
<1>8. CASE ClosePool
  <2>1. PICK K : status' = WithClosed(K)
    BY <1>8 DEF ClosePool
  <2>2. status' \in Seq({"up", "dead"}) /\ DOMAIN status' = DOMAIN status
    BY <2>1, Closed DEF ChannelTypes
  <2>3. idle' \in Seq(DOMAIN status') /\ UNCHANGED chan
    BY <1>8 DEF ClosePool
  <2> QED
    BY <1>1, <2>2, <2>3 DEF ChannelTypes
<1>9. ASSUME NEW K, Break(K) PROVE ChannelTypes'
  <2>1. status' \in Seq({"up", "dead"}) /\ DOMAIN status' = DOMAIN status
    BY <1>9, Closed DEF ChannelTypes, Break
  <2> QED
    BY <1>1, <1>9, <2>1 DEF Break, poolVars, callVars, ChannelTypes
<1> QED
  BY <1>3, <1>4, <1>5, <1>6, <1>7, <1>8, <1>9 DEF PoolStep

LEMMA LeaseStep ==
  ASSUME ChannelTypes, LeaseInv, HoldTypes, PoolStep
  PROVE  LeaseInv'
<1> USE DEF Holding, Leased, Ended
<1>1. ASSUME \A c \in Calls : pc'[c] \in Leased <=> pc[c] \in Leased,
             UNCHANGED <<idle, chan>>, DOMAIN status' = DOMAIN status,
             \A k \in DOMAIN status : status'[k] = "up" => status[k] = "up"
      PROVE  LeaseInv'
  <2>1. Lessees' = Lessees
    BY <1>1 DEF Lessees
  <2> QED
    BY <1>1, <2>1 DEF LeaseInv
<1>2. CASE PoolFrame
  BY <1>1, <1>2 DEF PoolFrame, Stays
<1>3. ASSUME NEW c \in Calls, Takes(c) PROVE LeaseInv'
  <2>1. /\ Lessees' = Lessees \cup {c} /\ c \notin Lessees
    BY <1>3 DEF Lessees, Takes, Others, Stays
  <2>2. /\ chan'[c] = idle[Len(idle)] /\ \A d \in Calls \ {c} : chan'[d] = chan[d]
        /\ UNCHANGED status
    BY <1>3 DEF Takes, ChannelTypes
  <2>3. /\ Len(idle) \in DOMAIN idle /\ idle[Len(idle)] \in DOMAIN status
        /\ DOMAIN idle' = DOMAIN idle \ {Len(idle)}
        /\ \A i \in DOMAIN idle' : idle'[i] = idle[i]
    BY <1>3, Popped DEF Takes
  <2>4. 0 \notin DOMAIN status /\ Lessees \subseteq Calls
    BY DEF ChannelTypes, Lessees
  <2>5. \A i, j \in DOMAIN idle' : idle'[i] = idle'[j] => i = j
    BY <2>3 DEF LeaseInv
  <2>6. \A d \in Lessees' : chan'[d] # 0 /\ \A i \in DOMAIN idle' : idle'[i] # chan'[d]
    BY <2>1, <2>2, <2>3, <2>4 DEF LeaseInv
  <2>7. \A d, e \in Lessees' : chan'[d] = chan'[e] => d = e
    BY <2>1, <2>2, <2>3, <2>4 DEF LeaseInv
  <2>8. \A k \in DOMAIN status : status[k] = "up" =>
          (\E i \in DOMAIN idle' : idle'[i] = k) \/ (\E d \in Lessees' : chan'[d] = k)
    BY <2>1, <2>2, <2>3, <2>4 DEF LeaseInv
  <2> QED
    BY <2>2, <2>5, <2>6, <2>7, <2>8 DEF LeaseInv
<1>4. ASSUME NEW c \in Calls, Starts(c) PROVE LeaseInv'
  <2>1. Lessees' = Lessees /\ UNCHANGED <<chan, status>>
    BY <1>4 DEF Lessees, Starts, Others, Stays
  <2>2. CASE UNCHANGED idle
    BY <2>1, <2>2 DEF LeaseInv
  <2>3. CASE idle # <<>> /\ status[idle[Len(idle)]] # "up" /\ idle' = SubSeq(idle, 1, Len(idle) - 1)
    <3>1. /\ Len(idle) \in DOMAIN idle
          /\ DOMAIN idle' = DOMAIN idle \ {Len(idle)}
          /\ \A i \in DOMAIN idle' : idle'[i] = idle[i]
      BY <2>3, Popped
    <3>2. \A k \in DOMAIN status : status[k] = "up" =>
            (\E i \in DOMAIN idle' : idle'[i] = k) \/ (\E d \in Lessees : chan[d] = k)
      BY <2>3, <3>1 DEF LeaseInv
    <3> QED
      BY <2>1, <3>1, <3>2 DEF LeaseInv
  <2> QED
    BY <1>4, <2>2, <2>3 DEF Starts
<1>5. ASSUME NEW c \in Calls, Opens(c) PROVE LeaseInv'
  <2>1. /\ Lessees' = Lessees \cup {c} /\ c \notin Lessees
    BY <1>5 DEF Lessees, Opens, Others, Stays
  <2>2. /\ chan'[c] = Len(status) + 1 /\ \A d \in Calls \ {c} : chan'[d] = chan[d]
        /\ UNCHANGED idle
    BY <1>5 DEF Opens, ChannelTypes
  <2>3. /\ DOMAIN status' = DOMAIN status \cup {Len(status) + 1}
        /\ Len(status) + 1 \notin DOMAIN status \cup {0}
        /\ \A k \in DOMAIN status : status'[k] = status[k]
    BY <1>5 DEF Opens, ChannelTypes
  <2>4. /\ \A i \in DOMAIN idle : idle[i] \in DOMAIN status
        /\ \A d \in Lessees : d \in Calls /\ chan[d] \in {0} \cup DOMAIN status
    BY DEF ChannelTypes, Lessees
  <2>5. \A d \in Lessees' : chan'[d] # 0 /\ \A i \in DOMAIN idle : idle[i] # chan'[d]
    BY <2>1, <2>2, <2>3, <2>4 DEF LeaseInv
  <2>6. \A d, e \in Lessees' : chan'[d] = chan'[e] => d = e
    BY <2>1, <2>2, <2>3, <2>4 DEF LeaseInv
  <2>7. \A k \in DOMAIN status' : status'[k] = "up" =>
          (\E i \in DOMAIN idle : idle[i] = k) \/ (\E d \in Lessees' : chan'[d] = k)
    BY <2>1, <2>2, <2>3, <2>4 DEF LeaseInv
  <2> QED
    BY <2>2, <2>5, <2>6, <2>7 DEF LeaseInv
<1>6. ASSUME NEW c \in Calls, GivesUp(c) PROVE LeaseInv'
  BY <1>1, <1>6 DEF GivesUp, Others, Stays
<1>7. ASSUME NEW c \in Calls, Drops(c) PROVE LeaseInv'
  <2>1. /\ Lessees' = Lessees \ {c} /\ c \in Lessees /\ UNCHANGED <<chan, status>>
    BY <1>7 DEF Lessees, Drops, Others, Stays
  <2>2. /\ DOMAIN idle' = DOMAIN idle \cup {Len(idle) + 1} /\ Len(idle) + 1 \notin DOMAIN idle
        /\ \A i \in DOMAIN idle : idle'[i] = idle[i]
        /\ idle'[Len(idle) + 1] = chan[c]
    BY <1>7, Pushed DEF Drops
  <2>3. \A i, j \in DOMAIN idle' : idle'[i] = idle'[j] => i = j
    BY <2>1, <2>2 DEF LeaseInv
  <2>4. \A d \in Lessees' : chan[d] # 0 /\ \A i \in DOMAIN idle' : idle'[i] # chan[d]
    BY <2>1, <2>2 DEF LeaseInv
  <2>5. \A k \in DOMAIN status : status[k] = "up" =>
          (\E i \in DOMAIN idle' : idle'[i] = k) \/ (\E d \in Lessees' : chan[d] = k)
    BY <2>1, <2>2 DEF LeaseInv
  <2> QED
    BY <2>1, <2>3, <2>4, <2>5 DEF LeaseInv
<1>8. CASE ClosePool
  <2>1. Lessees' = Lessees /\ idle' = <<>> /\ UNCHANGED chan
    BY <1>8 DEF ClosePool, Lessees, HoldTypes
  <2>2. /\ DOMAIN status' = DOMAIN status
        /\ \A k \in DOMAIN status :
             status'[k] = IF k \in {idle[i] : i \in DOMAIN idle} THEN "dead" ELSE status[k]
    BY <1>8, Closed DEF ClosePool, ChannelTypes
  <2> QED
    BY <2>1, <2>2 DEF LeaseInv
<1>9. ASSUME NEW K, Break(K) PROVE LeaseInv'
  <2>1. /\ DOMAIN status' = DOMAIN status
        /\ \A k \in DOMAIN status : status'[k] = IF k \in K THEN "dead" ELSE status[k]
    BY <1>9, Closed DEF Break, ChannelTypes
  <2> QED
    BY <1>1, <1>9, <2>1 DEF Break, poolVars, callVars
<1> QED
  BY <1>2, <1>3, <1>4, <1>5, <1>6, <1>7, <1>8, <1>9 DEF PoolStep

LEMMA PoolSizeNat == pool_size \in Nat \ {0}
BY PublisherAssumption DEF pool_size

LEMMA PermitStep ==
  ASSUME ChannelTypes, LeaseInv, HoldTypes, PermitInv, PoolStep
  PROVE  PermitInv'
<1> USE DEF Holding, Leased, Ended
<1>0. /\ Cardinality(Holders) \in Nat /\ pool_size \in Nat /\ permits \in Nat /\ Len(idle) \in Nat
      /\ permits + Cardinality(Holders) = pool_size
      /\ Len(idle) + Cardinality(Holders) <= pool_size
      /\ IsFiniteSet(Holders)
  BY FS_CardinalityType, PoolSizeNat DEF PermitInv, ChannelTypes
<1>1. ASSUME Holders' = Holders, UNCHANGED permits, Len(idle') \in 0..Len(idle) PROVE PermitInv'
  BY <1>0, <1>1 DEF PermitInv
<1>2. ASSUME NEW c \in Calls, Takes(c) \/ Starts(c) PROVE PermitInv'
  <2>1. Holders' = Holders \cup {c} /\ c \notin Holders
    BY <1>2 DEF Holders, Takes, Starts, Others, Stays
  <2>2. IsFiniteSet(Holders') /\ Cardinality(Holders') = Cardinality(Holders) + 1
    BY <1>0, <2>1, FS_AddElement
  <2>3. permits > 0 /\ permits' = permits - 1
    BY <1>2 DEF Takes, Starts
  <2>4. (Len(idle') = Len(idle) - 1) \/ (Len(idle') = 0)
    BY <1>2, Popped DEF Takes, Starts
  <2> QED
    BY <1>0, <2>2, <2>3, <2>4 DEF PermitInv
<1>3. ASSUME NEW c \in Calls, GivesUp(c) \/ Drops(c) PROVE PermitInv'
  <2>1. Holders' = Holders \ {c} /\ c \in Holders
    BY <1>3 DEF Holders, GivesUp, Drops, Others, Stays
  <2>2. IsFiniteSet(Holders') /\ Cardinality(Holders') = Cardinality(Holders) - 1
    BY <1>0, <2>1, FS_RemoveElement
  <2>3. permits' = permits + 1
    BY <1>3 DEF GivesUp, Drops, DropLease
  <2>4. Len(idle') = Len(idle) \/ Len(idle') = Len(idle) + 1
    BY <1>3, Pushed DEF GivesUp, Drops
  <2> QED
    BY <1>0, <2>2, <2>3, <2>4 DEF PermitInv
<1>4. ASSUME NEW c \in Calls, Opens(c) PROVE PermitInv'
  <2>1. Holders' = Holders
    BY <1>4 DEF Holders, Opens, Others, Stays
  <2> QED
    BY <1>0, <1>1, <1>4, <2>1 DEF Opens
<1>5. CASE PoolFrame
  <2>1. Holders' = Holders
    BY <1>5 DEF Holders, PoolFrame, Stays
  <2> QED
    BY <1>0, <1>1, <1>5, <2>1 DEF PoolFrame
<1>6. CASE ClosePool
  <2>1. Holders' = Holders
    BY <1>6 DEF Holders, ClosePool, HoldTypes
  <2> QED
    BY <1>0, <1>1, <1>6, <2>1 DEF ClosePool
<1>7. ASSUME NEW K, Break(K) PROVE PermitInv'
  <2>1. Holders' = Holders /\ UNCHANGED <<permits, idle>>
    BY <1>7 DEF Holders, Break, callVars, poolVars
  <2> QED
    BY <1>0, <1>1, <2>1
<1> QED
  BY <1>2, <1>3, <1>4, <1>5, <1>6, <1>7 DEF PoolStep

-----------------------------------------------------------------------------
(***************************************************************************)
(* The queue for permits, and the close.                                   *)
(***************************************************************************)

\* Who gets into the queue, and who can be in it afterwards.
LEMMA QueueSteps ==
  ASSUME HoldTypes, Next
  PROVE  \/ UNCHANGED queue /\ \A c \in Calls : pc'[c] = "queued" => pc[c] = "queued"
         \/ \E c \in Calls : /\ poolOpen /\ queue' = Append(queue, c)
                             /\ \A d \in Calls \ {c} : pc'[d] = pc[d]
                             /\ pc[c] \in {"idle", "declare"} /\ pc'[c] = "queued"
         \/ \E c \in Calls : Acquire(c)
         \/ \E c \in Calls : Cancel(c)
         \/ MarkClosing \/ ClosePool
<1>1. ASSUME NEW c \in Calls, NEW to, Goto(c, to)
      PROVE  pc'[c] = to /\ \A d \in Calls \ {c} : pc'[d] = pc[d]
  BY <1>1 DEF Goto, HoldTypes
<1>2. ASSUME NEW c \in Calls, PublishNow(c) \/ DeclareHold(c)
      PROVE  \/ UNCHANGED queue /\ \A d \in Calls : pc'[d] = "queued" => pc[d] = "queued"
             \/ /\ poolOpen /\ queue' = Append(queue, c)
                /\ \A d \in Calls \ {c} : pc'[d] = pc[d]
                /\ pc[c] \in {"idle", "declare"} /\ pc'[c] = "queued"
  <2>1. CASE Enter(c)
    BY <1>1, <1>2, <2>1 DEF Enter, PublishNow, DeclareHold
  <2>2. CASE Goto(c, "err") /\ UNCHANGED queue
    BY <1>1, <2>2
  <2> QED
    BY <1>2, <2>1, <2>2 DEF PublishNow, DeclareHold
<1>3. ASSUME NEW c \in Calls,
             \/ PublishHeld(c) \/ EnsureConnected(c) \/ OpenConfirmChannel(c)
             \/ BasicPublish(c) \/ ConfirmLost(c)
      PROVE  UNCHANGED queue /\ \A d \in Calls : pc'[d] = "queued" => pc[d] = "queued"
  <2>1. UNCHANGED queue
    BY <1>3 DEF PublishHeld, EnsureConnected, OpenConfirmChannel, BasicPublish, ConfirmLost,
       poolVars
  <2>2. PICK to \in {"err", "declare", "open", "publish", "confirm"} : Goto(c, to)
    BY <1>3 DEF PublishHeld, EnsureConnected, OpenConfirmChannel, BasicPublish, ConfirmLost
  <2> QED
    BY <1>1, <2>1, <2>2
<1>4. ASSUME NEW k, Confirm(k)
      PROVE  UNCHANGED queue /\ \A d \in Calls : pc'[d] = "queued" => pc[d] = "queued"
  <2>1. UNCHANGED queue
    BY <1>4 DEF Confirm
  <2>2. PICK n, given, verdict : Resolve(k, n, given, verdict)
    BY <1>4 DEF Confirm
  <2> QED
    BY <2>1, <2>2 DEF Resolve, confirmation_to_result
<1>5. CASE \/ CloseDeclareChannel \/ Tick
           \/ \E K : Break(K)
           \/ \E c \in Calls : Release(c)
           \/ \E t \in Ttls : DeleteHold(t)
  BY <1>5 DEF CloseDeclareChannel, Tick, Break, Release, DeleteHold, poolVars, callVars
<1>6. ASSUME NEW c \in Calls, CallNext(c)
      PROVE  DeclareHold(c) \/ Acquire(c) \/ EnsureConnected(c) \/ OpenConfirmChannel(c)
             \/ BasicPublish(c) \/ ConfirmLost(c)
  BY <1>6 DEF CallNext
<1>7. CASE \E c \in Calls : PublishNow(c) \/ PublishHeld(c) \/ CallNext(c) \/ Cancel(c)
  <2>1. PICK c \in Calls : PublishNow(c) \/ PublishHeld(c) \/ CallNext(c) \/ Cancel(c)
    BY <1>7
  <2>2. CASE Acquire(c) \/ Cancel(c)
    BY <2>2
  <2>3. CASE PublishNow(c) \/ DeclareHold(c)
    BY <1>2, <2>3
  <2>4. CASE \/ PublishHeld(c) \/ EnsureConnected(c) \/ OpenConfirmChannel(c)
             \/ BasicPublish(c) \/ ConfirmLost(c)
    BY <1>3, <2>4
  <2> QED
    BY <1>6, <2>1, <2>2, <2>3, <2>4
<1> QED
  BY <1>4, <1>5, <1>7 DEF Next, BrokerNext

LEMMA QueueStep ==
  ASSUME HoldTypes, QueueInv, Next
  PROVE  QueueInv'
<1>0. queue \in Seq(Calls \cup {Closer}) /\ Len(queue) \in Nat /\ DOMAIN queue = 1..Len(queue)
  BY DEF QueueInv
<1>1. CASE UNCHANGED queue /\ \A c \in Calls : pc'[c] = "queued" => pc[c] = "queued"
  BY <1>1 DEF QueueInv
<1>2. ASSUME NEW w \in Calls \cup {Closer}, queue' = Append(queue, w),
             \A d \in Calls \ {w} : pc'[d] = pc[d]
      PROVE  QueueInv'
  <2>1. /\ queue' \in Seq(Calls \cup {Closer}) /\ DOMAIN queue' = DOMAIN queue \cup {Len(queue) + 1}
        /\ \A i \in DOMAIN queue : queue'[i] = queue[i]
        /\ queue'[Len(queue) + 1] = w
    BY <1>0, <1>2
  <2> QED
    BY <1>2, <2>1 DEF QueueInv
<1>3. ASSUME NEW c \in Calls, Acquire(c) PROVE QueueInv'
  <2>1. pc[c] = "queued" /\ Head(queue) = c /\ queue' = Tail(queue)
    BY <1>3 DEF Acquire
  <2>2. Len(queue) > 0 /\ queue[1] = c
    BY <1>0, <2>1 DEF QueueInv
  <2>3. /\ queue' \in Seq(Calls \cup {Closer}) /\ DOMAIN queue' = 1..(Len(queue) - 1)
        /\ \A i \in 1..(Len(queue) - 1) : queue'[i] = queue[i + 1]
    BY <1>0, <2>1, <2>2
  <2>4. \A i \in DOMAIN queue : i # 1 => (i - 1) \in DOMAIN queue' /\ queue'[i - 1] = queue[i]
    BY <1>0, <2>3
  <2>5. \A d \in Calls : pc'[d] = "queued" => d # c /\ pc[d] = "queued"
    BY <1>3 DEF Acquire, Goto, HoldTypes
  <2>6. \A d \in Calls : pc'[d] = "queued" => \E i \in DOMAIN queue' : queue'[i] = d
    BY <2>2, <2>4, <2>5 DEF QueueInv
  <2> QED
    BY <2>3, <2>6 DEF QueueInv
<1>4. ASSUME NEW c \in Calls, Cancel(c) PROVE QueueInv'
  <2>1. \A d \in Calls : pc'[d] = "queued" => d # c /\ pc[d] = "queued"
    BY <1>4 DEF Cancel, Goto, HoldTypes
  <2>2. CASE UNCHANGED queue
    BY <2>1, <2>2 DEF QueueInv
  <2>3. ASSUME NEW i \in DOMAIN queue, queue[i] = c,
               queue' = SubSeq(queue, 1, i - 1) \o SubSeq(queue, i + 1, Len(queue))
        PROVE  QueueInv'
    <3> DEFINE before == SubSeq(queue, 1, i - 1)
               after == SubSeq(queue, i + 1, Len(queue))
    <3>1. i \in 1..Len(queue)
      BY <1>0
    <3>2. /\ before \in Seq(Calls \cup {Closer}) /\ Len(before) = i - 1
          /\ \A j \in 1..(i - 1) : before[j] = queue[j]
      BY <1>0, <3>1
    <3>3. /\ after \in Seq(Calls \cup {Closer}) /\ Len(after) = Len(queue) - i
          /\ \A j \in 1..(Len(queue) - i) : after[j] = queue[j + i]
      BY <1>0, <3>1
    <3>4. queue' = before \o after
      BY <2>3
    <3> HIDE DEF before, after
    <3>5. /\ queue' \in Seq(Calls \cup {Closer}) /\ Len(queue') = (i - 1) + (Len(queue) - i)
          /\ \A j \in 1..(i - 1) : queue'[j] = before[j]
          /\ \A j \in 1..(Len(queue) - i) : queue'[(i - 1) + j] = after[j]
      <4> DEFINE T == Calls \cup {Closer}
      <4>1. before \in Seq(T) /\ after \in Seq(T)
        BY <3>2, <3>3
      <4> HIDE DEF T
      <4>2. /\ before \o after \in Seq(T) /\ Len(before \o after) = Len(before) + Len(after)
            /\ \A j \in 1..Len(before) : (before \o after)[j] = before[j]
            /\ \A j \in 1..Len(after) : (before \o after)[Len(before) + j] = after[j]
        BY <4>1
      <4> QED
        BY <3>2, <3>3, <3>4, <4>2, Zenon DEF T
    <3>6. \A j \in 1..Len(queue) :
            /\ j < i => queue'[j] = queue[j] /\ j \in 1..(Len(queue) - 1)
            /\ j > i => queue'[j - 1] = queue[j] /\ j - 1 \in 1..(Len(queue) - 1)
      <4>1. ASSUME NEW j \in 1..Len(queue), j < i
            PROVE  queue'[j] = queue[j] /\ j \in 1..(Len(queue) - 1)
        BY <1>0, <3>1, <3>2, <3>5, <4>1, SMTT(60)
      <4>2. ASSUME NEW j \in 1..Len(queue), j > i
            PROVE  queue'[j - 1] = queue[j] /\ j - 1 \in 1..(Len(queue) - 1)
        <5>1. /\ j - i \in 1..(Len(queue) - i) /\ j - 1 \in 1..(Len(queue) - 1)
              /\ (i - 1) + (j - i) = j - 1 /\ (j - i) + i = j
          BY <1>0, <3>1, <4>2
        <5>2. queue'[j - 1] = after[j - i] /\ after[j - i] = queue[j]
          BY <3>3, <3>5, <5>1
        <5> QED
          BY <5>1, <5>2
      <4> QED
        BY <4>1, <4>2
    <3>7. \A d \in Calls : pc'[d] = "queued" => \E j \in 1..(Len(queue) - 1) : queue'[j] = d
      <4> SUFFICES ASSUME NEW d \in Calls, pc'[d] = "queued"
                   PROVE  \E j \in 1..(Len(queue) - 1) : queue'[j] = d
        OBVIOUS
      <4>1. PICK j \in 1..Len(queue) : queue[j] = d
        BY <1>0, <2>1 DEF QueueInv
      <4>2. j < i \/ j > i
        BY <2>1, <2>3, <3>1, <4>1
      <4> QED
        BY <3>6, <4>1, <4>2
    <3>8. DOMAIN queue' = 1..(Len(queue) - 1)
      BY <1>0, <3>1, <3>5
    <3> QED
      BY <3>5, <3>7, <3>8 DEF QueueInv
  <2> QED
    BY <1>4, <2>2, <2>3 DEF Cancel, LeaveQueue
<1>5. CASE MarkClosing
  BY <1>1, <1>2, <1>5 DEF MarkClosing, callVars
<1>6. CASE ClosePool
  BY <1>6 DEF ClosePool, QueueInv, HoldTypes
<1> QED
  BY <1>1, <1>2, <1>3, <1>4, <1>5, <1>6, QueueSteps

\* The pool is closed once, with every permit in hand.
LEMMA OpenSteps ==
  ASSUME Next
  PROVE  ClosePool \/ UNCHANGED poolOpen
BY DEF Next, PublishNow, PublishHeld, CallNext, DeclareHold, Acquire, EnsureConnected,
   OpenConfirmChannel, BasicPublish, ConfirmLost, Cancel, Confirm, MarkClosing,
   CloseDeclareChannel, BrokerNext, Break, Release, DeleteHold, Tick, poolVars

LEMMA ClosedStep ==
  ASSUME HoldTypes, ChannelTypes, LeaseInv, PermitInv, ClosedInv, PoolStep, Next
  PROVE  ClosedInv'
<1> USE DEF Holding, Leased, Ended
<1>1. CASE ClosePool
  <2>1. Cardinality(Holders) = 0
    BY <1>1, FS_CardinalityType DEF ClosePool, PermitInv
  <2>2. Holders = {}
    BY <2>1, FS_EmptySet DEF PermitInv
  <2>3. \A c \in Calls : pc[c] \notin Holding
    BY <2>2 DEF Holders
  <2>4. \A c \in Calls : pc'[c] \notin Holding \cup {"queued"}
    BY <1>1, <2>3 DEF ClosePool
  <2>5. /\ DOMAIN status' = DOMAIN status
        /\ \A k \in DOMAIN status :
             status'[k] = IF k \in {idle[i] : i \in DOMAIN idle} THEN "dead" ELSE status[k]
    BY <1>1, Closed DEF ClosePool, ChannelTypes
  <2>6. \A k \in DOMAIN status : status[k] = "dead" \/ k \in {idle[i] : i \in DOMAIN idle}
    BY <2>3 DEF LeaseInv, Lessees, ChannelTypes
  <2> QED
    BY <2>4, <2>5, <2>6 DEF ClosedInv
<1>2. CASE ~ClosePool
  <2> SUFFICES ASSUME ~poolOpen
               PROVE  /\ \A c \in Calls : pc'[c] \notin Holding \cup {"queued"}
                      /\ \A k \in DOMAIN status' : status'[k] = "dead"
    BY <1>2, OpenSteps DEF ClosedInv
  <2>1. /\ \A c \in Calls : pc[c] \notin Holding \cup {"queued"}
        /\ \A k \in DOMAIN status : status[k] = "dead"
    BY DEF ClosedInv
  <2>2. (\A c \in Calls : Stays(c)) /\ UNCHANGED status
    <3>1. CASE PoolFrame
      BY <3>1 DEF PoolFrame
    <3>2. ASSUME NEW K \in SUBSET DOMAIN status, Break(K) PROVE FALSE
      BY <2>1, <3>2 DEF Break, Up
    <3> QED
      BY <1>2, <2>1, <3>1, <3>2 DEF PoolStep, Takes, Starts, Opens, GivesUp, Drops
  <2>3. \A c \in Calls : pc'[c] # "queued"
    <3>1. ASSUME NEW c \in Calls, Cancel(c) PROVE \A d \in Calls : pc'[d] = "queued" => pc[d] = "queued"
      BY <3>1 DEF Cancel, Goto, HoldTypes
    <3>2. ASSUME NEW c \in Calls, Acquire(c) PROVE FALSE
      BY <2>1, <3>2 DEF Acquire
    <3> QED
      BY <1>2, <2>1, <3>1, <3>2, QueueSteps DEF MarkClosing, callVars
  <2> QED
    BY <2>1, <2>2, <2>3 DEF Stays
<1> QED
  BY <1>1, <1>2
-----------------------------------------------------------------------------
(***************************************************************************)
(* What is on the wire.                                                    *)
(***************************************************************************)

\* Steps that send and confirm nothing: a call that stops waiting does so because its
\* channel is dead, or leaves it dirty.
LEMMA WireFrame ==
  ASSUME WireTypes, WireInv, OkMeansHandedOver, ChannelTypes, HoldTypes,
         UNCHANGED <<unconfirmed, returned>>, DOMAIN status' = DOMAIN status,
         \A k \in DOMAIN status : status'[k] = "up" => status[k] = "up",
         dirty \subseteq dirty',
         \A c \in Calls : pc[c] \notin BeforeSend => pc'[c] \notin BeforeSend /\ chan'[c] = chan[c],
         \A c \in Calls : pc[c] = "confirm" =>
           pc'[c] = "confirm" \/ status'[chan[c]] # "up" \/ chan[c] \in dirty',
         \A c \in Calls : where'[c] = "nowhere" <=> where[c] = "nowhere",
         \A c \in Calls : pc'[c] = "ok" => pc[c] = "ok"
  PROVE  WireTypes' /\ WireInv' /\ OkMeansHandedOver'
<1>1. WireTypes'
  BY DEF WireTypes
<1>2. \A k \in DOMAIN status : \A i \in DOMAIN unconfirmed[k] : unconfirmed[k][i] \in Calls
  BY DEF WireTypes
<1>3. \A k \in DOMAIN status : \A i \in DOMAIN unconfirmed[k] :
        chan'[unconfirmed[k][i]] = k /\ pc'[unconfirmed[k][i]] \notin BeforeSend
  BY <1>2 DEF WireInv
<1>4. ASSUME NEW k \in DOMAIN status \ dirty', status'[k] = "up" PROVE Clean(k)'
  <2>1. Clean(k)
    BY <1>4 DEF WireInv
  <2>2. CASE unconfirmed[k] = <<>> /\ returned[k] = 0
    BY <2>2 DEF Clean
  <2>3. ASSUME NEW c \in Calls, unconfirmed[k] = <<c>>, pc[c] = "confirm", chan[c] = k,
               returned[k] = IF where[c] = "nowhere" THEN 1 ELSE 0
        PROVE  Clean(k)'
    <3>1. pc'[c] = "confirm" /\ chan'[c] = k
      BY <1>4, <2>3 DEF BeforeSend
    <3> QED
      BY <2>3, <3>1 DEF Clean
  <2> QED
    BY <2>1, <2>2, <2>3 DEF Clean
<1>5. OkMeansHandedOver'
  BY DEF OkMeansHandedOver, BeforeSend
<1> QED
  BY <1>1, <1>3, <1>4, <1>5 DEF WireInv

\* basic_publish on a live channel: nobody else's publish is outstanding on a clean one.
LEMMA WirePublish ==
  ASSUME WireTypes, WireInv, OkMeansHandedOver, ChannelTypes, HoldInv, LeaseInv,
         NEW c \in Calls, pc[c] = "publish", Goto(c, "confirm"), Up(chan[c]),
         NEW routed \in BOOLEAN, Send(c, routed), UNCHANGED <<chan, status, dirty>>
  PROVE  WireTypes' /\ WireInv' /\ OkMeansHandedOver'
<1> DEFINE k == chan[c]
<1>1. k \in DOMAIN status /\ status[k] = "up"
  BY DEF Up, ChannelTypes
<1>2. /\ unconfirmed[k] \in Seq(Calls) /\ returned[k] \in Nat /\ Len(unconfirmed[k]) \in Nat
      /\ DOMAIN unconfirmed = DOMAIN status /\ DOMAIN returned = DOMAIN status
  BY <1>1 DEF WireTypes
<1>3. /\ unconfirmed' = [unconfirmed EXCEPT ![k] = Append(unconfirmed[k], c)]
      /\ returned' = [returned EXCEPT ![k] = IF routed THEN returned[k] ELSE returned[k] + 1]
      /\ where' = [where EXCEPT ![c] = IF ~routed THEN where[c]
                                       ELSE IF ttl[c] = 0 THEN "queue" ELSE "hold"]
  BY DEF Send
<1>4. /\ unconfirmed'[k] = Append(unconfirmed[k], c)
      /\ returned'[k] = IF routed THEN returned[k] ELSE returned[k] + 1
      /\ \A l \in DOMAIN status \ {k} : unconfirmed'[l] = unconfirmed[l] /\ returned'[l] = returned[l]
  BY <1>1, <1>2, <1>3
<1>5. WireTypes'
  <2>1. Append(unconfirmed[k], c) \in Seq(Calls)
    BY <1>2
  <2>2. unconfirmed' \in Seq(Seq(Calls)) /\ DOMAIN unconfirmed' = DOMAIN unconfirmed
    BY <1>1, <1>3, <2>1 DEF WireTypes
  <2>3. (IF routed THEN returned[k] ELSE returned[k] + 1) \in Nat
    BY <1>2
  <2>4. returned' \in Seq(Nat) /\ DOMAIN returned' = DOMAIN returned
    BY <1>1, <1>3, <2>3 DEF WireTypes
  <2> QED
    BY <2>2, <2>4 DEF WireTypes
<1>6. pc'[c] = "confirm" /\ \A d \in Calls \ {c} : pc'[d] = pc[d] /\ where'[d] = where[d]
  BY <1>3 DEF Goto, HoldInv, HoldTypes
<1>7. where[c] = "nowhere" /\ where'[c] = (IF ~routed THEN "nowhere"
                                           ELSE IF ttl[c] = 0 THEN "queue" ELSE "hold")
  BY <1>3 DEF HoldInv, HoldTypes, BeforeSend
<1>8. \A l \in DOMAIN status : \A i \in DOMAIN unconfirmed'[l] :
        chan[unconfirmed'[l][i]] = l /\ pc'[unconfirmed'[l][i]] \notin BeforeSend
  <2>1. ASSUME NEW l \in DOMAIN status, NEW i \in DOMAIN unconfirmed[l]
        PROVE  unconfirmed[l][i] \in Calls \ {c} /\ chan[unconfirmed[l][i]] = l
               /\ pc'[unconfirmed[l][i]] \notin BeforeSend
    <3>1. unconfirmed[l][i] \in Calls
      BY DEF WireTypes
    <3>2. chan[unconfirmed[l][i]] = l /\ pc[unconfirmed[l][i]] \notin BeforeSend
      BY DEF WireInv
    <3> QED
      BY <1>6, <3>1, <3>2 DEF BeforeSend
  <2>2. \A i \in DOMAIN unconfirmed'[k] : unconfirmed'[k][i] = c
                                          \/ (i \in DOMAIN unconfirmed[k] /\ unconfirmed'[k][i] = unconfirmed[k][i])
    BY <1>2, <1>4
  <2>3. pc'[c] \notin BeforeSend
    BY <1>6 DEF BeforeSend
  <2>4. ASSUME NEW l \in DOMAIN status \ {k}, NEW i \in DOMAIN unconfirmed'[l]
        PROVE  chan[unconfirmed'[l][i]] = l /\ pc'[unconfirmed'[l][i]] \notin BeforeSend
    BY <1>4, <2>1
  <2>5. ASSUME NEW i \in DOMAIN unconfirmed'[k]
        PROVE  chan[unconfirmed'[k][i]] = k /\ pc'[unconfirmed'[k][i]] \notin BeforeSend
    <3>1. CASE unconfirmed'[k][i] = c
      BY <2>3, <3>1
    <3>2. CASE i \in DOMAIN unconfirmed[k] /\ unconfirmed'[k][i] = unconfirmed[k][i]
      BY <1>1, <2>1, <3>2
    <3> QED
      BY <2>2, <3>1, <3>2
  <2> QED
    BY <2>4, <2>5
<1>9. ASSUME NEW l \in DOMAIN status \ dirty, status[l] = "up" PROVE Clean(l)'
  <2>1. Clean(l)
    BY <1>9 DEF WireInv
  <2>2. CASE l = k
    <3>1. unconfirmed[k] = <<>> /\ returned[k] = 0
      BY <2>1, <2>2 DEF Clean, LeaseInv, Lessees, Leased
    <3>2. unconfirmed'[k] = <<c>>
      BY <1>4, <3>1
    <3>3. returned'[k] = IF where'[c] = "nowhere" THEN 1 ELSE 0
      BY <1>4, <1>7, <3>1
    <3> QED
      BY <1>6, <2>2, <3>2, <3>3 DEF Clean
  <2>3. CASE l # k
    <3>1. unconfirmed'[l] = unconfirmed[l] /\ returned'[l] = returned[l]
      BY <1>4, <2>3
    <3>2. CASE unconfirmed[l] = <<>> /\ returned[l] = 0
      BY <3>1, <3>2 DEF Clean
    <3>3. ASSUME NEW d \in Calls, unconfirmed[l] = <<d>>, pc[d] = "confirm", chan[d] = l,
                 returned[l] = IF where[d] = "nowhere" THEN 1 ELSE 0
          PROVE  Clean(l)'
      <4>1. pc'[d] = "confirm" /\ where'[d] = where[d]
        BY <1>6, <3>3
      <4> QED
        BY <3>1, <3>3, <4>1 DEF Clean
    <3> QED
      BY <2>1, <3>2, <3>3 DEF Clean
  <2> QED
    BY <2>2, <2>3
<1>10. OkMeansHandedOver'
  BY <1>6 DEF OkMeansHandedOver
<1> QED
  BY <1>5, <1>8, <1>9, <1>10 DEF WireInv

\* The broker confirms: on a clean channel the returned message, if there is one, goes
\* to the only publish it can belong to.
LEMMA WireConfirm ==
  ASSUME WireTypes, WireInv, OkMeansHandedOver, ChannelTypes, HoldInv,
         NEW k \in DOMAIN status, Confirm(k)
  PROVE  WireTypes' /\ WireInv' /\ OkMeansHandedOver'
<1>0. PICK n \in 1..Len(unconfirmed[k]), verdict \in {"Ack", "Nack"} :
        \E given \in SUBSET {unconfirmed[k][i] : i \in 1..n} :
          /\ Cardinality(given) = Clamp(returned[k], 0, n)
          /\ Resolve(k, n, given, verdict)
  BY DEF Confirm
<1>1. PICK given \in SUBSET {unconfirmed[k][i] : i \in 1..n} :
        /\ Cardinality(given) = Clamp(returned[k], 0, n)
        /\ Resolve(k, n, given, verdict)
  BY <1>0
<1>2. UNCHANGED <<chan, status, dirty, where>> /\ status[k] = "up"
  BY DEF Confirm, holdVars, Up
<1>3. /\ unconfirmed[k] \in Seq(Calls) /\ returned[k] \in Nat /\ Len(unconfirmed[k]) \in Nat
      /\ DOMAIN unconfirmed = DOMAIN status /\ DOMAIN returned = DOMAIN status
  BY SMTT(60) DEF WireTypes
<1>4. /\ returned' = [returned EXCEPT ![k] = returned[k] - Cardinality(given)]
      /\ unconfirmed' = [unconfirmed EXCEPT ![k] = SubSeq(unconfirmed[k], n + 1, Len(unconfirmed[k]))]
  BY <1>1 DEF Resolve
<1>5. Cardinality(given) \in Nat /\ Cardinality(given) <= returned[k]
  BY <1>1, <1>3 DEF Clamp
<1> DEFINE rest == SubSeq(unconfirmed[k], n + 1, Len(unconfirmed[k]))
<1>6. /\ rest \in Seq(Calls) /\ Len(rest) = Len(unconfirmed[k]) - n
      /\ \A i \in 1..(Len(unconfirmed[k]) - n) : rest[i] = unconfirmed[k][n + i]
  BY <1>1, <1>3
<1>7. /\ unconfirmed'[k] = rest /\ returned'[k] = returned[k] - Cardinality(given)
      /\ \A l \in DOMAIN status \ {k} : unconfirmed'[l] = unconfirmed[l] /\ returned'[l] = returned[l]
  BY <1>3, <1>4
<1>8. WireTypes'
  <2>1. unconfirmed' \in Seq(Seq(Calls)) /\ DOMAIN unconfirmed' = DOMAIN unconfirmed
    BY <1>3, <1>4, <1>6 DEF WireTypes
  <2>2. returned[k] - Cardinality(given) \in Nat
    BY <1>3, <1>5
  <2>3. returned' \in Seq(Nat) /\ DOMAIN returned' = DOMAIN returned
    BY <1>3, <1>4, <2>2 DEF WireTypes
  <2> QED
    BY <1>2, <2>1, <2>3 DEF WireTypes
<1> HIDE DEF rest
<1>9. \A c \in Calls : \/ pc'[c] = pc[c]
                       \/ /\ pc[c] = "confirm" /\ pc'[c] \in {"ok", "err"}
                          /\ \E i \in 1..n : unconfirmed[k][i] = c
                          /\ pc'[c] = "ok" => c \notin given
  BY <1>1 DEF Resolve, confirmation_to_result
<1>10. \A i \in 1..n : i \in DOMAIN unconfirmed[k]
  BY <1>1, <1>3
<1>11. ASSUME NEW l \in DOMAIN status, NEW i \in DOMAIN unconfirmed'[l]
       PROVE  chan'[unconfirmed'[l][i]] = l /\ pc'[unconfirmed'[l][i]] \notin BeforeSend
  <2>1. PICK j \in DOMAIN unconfirmed[l] : unconfirmed'[l][i] = unconfirmed[l][j]
    <3>1. CASE l = k
      <4>1. i \in 1..(Len(unconfirmed[k]) - n)
        BY <1>6, <1>7, <3>1
      <4>2. n + i \in DOMAIN unconfirmed[k]
        BY <1>1, <1>3, <4>1
      <4> QED
        BY <1>6, <1>7, <3>1, <4>1, <4>2
    <3>2. CASE l # k
      BY <1>7, <3>2
    <3> QED
      BY <3>1, <3>2
  <2>2. unconfirmed[l][j] \in Calls
    BY DEF WireTypes
  <2>3. chan[unconfirmed[l][j]] = l /\ pc[unconfirmed[l][j]] \notin BeforeSend
    BY DEF WireInv
  <2> QED
    BY <1>2, <1>9, <2>1, <2>2, <2>3 DEF BeforeSend
<1>12. ASSUME k \notin dirty
       PROVE  \E c \in Calls : /\ unconfirmed[k] = <<c>> /\ n = 1 /\ chan[c] = k
                               /\ returned[k] = (IF where[c] = "nowhere" THEN 1 ELSE 0)
                               /\ Cardinality(given) = returned[k]
                               /\ where[c] = "nowhere" => c \in given
  <2>1. Clean(k) /\ unconfirmed[k] # <<>>
    BY <1>1, <1>2, <1>3, <1>12 DEF WireInv
  <2>2. PICK c \in Calls : /\ unconfirmed[k] = <<c>> /\ pc[c] = "confirm" /\ chan[c] = k
                           /\ returned[k] = IF where[c] = "nowhere" THEN 1 ELSE 0
    BY <2>1 DEF Clean
  <2>3. n = 1
    BY <1>1, <2>2
  <2>4. Cardinality(given) = returned[k]
    BY <1>1, <2>2, <2>3 DEF Clamp
  <2>5. {unconfirmed[k][i] : i \in 1..n} = {c}
    BY <2>2, <2>3
  <2>6. given = {} \/ given = {c}
    BY <1>1, <2>5
  <2>7. given = {} => Cardinality(given) = 0
    BY FS_EmptySet
  <2> QED
    BY <2>2, <2>3, <2>4, <2>6, <2>7
<1>13. ASSUME NEW l \in DOMAIN status \ dirty, status[l] = "up" PROVE Clean(l)'
  <2>1. CASE l = k
    <3>1. PICK c \in Calls : /\ unconfirmed[k] = <<c>> /\ n = 1
                             /\ returned[k] = (IF where[c] = "nowhere" THEN 1 ELSE 0)
                             /\ Cardinality(given) = returned[k]
      BY <1>12, <1>13, <2>1
    <3>2. Len(rest) = 0 /\ returned'[k] = 0
      BY <1>6, <1>7, <3>1
    <3>3. unconfirmed'[k] = <<>>
      BY <1>6, <1>7, <3>2
    <3> QED
      BY <2>1, <3>2, <3>3 DEF Clean
  <2>2. CASE l # k
    <3>1. Clean(l) /\ unconfirmed'[l] = unconfirmed[l] /\ returned'[l] = returned[l]
      BY <1>7, <1>13, <2>2 DEF WireInv
    <3>2. CASE unconfirmed[l] = <<>> /\ returned[l] = 0
      BY <3>1, <3>2 DEF Clean
    <3>3. ASSUME NEW d \in Calls, unconfirmed[l] = <<d>>, pc[d] = "confirm", chan[d] = l,
                 returned[l] = IF where[d] = "nowhere" THEN 1 ELSE 0
          PROVE  Clean(l)'
      <4>1. \A i \in 1..n : chan[unconfirmed[k][i]] = k
        BY <1>10 DEF WireInv
      <4>2. pc'[d] = "confirm"
        BY <1>9, <2>2, <3>3, <4>1
      <4> QED
        BY <1>2, <3>1, <3>3, <4>2 DEF Clean
    <3> QED
      BY <3>1, <3>2, <3>3 DEF Clean
  <2> QED
    BY <2>1, <2>2
<1>14. OkMeansHandedOver'
  <2> SUFFICES ASSUME NEW c \in Calls, pc'[c] = "ok"
               PROVE  where[c] # "nowhere" \/ chan[c] \in dirty
    BY <1>2 DEF OkMeansHandedOver
  <2>1. CASE pc[c] = "ok"
    BY <2>1 DEF OkMeansHandedOver
  <2>2. CASE pc[c] # "ok"
    <3>1. PICK i \in 1..n : unconfirmed[k][i] = c /\ c \notin given
      BY <1>9, <2>2
    <3>2. chan[c] = k
      BY <1>10, <3>1 DEF WireInv
    <3>3. ASSUME k \notin dirty PROVE where[c] # "nowhere"
      <4>1. PICK d \in Calls : /\ unconfirmed[k] = <<d>> /\ n = 1
                               /\ where[d] = "nowhere" => d \in given
        BY <1>12, <3>3
      <4>2. d = c
        BY <3>1, <4>1
      <4> QED
        BY <3>1, <4>1, <4>2
    <3> QED
      BY <3>2, <3>3
  <2> QED
    BY <2>1, <2>2
<1> QED
  BY <1>2, <1>8, <1>11, <1>13, <1>14 DEF WireInv

\* A new channel is clean.
LEMMA WireOpen ==
  ASSUME WireTypes, WireInv, OkMeansHandedOver, ChannelTypes, HoldTypes,
         NEW c \in Calls, pc[c] = "open", Goto(c, "publish"),
         chan' = [chan EXCEPT ![c] = Len(status) + 1], status' = Append(status, "up"),
         unconfirmed' = Append(unconfirmed, <<>>), returned' = Append(returned, 0),
         UNCHANGED <<dirty, where>>
  PROVE  WireTypes' /\ WireInv' /\ OkMeansHandedOver'
<1> DEFINE new == Len(status) + 1
<1>1. /\ Len(status) \in Nat /\ Len(unconfirmed) = Len(status) /\ Len(returned) = Len(status)
      /\ DOMAIN status = 1..Len(status)
  BY DEF WireTypes, ChannelTypes
<1>2. /\ DOMAIN status' = DOMAIN status \cup {new} /\ new \notin DOMAIN status
      /\ \A k \in DOMAIN status : status'[k] = status[k]
  BY <1>1 DEF ChannelTypes
<1>3. /\ unconfirmed' \in Seq(Seq(Calls)) /\ DOMAIN unconfirmed' = DOMAIN status'
      /\ unconfirmed'[new] = <<>>
      /\ \A k \in DOMAIN status : unconfirmed'[k] = unconfirmed[k]
  BY <1>1, <1>2 DEF WireTypes
<1>4. /\ returned' \in Seq(Nat) /\ DOMAIN returned' = DOMAIN status'
      /\ returned'[new] = 0
      /\ \A k \in DOMAIN status : returned'[k] = returned[k]
  BY <1>1, <1>2 DEF WireTypes
<1>5. \A d \in Calls : pc[d] \notin BeforeSend => pc'[d] = pc[d] /\ chan'[d] = chan[d]
  BY DEF Goto, HoldTypes, ChannelTypes, BeforeSend
<1>6. WireTypes'
  BY <1>3, <1>4 DEF WireTypes
<1>7. \A k \in DOMAIN status : \A i \in DOMAIN unconfirmed[k] :
        /\ unconfirmed[k][i] \in Calls /\ chan[unconfirmed[k][i]] = k
        /\ pc[unconfirmed[k][i]] \notin BeforeSend
  BY DEF WireInv, WireTypes
<1> HIDE DEF new
<1>8. \A k \in DOMAIN status' : \A i \in DOMAIN unconfirmed'[k] :
        chan'[unconfirmed'[k][i]] = k /\ pc'[unconfirmed'[k][i]] \notin BeforeSend
  <2>1. \A k \in DOMAIN status : \A i \in DOMAIN unconfirmed'[k] :
          chan'[unconfirmed'[k][i]] = k /\ pc'[unconfirmed'[k][i]] \notin BeforeSend
    BY <1>3, <1>5, <1>7
  <2>2. DOMAIN unconfirmed'[new] = {}
    <3>1. DOMAIN << >> = {}
      OBVIOUS
    <3> QED
      BY <1>3, <3>1, Zenon
  <2> QED
    BY <1>2, <2>1, <2>2
<1>9. ASSUME NEW k \in DOMAIN status' \ dirty, status'[k] = "up" PROVE Clean(k)'
  <2>1. CASE k = new
    BY <1>3, <1>4, <2>1 DEF Clean
  <2>2. CASE k \in DOMAIN status
    <3>1. Clean(k) /\ unconfirmed'[k] = unconfirmed[k] /\ returned'[k] = returned[k]
      BY <1>2, <1>3, <1>4, <1>9, <2>2 DEF WireInv
    <3>2. CASE unconfirmed[k] = <<>> /\ returned[k] = 0
      BY <3>1, <3>2 DEF Clean
    <3>3. ASSUME NEW d \in Calls, unconfirmed[k] = <<d>>, pc[d] = "confirm", chan[d] = k,
                 returned[k] = IF where[d] = "nowhere" THEN 1 ELSE 0
          PROVE  Clean(k)'
      <4>1. pc'[d] = "confirm" /\ chan'[d] = k
        BY <1>5, <3>3 DEF BeforeSend
      <4> QED
        BY <3>1, <3>3, <4>1 DEF Clean
    <3> QED
      BY <3>1, <3>2, <3>3 DEF Clean
  <2> QED
    BY <1>2, <2>1, <2>2
<1>10. OkMeansHandedOver'
  BY <1>5 DEF OkMeansHandedOver, BeforeSend, Goto, HoldTypes
<1> QED
  BY <1>6, <1>8, <1>9, <1>10 DEF WireInv

LEMMA WireStep ==
  ASSUME WireTypes, WireInv, OkMeansHandedOver, ChannelTypes, HoldInv, LeaseInv, Next
  PROVE  /\ WireTypes' /\ WireInv' /\ OkMeansHandedOver'
         /\ dirty' \subseteq dirty \cup {chan[c] : c \in Lessees}
<1> USE DEF BeforeSend
<1>0. HoldTypes
  BY DEF HoldInv
<1>1. ASSUME NEW c \in Calls, NEW to \in {"queued", "err", "declare", "publish", "ensure", "open", "gone"},
             Goto(c, to), pc[c] \in BeforeSend \/ to \in {"err", "gone"},
             \A d \in Calls \ {c} : chan'[d] = chan[d],
             pc[c] \notin BeforeSend => UNCHANGED chan,
             UNCHANGED <<status, unconfirmed, returned, where>>, dirty \subseteq dirty',
             pc[c] = "confirm" => status[chan[c]] # "up" \/ chan[c] \in dirty'
      PROVE  WireTypes' /\ WireInv' /\ OkMeansHandedOver'
  <2>1. pc'[c] = to /\ \A d \in Calls \ {c} : pc'[d] = pc[d]
    BY <1>0, <1>1 DEF Goto, HoldTypes
  <2>2. \A d \in Calls : pc[d] \notin BeforeSend => pc'[d] \notin BeforeSend /\ chan'[d] = chan[d]
    BY <1>1, <2>1
  <2>3. \A d \in Calls : pc[d] = "confirm" =>
          pc'[d] = "confirm" \/ status[chan[d]] # "up" \/ chan[d] \in dirty'
    BY <1>1, <2>1
  <2>4. \A d \in Calls : pc'[d] = "ok" => pc[d] = "ok"
    BY <1>1, <2>1
  <2> QED
    BY <1>0, <1>1, <2>2, <2>3, <2>4, WireFrame
<1>2. ASSUME NEW c \in Calls, PublishNow(c) \/ DeclareHold(c)
      PROVE  WireTypes' /\ WireInv' /\ OkMeansHandedOver' /\ dirty' = dirty
  <2>1. /\ UNCHANGED <<chan, status, unconfirmed, returned, where, dirty>>
        /\ pc[c] \in {"idle", "declare"}
    BY <1>2 DEF PublishNow, DeclareHold, wireVars, holdVars
  <2>2. Goto(c, "queued") \/ Goto(c, "err")
    BY <1>2 DEF PublishNow, DeclareHold, Enter
  <2> QED
    BY <1>1, <2>1, <2>2
<1>3. ASSUME NEW c \in Calls, PublishHeld(c)
      PROVE  WireTypes' /\ WireInv' /\ OkMeansHandedOver' /\ dirty' = dirty
  <2>1. /\ UNCHANGED <<chan, status, unconfirmed, returned, where, dirty>>
        /\ pc[c] = "idle"
    BY <1>3 DEF PublishHeld, wireVars, holdVars
  <2>2. Goto(c, "declare") \/ Goto(c, "err")
    BY <1>3 DEF PublishHeld
  <2> QED
    BY <1>1, <2>1, <2>2
<1>4. ASSUME NEW c \in Calls, Acquire(c) \/ EnsureConnected(c)
      PROVE  WireTypes' /\ WireInv' /\ OkMeansHandedOver' /\ dirty' = dirty
  <2>1. /\ UNCHANGED <<status, unconfirmed, returned, where, dirty>>
        /\ pc[c] \in {"queued", "ensure"}
        /\ \A d \in Calls \ {c} : chan'[d] = chan[d]
    BY <1>4 DEF Acquire, EnsureConnected, wireVars, holdVars, ChannelTypes
  <2>2. Goto(c, "publish") \/ Goto(c, "ensure") \/ Goto(c, "open") \/ Goto(c, "err")
    BY <1>4 DEF Acquire, EnsureConnected
  <2> QED
    BY <1>1, <2>1, <2>2
<1>5. ASSUME NEW c \in Calls, OpenConfirmChannel(c)
      PROVE  WireTypes' /\ WireInv' /\ OkMeansHandedOver' /\ dirty' = dirty
  <2>1. pc[c] = "open" /\ UNCHANGED <<dirty, where>>
    BY <1>5 DEF OpenConfirmChannel, holdVars
  <2>2. CASE Goto(c, "err") /\ UNCHANGED <<chan, status, unconfirmed, returned>>
    BY <1>1, <2>1, <2>2
  <2>3. CASE /\ Goto(c, "publish")
             /\ chan' = [chan EXCEPT ![c] = Len(status) + 1] /\ status' = Append(status, "up")
             /\ unconfirmed' = Append(unconfirmed, <<>>) /\ returned' = Append(returned, 0)
    BY <1>0, <2>1, <2>3, WireOpen
  <2> QED
    BY <1>5, <2>2, <2>3 DEF OpenConfirmChannel
<1>6. ASSUME NEW c \in Calls, BasicPublish(c) \/ ConfirmLost(c)
      PROVE  WireTypes' /\ WireInv' /\ OkMeansHandedOver' /\ dirty' = dirty
  <2>1. pc[c] \in Leased /\ UNCHANGED <<chan, status, dirty>>
    BY <1>6 DEF BasicPublish, ConfirmLost, wireVars, Leased
  <2>2. CASE /\ ~Up(chan[c]) /\ Goto(c, "err")
             /\ UNCHANGED <<unconfirmed, returned, where>>
    <3>1. status[chan[c]] # "up"
      BY <2>1, <2>2 DEF Up, LeaseInv, Lessees
    <3> QED
      BY <1>1, <2>1, <2>2, <3>1
  <2>3. CASE /\ pc[c] = "publish" /\ Up(chan[c]) /\ Goto(c, "confirm")
             /\ \E routed \in Routes(c) : Send(c, routed)
    <3>0. Routes(c) \subseteq BOOLEAN
      <4>1. (ttl[c] \in holds) \in BOOLEAN
        OBVIOUS
      <4> QED
        BY <4>1, Zenon DEF Routes
    <3>1. PICK routed \in BOOLEAN : Send(c, routed)
      BY <2>3, <3>0, Zenon
    <3> QED
      BY <2>1, <2>3, <3>1, WirePublish
  <2> QED
    BY <1>6, <2>2, <2>3 DEF BasicPublish, ConfirmLost, wireVars, holdVars
<1>7. ASSUME NEW c \in Calls, Cancel(c)
      PROVE  /\ WireTypes' /\ WireInv' /\ OkMeansHandedOver'
             /\ dirty' \subseteq dirty \cup {chan[d] : d \in Lessees}
  <2>1. /\ UNCHANGED <<chan, status, unconfirmed, returned, where>> /\ Goto(c, "gone")
        /\ dirty' = IF pc[c] = "confirm" THEN dirty \cup {chan[c]} ELSE dirty
    BY <1>7 DEF Cancel, holdVars
  <2>2. dirty' \subseteq dirty \cup {chan[d] : d \in Lessees}
    BY <2>1 DEF Lessees, Leased
  <2> QED
    BY <1>1, <2>1, <2>2
<1>8. ASSUME NEW k \in DOMAIN status, Confirm(k)
      PROVE  WireTypes' /\ WireInv' /\ OkMeansHandedOver' /\ dirty' = dirty
  BY <1>8, WireConfirm DEF Confirm
<1>9. ASSUME UNCHANGED <<unconfirmed, returned, dirty, chan>>, DOMAIN status' = DOMAIN status,
             \A k \in DOMAIN status : status'[k] = "up" => status[k] = "up",
             \A c \in Calls : pc'[c] = pc[c] \/ (pc[c] = "queued" /\ pc'[c] = "err"),
             \A c \in Calls : where'[c] = "nowhere" <=> where[c] = "nowhere"
      PROVE  WireTypes' /\ WireInv' /\ OkMeansHandedOver' /\ dirty' = dirty
  <2>1. \A d \in Calls : pc[d] \notin BeforeSend => pc'[d] \notin BeforeSend /\ chan'[d] = chan[d]
    BY <1>9
  <2>2. \A d \in Calls : pc[d] = "confirm" => pc'[d] = "confirm"
    BY <1>9
  <2>3. \A d \in Calls : pc'[d] = "ok" => pc[d] = "ok"
    BY <1>9
  <2> QED
    BY <1>0, <1>9, <2>1, <2>2, <2>3, WireFrame
<1>10. CASE MarkClosing \/ CloseDeclareChannel \/ Tick
  BY <1>9, <1>10 DEF MarkClosing, CloseDeclareChannel, Tick, callVars, wireVars, holdVars
<1>11. CASE (\E c \in Calls : Release(c)) \/ (\E t \in Ttls : DeleteHold(t))
  <2>1. UNCHANGED <<unconfirmed, returned, dirty, chan, status, pc>>
    BY <1>11 DEF Release, DeleteHold, callVars, wireVars
  <2>2. \A c \in Calls : where'[c] = "nowhere" <=> where[c] = "nowhere"
    BY <1>0, <1>11 DEF Release, DeleteHold, HoldTypes
  <2> QED
    BY <1>9, <2>1, <2>2
<1>12. CASE ClosePool \/ \E K : Break(K)
  <2>1. PICK K : status' = WithClosed(K)
    BY <1>12 DEF ClosePool, Break
  <2>2. DOMAIN status' = DOMAIN status
        /\ \A k \in DOMAIN status : status'[k] = "up" => status[k] = "up"
    BY <2>1, Closed DEF ChannelTypes
  <2>3. UNCHANGED <<unconfirmed, returned, dirty, chan, where>>
    BY <1>12 DEF ClosePool, Break, callVars, wireVars, holdVars
  <2>4. \A c \in Calls : pc'[c] = pc[c] \/ (pc[c] = "queued" /\ pc'[c] = "err")
    BY <1>12 DEF ClosePool, Break, callVars
  <2> QED
    BY <1>9, <2>2, <2>3, <2>4
<1>13. ASSUME NEW c \in Calls, PublishNow(c) \/ PublishHeld(c) \/ CallNext(c) \/ Cancel(c)
       PROVE  /\ WireTypes' /\ WireInv' /\ OkMeansHandedOver'
              /\ dirty' \subseteq dirty \cup {chan[d] : d \in Lessees}
  BY <1>2, <1>3, <1>4, <1>5, <1>6, <1>7, <1>13 DEF CallNext
<1> QED
  BY <1>8, <1>10, <1>11, <1>12, <1>13 DEF Next, BrokerNext

-----------------------------------------------------------------------------
\* What a fault costs: at most the bound, one at a time.
LEMMA FlagStep ==
  ASSUME FlagTypes, Next
  PROVE  FlagTypes'
<1>1. UNCHANGED <<troubles, cancels>> \/ Trouble
        \/ (cancels < MaxCancels /\ cancels' = cancels + 1 /\ UNCHANGED troubles)
  BY ZenonT(60) DEF Next, PublishNow, PublishHeld, CallNext, DeclareHold, Acquire, EnsureConnected,
     OpenConfirmChannel, BasicPublish, ConfirmLost, Cancel, Confirm, MarkClosing, ClosePool,
     CloseDeclareChannel, BrokerNext, Break, Release, DeleteHold, Tick, faultVars
<1>2. troubles' \in 0..MaxTroubles /\ cancels' \in 0..MaxCancels
  <2>1. MaxTroubles \in Nat /\ MaxCancels \in Nat
    BY PublisherAssumption
  <2>2. troubles \in 0..MaxTroubles /\ cancels \in 0..MaxCancels
    BY DEF FlagTypes
  <2>3. QED
    BY <1>1, <2>1, <2>2 DEF Trouble
<1>3. closer' \in {"open", "marked", "draining", "pool", "done"} /\ closing' \in BOOLEAN
  BY ZenonT(60) DEF FlagTypes, Next, PublishNow, PublishHeld, CallNext, DeclareHold, Acquire,
     EnsureConnected, OpenConfirmChannel, BasicPublish, ConfirmLost, Cancel, Confirm,
     MarkClosing, ClosePool, CloseDeclareChannel, BrokerNext, Break, Release, DeleteHold,
     Tick, handleVars
<1>4. poolOpen' \in BOOLEAN
  BY OpenSteps DEF FlagTypes, ClosePool
<1>5. declareUp' \in BOOLEAN
  <2>1. UNCHANGED declareUp \/ declareUp' = TRUE \/ declareUp' = FALSE
          \/ \E K : declareUp' = (declareUp /\ K # DOMAIN status)
    BY DEF Next, PublishNow, PublishHeld, CallNext, DeclareHold, Acquire, EnsureConnected,
       OpenConfirmChannel, BasicPublish, ConfirmLost, Cancel, Confirm, MarkClosing, ClosePool,
       CloseDeclareChannel, BrokerNext, Break, Release, DeleteHold, Tick, handleVars
  <2>2. QED
    BY <2>1, Zenon DEF FlagTypes
<1>6. QED
  BY <1>2, <1>3, <1>4, <1>5 DEF FlagTypes

-----------------------------------------------------------------------------
LEMMA TtlTypes == Ttls \subseteq Nat /\ 0 \notin Ttls
BY DelaysAssumption, SMT DEF Ttls, MAX_DEFERRAL_MS

LEMMA DueType == ASSUME HoldTypes, NEW c \in Calls PROVE Due(c) \in Nat
<1>1. ttl[c] \in Nat /\ PerMs \in Nat
  BY DelaysAssumption DEF HoldTypes
<1>2. QED
  BY <1>1, SMT DEF Due

\* Steps that time nothing and declare nothing.
LEMMA ClockFrame ==
  ASSUME HoldTypes, ClockTypes, ClockInv,
         UNCHANGED <<delay, ttl, lag, holds, unused, where, age>>,
         \A c \in Calls : \/ pc'[c] = pc[c]
                          \/ pc'[c] \in Waiting /\ pc[c] \in Waiting
                          \/ pc'[c] \in Waiting /\ pc[c] = "idle"
                          \/ pc'[c] \notin BeforeSend
  PROVE  ClockTypes' /\ ClockInv'
<1>1. ClockTypes'
  BY DEF ClockTypes
<1>2. ASSUME NEW c \in Calls PROVE OnTime(c)'
  <2>1. Due(c)' = Due(c)
    BY DEF Due
  <2>2. OnTime(c)
    BY DEF ClockInv
  <2>3. QED
    BY <2>1, <2>2 DEF OnTime, Waiting, BeforeSend
<1>3. QED
  BY <1>1, <1>2 DEF ClockInv

\* publish_held gives a call its TTL; nothing is timed yet.
LEMMA ClockHeld ==
  ASSUME HoldTypes, HoldInv, ClockTypes, ClockInv, NEW c \in Calls, PublishHeld(c)
  PROVE  ClockTypes' /\ ClockInv'
<1>1. PICK d \in Waits, hold \in {"Retry", "Deferral"} :
        LET t == deferred_ttl_ms(d, Granularity(hold))
        IN  \/ Goto(c, "err") /\ UNCHANGED <<delay, ttl>>
            \/ /\ t # TooLong
               /\ Goto(c, "declare")
               /\ delay' = [delay EXCEPT ![c] = d]
               /\ ttl' = [ttl EXCEPT ![c] = t]
  BY DEF PublishHeld
<1> DEFINE t == deferred_ttl_ms(d, Granularity(hold))
<1>2. pc[c] = "idle" /\ UNCHANGED <<lag, holds, unused, where, age>>
  BY DEF PublishHeld, holdVars
<1>3. CASE Goto(c, "err") /\ UNCHANGED <<delay, ttl>>
  BY <1>2, <1>3, ClockFrame DEF Goto, HoldTypes, Waiting, BeforeSend
<1>4. CASE /\ t # TooLong
           /\ Goto(c, "declare")
           /\ delay' = [delay EXCEPT ![c] = d]
           /\ ttl' = [ttl EXCEPT ![c] = t]
  <2>1. d \in Nat /\ Granularity(hold) \in Nat
    BY PublisherAssumption DEF Granularity
  <2>2. t \in Ttls
    BY <1>4, <2>1, NeverShortened
  <2> HIDE DEF t
  <2>3. ClockTypes'
    BY <1>2, <1>4, <2>2 DEF ClockTypes
  <2>4. ASSUME NEW e \in Calls PROVE OnTime(e)'
    <3>1. OnTime(e)
      BY DEF ClockInv
    <3>2. CASE e # c
      <4>1. ttl'[e] = ttl[e] /\ pc'[e] = pc[e]
        BY <1>4, <3>2 DEF Goto, HoldTypes
      <4>2. Due(e)' = Due(e)
        BY <4>1 DEF Due
      <4>3. QED
        BY <1>2, <3>1, <4>1, <4>2 DEF OnTime
    <3>3. CASE e = c
      <4>1. pc'[e] = "declare" /\ lag'[e] = 0 /\ age'[e] = 0 /\ where'[e] = "nowhere"
        BY <1>2, <1>4, <3>1, <3>3 DEF Goto, HoldTypes, HoldInv, OnTime, BeforeSend
      <4>2. Due(e)' \in Nat
        <5>1. ttl'[e] \in Nat /\ PerMs \in Nat
          BY <1>4, <2>2, <3>3, TtlTypes, DelaysAssumption DEF HoldTypes
        <5>2. QED
          BY <5>1, SMT DEF Due
      <4>3. QED
        BY <1>4, <2>2, <3>3, <4>1, <4>2, TtlTypes DEF OnTime, Waiting, BeforeSend, HoldTypes
    <3>4. QED
      BY <3>2, <3>3
  <2>5. QED
    BY <2>3, <2>4 DEF ClockInv
<1>5. QED
  BY <1>1, <1>3, <1>4

\* queue_declare restarts the queue's expiry: whoever waits to send to it, or is held
\* in it, gains by that.
LEMMA ClockDeclare ==
  ASSUME HoldTypes, HoldInv, ClockTypes, ClockInv, NEW c \in Calls, DeclareHold(c)
  PROVE  ClockTypes' /\ ClockInv'
<1>1. pc[c] = "declare" /\ UNCHANGED <<delay, ttl, where, age>>
  BY DEF DeclareHold
<1>2. Goto(c, "queued") \/ Goto(c, "err")
  BY DEF DeclareHold, Enter
<1>3. CASE UNCHANGED <<holds, unused, lag>> /\ Goto(c, "err")
  BY <1>1, <1>3, ClockFrame DEF Goto, HoldTypes, Waiting, BeforeSend
<1>4. CASE /\ holds' = holds \cup {ttl[c]}
           /\ unused' = [unused EXCEPT ![ttl[c]] = 0]
           /\ lag' = [lag EXCEPT ![c] = 0]
  <2>1. ttl[c] \in Ttls
    BY <1>1 DEF ClockInv, OnTime, ClockTypes
  <2>2. ClockTypes'
    BY <1>1, <1>4, <2>1 DEF ClockTypes
  <2>3. ASSUME NEW e \in Calls PROVE OnTime(e)'
    <3>1. OnTime(e) /\ Due(e) \in Nat /\ Due(e)' = Due(e)
      BY <1>1, DueType DEF ClockInv, Due
    <3>2. lag[e] \in Nat /\ age[e] \in Nat /\ ttl[e] \in {0} \cup Ttls
      BY DEF ClockTypes, HoldTypes
    <3>3. ttl[e] # 0 => unused'[ttl[e]] = IF ttl[e] = ttl[c] THEN 0 ELSE unused[ttl[e]]
      BY <1>4, <2>1, <3>2 DEF ClockTypes
    <3>4. CASE e = c
      <4>1. pc'[e] \in {"queued", "err"} /\ lag'[e] = 0 /\ where[e] = "nowhere"
        BY <1>1, <1>2, <1>4, <3>4 DEF Goto, HoldInv, HoldTypes, ClockTypes, BeforeSend
      <4>2. ttl[e] # 0 => unused'[ttl[e]] = 0
        BY <3>3, <3>4
      <4>3. age[e] = 0
        BY <1>1, <3>1, <3>4 DEF OnTime, BeforeSend
      <4>4. QED
        BY <1>1, <3>1, <4>1, <4>2, <4>3 DEF OnTime, Waiting, BeforeSend
    <3>5. CASE e # c
      <4>1. pc'[e] = pc[e] /\ lag'[e] = lag[e]
        BY <1>2, <1>4, <3>5 DEF Goto, HoldTypes, ClockTypes
      <4>2. QED
        BY <1>1, <3>1, <3>2, <3>3, <4>1 DEF OnTime
    <3>6. QED
      BY <3>4, <3>5
  <2>4. QED
    BY <2>2, <2>3 DEF ClockInv
<1>5. QED
  BY <1>3, <1>4 DEF DeclareHold

\* A message gets into its hold queue with the lag its call has by then.
LEMMA ClockSend ==
  ASSUME HoldTypes, HoldInv, ClockTypes, ClockInv, NEW c \in Calls, BasicPublish(c)
  PROVE  ClockTypes' /\ ClockInv'
<1>1. pc[c] = "publish" /\ UNCHANGED <<delay, ttl, lag, age, holds, unused>>
  BY DEF BasicPublish
<1>2. CASE ~Up(chan[c])
  <2>1. Goto(c, "err") /\ UNCHANGED where
    BY <1>2 DEF BasicPublish
  <2>2. QED
    BY <1>1, <2>1, ClockFrame DEF Goto, HoldTypes, Waiting, BeforeSend
<1>3. CASE Up(chan[c])
  <2>1. Goto(c, "confirm")
    BY <1>3 DEF BasicPublish
  <2>2. PICK routed : Send(c, routed)
    BY <1>3 DEF BasicPublish
  <2>3. /\ \A e \in Calls \ {c} : where'[e] = where[e] /\ pc'[e] = pc[e]
        /\ pc'[c] = "confirm" /\ where'[c] \in {"nowhere", "queue", "hold"}
    BY <1>1, <2>1, <2>2 DEF Goto, Send, HoldTypes, HoldInv, BeforeSend
  <2>4. ClockTypes'
    BY <1>1 DEF ClockTypes
  <2>5. ASSUME NEW e \in Calls PROVE OnTime(e)'
    <3>1. OnTime(e) /\ Due(e)' = Due(e)
      BY <1>1 DEF ClockInv, Due
    <3>2. CASE e = c
      BY <1>1, <2>3, <3>1, <3>2 DEF OnTime, Waiting, BeforeSend
    <3>3. CASE e # c
      BY <1>1, <2>3, <3>1, <3>3 DEF OnTime
    <3>4. QED
      BY <3>2, <3>3
  <2>6. QED
    BY <2>4, <2>5 DEF ClockInv
<1>4. QED
  BY <1>2, <1>3

LEMMA ClockRelease ==
  ASSUME HoldTypes, ClockTypes, ClockInv, NEW c \in Calls, Release(c)
  PROVE  ClockTypes' /\ ClockInv'
<1>1. UNCHANGED <<pc, delay, ttl, lag, age, holds, unused>>
  BY DEF Release, callVars
<1>2. \A e \in Calls : where'[e] = where[e] \/ where'[e] = "queue"
  BY DEF Release, HoldTypes
<1>3. ClockTypes'
  BY <1>1 DEF ClockTypes
<1>4. ASSUME NEW e \in Calls PROVE OnTime(e)'
  <2>1. OnTime(e) /\ Due(e)' = Due(e)
    BY <1>1 DEF ClockInv, Due
  <2>2. QED
    BY <1>1, <1>2, <2>1 DEF OnTime
<1>5. QED
  BY <1>3, <1>4 DEF ClockInv

\* x-expires is two TTLs: a queue that is deleted with a message in it was declared
\* that long ago, of which the message was held for one TTL at most.
LEMMA ClockDelete ==
  ASSUME HoldTypes, ClockTypes, ClockInv, NEW t \in Ttls, DeleteHold(t)
  PROVE  ClockTypes' /\ ClockInv'
<1>1. UNCHANGED <<pc, delay, ttl, lag, age>>
  BY DEF DeleteHold, callVars
<1>2. ClockTypes'
  BY <1>1 DEF DeleteHold, ClockTypes
<1>3. unused[t] >= PerMs * (2 * t)
  BY ExpiryAfterTtl DEF DeleteHold
<1>4. ASSUME NEW e \in Calls PROVE OnTime(e)'
  <2>1. OnTime(e) /\ Due(e) \in Nat /\ Due(e)' = Due(e)
    BY <1>1, DueType DEF ClockInv, Due
  <2>2. lag[e] \in Nat /\ age[e] \in Nat /\ ttl[e] \in {0} \cup Ttls
    BY DEF ClockTypes, HoldTypes
  <2>3. ttl[e] # 0 => unused'[ttl[e]] = IF ttl[e] = t THEN 0 ELSE unused[ttl[e]]
    BY <2>2 DEF DeleteHold, ClockTypes
  <2>4. where'[e] = IF where[e] = "hold" /\ ttl[e] = t THEN "lost" ELSE where[e]
    BY DEF DeleteHold
  <2>5. CASE where[e] = "hold" /\ ttl[e] = t
    <3>1. PerMs * (2 * t) = Due(e) + Due(e)
      <4>1. PerMs \in Nat /\ t \in Nat
        BY DelaysAssumption, TtlTypes
      <4>2. PerMs * (2 * t) = PerMs * t + PerMs * t
        BY <4>1, SMT
      <4>3. QED
        BY <2>5, <4>2 DEF Due
    <3>2. unused[t] \in Nat /\ t # 0
      BY TtlTypes DEF ClockTypes
    <3>3. lag[e] = Due(e) \/ unused[t] <= lag[e] + age[e]
      BY <2>1, <2>5, <3>2 DEF OnTime
    <3>4. lag[e] <= Due(e) /\ age[e] <= Due(e)
      BY <2>1 DEF OnTime
    <3>5. unused[t] >= Due(e) + Due(e)
      BY <1>3, <3>1
    <3>6. lag[e] = Due(e)
      BY <2>1, <2>2, <3>2, <3>3, <3>4, <3>5
    <3>7. QED
      BY <1>1, <2>1, <2>2, <2>3, <2>4, <2>5, <3>6 DEF OnTime
  <2>6. CASE ~(where[e] = "hold" /\ ttl[e] = t)
    BY <1>1, <2>1, <2>2, <2>3, <2>4, <2>6 DEF OnTime
  <2>7. QED
    BY <2>5, <2>6
<1>5. QED
  BY <1>2, <1>4 DEF ClockInv

\* Time passes alike for a queue and for what waits to send to it or is held in it.
LEMMA ClockTick ==
  ASSUME HoldTypes, HoldInv, ClockTypes, ClockInv, Tick
  PROVE  ClockTypes' /\ ClockInv'
<1>1. UNCHANGED <<pc, delay, ttl, where, holds>>
  BY DEF Tick
<1>2. ASSUME NEW e \in Calls
      PROVE  /\ lag'[e] = IF pc[e] \in Waiting THEN Clamp(lag[e] + 1, 0, Due(e)) ELSE lag[e]
             /\ lag'[e] \in Nat
  <2>1. Waiting = {"queued", "ensure", "open", "publish"}
    BY DEF Waiting, BeforeSend
  <2>2. lag'[e] = IF pc[e] \in Waiting THEN Clamp(lag[e] + 1, 0, Due(e)) ELSE lag[e]
    BY <2>1 DEF Tick, Due
  <2>3. lag[e] \in Nat /\ Due(e) \in Nat
    BY DueType DEF ClockTypes
  <2>4. QED
    BY <2>2, <2>3 DEF Clamp
<1>3. lag' = [e \in Calls |-> lag'[e]]
  BY DEF Tick
<1>4. lag' \in [Calls -> Nat]
  BY <1>2, <1>3
<1>5. unused' \in [Ttls -> Nat] /\ \A t \in Ttls : unused'[t] <= unused[t] + 1
  BY DEF Tick, ClockTypes
<1>6. ClockTypes'
  BY <1>1, <1>4, <1>5 DEF ClockTypes
<1>7. ASSUME NEW e \in Calls PROVE OnTime(e)'
  <2>1. OnTime(e) /\ Due(e) \in Nat /\ Due(e)' = Due(e)
    BY <1>1, DueType DEF ClockInv, Due
  <2>2. lag[e] \in Nat /\ age[e] \in Nat /\ ttl[e] \in {0} \cup Ttls
    BY DEF ClockTypes, HoldTypes
  <2>3. ttl[e] # 0 => /\ unused[ttl[e]] \in Nat /\ unused'[ttl[e]] \in Nat
                      /\ unused'[ttl[e]] <= unused[ttl[e]] + 1
    BY <1>5, <2>2 DEF ClockTypes
  <2>4. pc[e] \in BeforeSend => where[e] = "nowhere"
    BY DEF HoldInv
  <2>5. /\ where[e] = "hold" => age[e] < Due(e)
        /\ age'[e] = IF where[e] = "hold" THEN age[e] + 1 ELSE age[e]
    BY DEF Tick, Due
  <2>6. CASE pc[e] \in Waiting
    <3>1. pc[e] \in BeforeSend /\ pc[e] \notin {"idle", "declare"} /\ where[e] = "nowhere"
      BY <2>4, <2>6 DEF Waiting
    <3>2. lag'[e] <= Due(e) /\ (lag'[e] = Due(e) \/ lag'[e] = lag[e] + 1)
      BY <1>2, <2>1, <2>2, <2>6 DEF Clamp
    <3>3. lag[e] = Due(e) => lag'[e] = Due(e)
      BY <1>2, <2>1, <2>2, <2>6 DEF Clamp
    <3>4. age'[e] = age[e]
      BY <2>5, <3>1
    <3>5. QED
      BY <1>1, <2>1, <2>2, <2>3, <2>6, <3>1, <3>2, <3>3, <3>4 DEF OnTime
  <2>7. CASE pc[e] \notin Waiting
    <3>1. lag'[e] = lag[e]
      BY <1>2, <2>7
    <3>2. QED
      BY <1>1, <2>1, <2>2, <2>3, <2>4, <2>5, <2>7, <3>1 DEF OnTime
  <2>8. QED
    BY <2>6, <2>7
<1>8. QED
  BY <1>6, <1>7 DEF ClockInv

LEMMA ClockStep ==
  ASSUME HoldInv, ClockTypes, ClockInv, Next
  PROVE  ClockTypes' /\ ClockInv'
<1>0. HoldTypes
  BY DEF HoldInv
<1> USE DEF Waiting, BeforeSend
<1>1. ASSUME NEW c \in Calls, NEW to, Goto(c, to),
             (pc[c] \in Waiting \cup {"idle"} /\ to \in Waiting) \/ to \in {"err", "gone"},
             UNCHANGED <<delay, ttl, lag, holds, unused, where, age>>
      PROVE  ClockTypes' /\ ClockInv'
  BY <1>0, <1>1, ClockFrame DEF Goto, HoldTypes
<1>2. ASSUME NEW c \in Calls, PublishNow(c)
      PROVE  ClockTypes' /\ ClockInv'
  BY <1>1, <1>2 DEF PublishNow, Enter, holdVars
<1>3. ASSUME NEW c \in Calls, Acquire(c)
      PROVE  ClockTypes' /\ ClockInv'
  BY <1>1, <1>3 DEF Acquire, holdVars
<1>4. ASSUME NEW c \in Calls, EnsureConnected(c)
      PROVE  ClockTypes' /\ ClockInv'
  BY <1>1, <1>4 DEF EnsureConnected, holdVars
<1>5. ASSUME NEW c \in Calls, OpenConfirmChannel(c)
      PROVE  ClockTypes' /\ ClockInv'
  BY <1>1, <1>5 DEF OpenConfirmChannel, holdVars
<1>6. ASSUME NEW c \in Calls, ConfirmLost(c)
      PROVE  ClockTypes' /\ ClockInv'
  BY <1>1, <1>6 DEF ConfirmLost, holdVars
<1>7. ASSUME NEW c \in Calls, Cancel(c)
      PROVE  ClockTypes' /\ ClockInv'
  BY <1>1, <1>7 DEF Cancel, holdVars
<1>8. ASSUME NEW k \in DOMAIN status, Confirm(k)
      PROVE  ClockTypes' /\ ClockInv'
  <2>1. PICK n, given, verdict : Resolve(k, n, given, verdict)
    BY <1>8 DEF Confirm
  <2>2. \A c \in Calls : pc'[c] = pc[c] \/ pc'[c] \in {"ok", "err"}
    BY <2>1 DEF Resolve, confirmation_to_result
  <2>3. UNCHANGED <<delay, ttl, lag, holds, unused, where, age>>
    BY <1>8 DEF Confirm, holdVars
  <2>4. QED
    BY <1>0, <2>2, <2>3, ClockFrame
<1>9. CASE ClosePool
  <2>1. \A c \in Calls : pc'[c] = pc[c] \/ pc'[c] = "err"
    BY <1>9 DEF ClosePool
  <2>2. UNCHANGED <<delay, ttl, lag, holds, unused, where, age>>
    BY <1>9 DEF ClosePool, holdVars
  <2>3. QED
    BY <1>0, <2>1, <2>2, ClockFrame
<1>10. CASE MarkClosing \/ CloseDeclareChannel \/ \E K : Break(K)
  <2>1. UNCHANGED <<pc, delay, ttl, lag, holds, unused, where, age>>
    BY <1>10 DEF MarkClosing, CloseDeclareChannel, Break, callVars, holdVars
  <2>2. QED
    BY <1>0, <2>1, ClockFrame
<1>11. QED
  BY <1>0, <1>2, <1>3, <1>4, <1>5, <1>6, <1>7, <1>8, <1>9, <1>10, ClockHeld, ClockDeclare,
     ClockSend, ClockRelease, ClockDelete, ClockTick DEF Next, CallNext, BrokerNext

-----------------------------------------------------------------------------
LEMMA IInvInit == Init => IInv
<1> SUFFICES ASSUME Init PROVE IInv
  OBVIOUS
<1>0. Holders = {} /\ Lessees = {} /\ DOMAIN status = {1} /\ DOMAIN idle = {1}
  BY DEF Init, Holders, Lessees, Holding, Leased
<1>1. HoldInv
  BY HoldInit
<1>2. FlagTypes
  <2>1. 0 \in 0..MaxTroubles /\ 0 \in 0..MaxCancels
    BY PublisherAssumption
  <2>2. QED
    BY <2>1 DEF Init, FlagTypes
<1>3. ChannelTypes
  BY <1>0 DEF Init, ChannelTypes
<1>4. QueueInv
  BY DEF Init, QueueInv
<1>5. PermitInv
  BY <1>0, FS_EmptySet, PoolSizeNat DEF Init, PermitInv
<1>6. LeaseInv
  BY <1>0 DEF Init, LeaseInv
<1>7. ClosedInv
  BY DEF Init, ClosedInv
<1>8. WireTypes
  <2>1. <<>> \in Seq(Calls)
    OBVIOUS
  <2>2. QED
    BY <2>1 DEF Init, WireTypes
<1>9. WireInv
  BY <1>0 DEF Init, WireInv, Clean
<1>10. OkMeansHandedOver
  BY DEF Init, OkMeansHandedOver
<1>11. ClockTypes
  BY DEF Init, ClockTypes
<1>12. ClockInv
  <2>1. ASSUME NEW c \in Calls PROVE OnTime(c)
    <3>1. Due(c) = 0
      BY DelaysAssumption DEF Init, Due
    <3>2. QED
      BY <3>1 DEF Init, OnTime
  <2>2. QED
    BY <2>1 DEF ClockInv
<1>13. QED
  BY <1>1, <1>2, <1>3, <1>4, <1>5, <1>6, <1>7, <1>8, <1>9, <1>10, <1>11, <1>12 DEF IInv

LEMMA IInvStep == IInv /\ [Next]_vars => IInv'
<1> SUFFICES ASSUME IInv, [Next]_vars PROVE IInv'
  OBVIOUS
<1>0. HoldInv'
  BY HoldStep DEF IInv
<1>1. CASE Next
  <2>1. HoldTypes /\ HoldInv /\ ChannelTypes /\ WireTypes /\ WireInv /\ LeaseInv /\ PermitInv
        /\ QueueInv /\ ClosedInv /\ FlagTypes /\ OkMeansHandedOver /\ ClockTypes /\ ClockInv
    BY DEF IInv, HoldInv
  <2>2. PoolStep
    BY <1>1, <2>1, PoolSteps
  <2>3. /\ WireTypes' /\ WireInv' /\ OkMeansHandedOver'
        /\ dirty' \subseteq dirty \cup {chan[c] : c \in Lessees}
    BY <1>1, <2>1, WireStep
  <2>4. ChannelTypes' /\ LeaseInv' /\ PermitInv'
    BY <2>1, <2>2, <2>3, ChannelStep, LeaseStep, PermitStep
  <2>5. FlagTypes' /\ QueueInv' /\ ClosedInv'
    BY <1>1, <2>1, <2>2, FlagStep, QueueStep, ClosedStep
  <2>6. ClockTypes' /\ ClockInv'
    BY <1>1, <2>1, ClockStep
  <2>7. QED
    BY <1>0, <2>3, <2>4, <2>5, <2>6 DEF IInv
<1>2. CASE UNCHANGED vars
  <2>1. FlagTypes' /\ ChannelTypes' /\ QueueInv' /\ WireTypes' /\ ClockTypes'
    BY <1>2 DEF IInv, vars, poolVars, handleVars, callVars, wireVars, holdVars, faultVars,
                FlagTypes, ChannelTypes, QueueInv, WireTypes, ClockTypes
  <2>2. PermitInv' /\ LeaseInv' /\ ClosedInv'
    <3>1. Holders' = Holders /\ Lessees' = Lessees
      BY <1>2 DEF vars, callVars, Holders, Lessees
    <3>2. QED
      BY <1>2, <3>1 DEF IInv, vars, poolVars, callVars, wireVars, PermitInv, LeaseInv, ClosedInv
  <2>3. WireInv' /\ OkMeansHandedOver'
    BY <1>2 DEF IInv, vars, callVars, wireVars, holdVars, WireInv, Clean, OkMeansHandedOver
  <2>4. ClockInv'
    BY <1>2 DEF IInv, vars, callVars, holdVars, ClockInv, OnTime, Due
  <2>5. QED
    BY <1>0, <2>1, <2>2, <2>3, <2>4 DEF IInv
<1>3. QED
  BY <1>1, <1>2

-----------------------------------------------------------------------------
\* The pool's permits, the queue for them, the wire and the clocks agree, in every
\* state: what ConfirmChannels, ChannelLease and publish_held keep between them.
THEOREM Invariance == Spec => []IInv
BY IInvInit, IInvStep, PTL DEF Spec

\* Every part of the publisher's state, and of the broker's as it uses it, has its
\* type, whatever is broken, refused or cancelled; no permit is ever made up.
THEOREM PublisherTyped == Spec => []TypeOK
<1>1. IInv => TypeOK
  <2> SUFFICES ASSUME IInv PROVE TypeOK
    OBVIOUS
  <2>1. permits \in 0..pool_size
    BY FS_CardinalityType, PoolSizeNat DEF IInv, PermitInv
  <2>2. QED
    BY <2>1 DEF IInv, HoldInv, HoldTypes, FlagTypes, ChannelTypes, QueueInv, WireTypes,
                ClockTypes, TypeOK
<1>2. QED
  BY <1>1, Invariance, PTL

\* "Callers may therefore treat Ok(()) as durably handed over" (publish_confirmed), but
\* for channels that went back to the pool with a confirm outstanding.
THEOREM OkIsHandedOver == Spec => []OkMeansHandedOver
<1>1. IInv => OkMeansHandedOver
  BY DEF IInv
<1>2. QED
  BY <1>1, Invariance, PTL

\* ConfirmChannels never has more channels than publish_concurrency allows, whatever
\* dies and is replaced, and no two publishes share one (ChannelLease::drop, acquire).
THEOREM PoolBounded == Spec => []ChannelsBounded
<1>1. IInv => ChannelsBounded
  <2> SUFFICES ASSUME IInv PROVE ChannelsBounded
    OBVIOUS
  <2>1. Lessees \subseteq Holders
    BY DEF Lessees, Holders, Holding
  <2>2. IsFiniteSet(Holders) /\ IsFiniteSet(Lessees)
        /\ Cardinality(Lessees) <= Cardinality(Holders)
    BY <2>1, FS_Subset DEF IInv, PermitInv
  <2>3. Cardinality(Lessees) \in Nat /\ Cardinality(Holders) \in Nat /\ Len(idle) \in Nat
    BY <2>2, FS_CardinalityType DEF IInv, ChannelTypes
  <2>4. Len(idle) + Cardinality(Lessees) <= pool_size
    BY <2>2, <2>3, PoolSizeNat DEF IInv, PermitInv
  <2>5. QED
    BY <2>4 DEF IInv, LeaseInv, Lessees, ChannelsBounded
<1>2. QED
  BY <1>1, Invariance, PTL

\* ConfirmChannels::close closes the pool with no publish under way and leaves no
\* channel open, and none is opened after it.
THEOREM CloseIsOrderly == Spec => []CloseWaits
<1>1. IInv => CloseWaits
  BY DEF IInv, ClosedInv, CloseWaits, Up
<1>2. QED
  BY <1>1, Invariance, PTL

\* The broker deletes a hold queue (x-expires in deferred_queue_args) with a message in
\* it only if that message was published a whole TTL after its queue's declaration.
THEOREM ExpiryLosesOnlyLate == Spec => []LostOnlyIfLate
<1>1. IInv => LostOnlyIfLate
  BY DEF IInv, ClockInv, OnTime, Due, LostOnlyIfLate
<1>2. QED
  BY <1>1, Invariance, PTL
=============================================================================
