------------------------------- MODULE Publisher -------------------------------
(***************************************************************************)
(* Publishing to RabbitMQ (rabbitmq/src/publisher.rs): the pool of confirm *)
(* channels, the declaration channel, and the hold queues that delayed     *)
(* messages wait in (rabbitmq/src/topology.rs).                            *)
(*                                                                         *)
(* External: the broker, its clock and lapin's handling of confirms, which *)
(* is modelled from what the comment on ConfirmChannels says of it, and    *)
(* ConnectionHandle::ensure_connected, which is module Connection and only *)
(* succeeds or fails here.                                                 *)
(***************************************************************************)
EXTENDS Sequences, FiniteSets, Delays

CONSTANTS
  Calls,        \* calls of Publisher::publish_*
  Closer,       \* RabbitMqBackend::close, in the queue for permits
  Size,         \* RabbitMqOptions::publish_concurrency
  Waits,        \* the delays that are asked for
  RetryGranularity, DeferredGranularity,
  MaxTroubles,  \* bound on broken channels, refusals and nacks
  MaxCancels    \* bound on futures dropped by their callers

ASSUME PublisherAssumption ==
  /\ Closer \notin Calls
  /\ Waits \subseteq Nat
  /\ Size \in Nat /\ RetryGranularity \in Nat /\ DeferredGranularity \in Nat
  /\ MaxTroubles \in Nat /\ MaxCancels \in Nat

VARIABLES
  \* ConfirmChannels
  idle,         \* channels nobody publishes on, the next one last
  permits,      \* free permits of the semaphore
  queue,        \* who waits for permits, in order
  poolOpen,     \* the semaphore is not closed
  \* Publisher and ConnectionHandle
  declareUp,    \* the declaration channel is connected
  closing,      \* mark_closing was called
  closer,       \* where close is
  \* the calls
  pc, delay, ttl, chan,
  lag,          \* time from a call's declaration to its publish, a TTL at most
  \* lapin and the broker
  status,       \* every confirm channel ever opened: "up" or "dead"
  unconfirmed,  \* per channel, the publishes not confirmed yet, in order
  returned,     \* per channel, returned messages not attached to a publish yet
  dirty,        \* channels that went back to the pool with a confirm outstanding
  where,        \* where a call's message is
  age,          \* how long a held message has been held
  holds,        \* the hold queues there are, named by their TTL
  unused,       \* how long ago each was last declared
  troubles, cancels

poolVars   == <<idle, permits, queue, poolOpen>>
handleVars == <<declareUp, closing, closer>>
callVars   == <<pc, delay, ttl, chan, lag>>
wireVars   == <<status, unconfirmed, returned, dirty>>
holdVars   == <<where, age, holds, unused>>
faultVars  == <<troubles, cancels>>
vars == <<poolVars, handleVars, callVars, wireVars, holdVars, faultVars>>

\* A call holds a permit while it opens a channel, and a lease from then on.
Leased  == {"publish", "confirm"}
Holding == Leased \cup {"ensure", "open"}
Ended   == {"ok", "err", "gone"}

pool_size == IF Size < 1 THEN 1 ELSE Size

Up(k) == k # 0 /\ status[k] = "up"

\* with_options opens the first confirm channel and the declaration channel.
Init ==
  /\ idle = <<1>>
  /\ permits = pool_size
  /\ queue = <<>>
  /\ poolOpen = TRUE
  /\ declareUp = TRUE
  /\ closing = FALSE
  /\ closer = "open"
  /\ pc = [c \in Calls |-> "idle"]
  /\ delay = [c \in Calls |-> 0]
  /\ ttl = [c \in Calls |-> 0]
  /\ chan = [c \in Calls |-> 0]
  /\ lag = [c \in Calls |-> 0]
  /\ status = <<"up">>
  /\ unconfirmed = <<<<>>>>
  /\ returned = <<0>>
  /\ dirty = {}
  /\ where = [c \in Calls |-> "nowhere"]
  /\ age = [c \in Calls |-> 0]
  /\ holds = {}
  /\ unused = [t \in Ttls |-> 0]
  /\ troubles = 0
  /\ cancels = 0

\* close_channel: closed, or dead already, or closing anyway.
WithClosed(K) == [k \in DOMAIN status |-> IF k \in K THEN "dead" ELSE status[k]]

-----------------------------------------------------------------------------
Goto(c, to) == pc' = [pc EXCEPT ![c] = to]

Trouble == troubles < MaxTroubles /\ troubles' = troubles + 1 /\ UNCHANGED cancels

\* A call gets into the queue for a permit, or is refused by a closed semaphore.
Enter(c) ==
  \/ poolOpen /\ Goto(c, "queued") /\ queue' = Append(queue, c)
  \/ ~poolOpen /\ Goto(c, "err") /\ UNCHANGED queue

\* The lease drops its channel back into the pool, dead or alive, then the permit.
DropLease(c) ==
  /\ idle' = Append(idle, chan[c])
  /\ permits' = permits + 1

-----------------------------------------------------------------------------
(***************************************************************************)
(* The calls.                                                              *)
(***************************************************************************)

\* publish_envelope, publish_dead_letter, publish_malformed.
PublishNow(c) ==
  /\ pc[c] = "idle"
  /\ Enter(c)
  /\ UNCHANGED <<idle, permits, poolOpen, handleVars, delay, ttl, chan, lag>>
  /\ UNCHANGED <<wireVars, holdVars, faultVars>>

\* Hold::granularity
Granularity(hold) == IF hold = "Retry" THEN RetryGranularity ELSE DeferredGranularity

\* publish_held, up to the declaration.  A queue that was never declared here, a
\* name that is too long and a delay that is too long are refused.
PublishHeld(c) ==
  /\ pc[c] = "idle"
  /\ \E d \in Waits, hold \in {"Retry", "Deferral"} :
       LET t == deferred_ttl_ms(d, Granularity(hold))
       IN  \/ Goto(c, "err") /\ UNCHANGED <<delay, ttl>>
           \/ /\ t # TooLong
              /\ Goto(c, "declare")
              /\ delay' = [delay EXCEPT ![c] = d]
              /\ ttl' = [ttl EXCEPT ![c] = t]
  /\ UNCHANGED <<poolVars, handleVars, chan, lag, wireVars, holdVars, faultVars>>

\* Faulty variant: a hold queue that is there is not declared again.
DeclareCached(c) ==
  /\ pc[c] = "declare"
  /\ Enter(c)
  /\ holds' = holds \cup {ttl[c]}
  /\ UNCHANGED unused
  /\ lag' = [lag EXCEPT ![c] = 0]
  /\ UNCHANGED <<idle, permits, poolOpen, handleVars, delay, ttl, chan, wireVars>>
  /\ UNCHANGED <<where, age, faultVars>>

\* with_declare_channel: a dead channel is replaced, which needs a connection.
CanDeclare == declareUp \/ ~closing

\* queue_declare in publish_held, under the channel's mutex and so one step with the
\* above.  A refused declaration kills the channel; an accepted one restarts the
\* expiry of the queue, and the call goes on to publish_confirmed.
DeclareHold(c) ==
  /\ pc[c] = "declare"
  /\ \/ /\ CanDeclare
        /\ declareUp' = TRUE
        /\ holds' = holds \cup {ttl[c]}
        /\ unused' = [unused EXCEPT ![ttl[c]] = 0]
        /\ lag' = [lag EXCEPT ![c] = 0]
        /\ Enter(c)
        /\ UNCHANGED faultVars
     \/ /\ IF CanDeclare THEN Trouble ELSE UNCHANGED faultVars
        /\ declareUp' = FALSE
        /\ Goto(c, "err")
        /\ UNCHANGED <<queue, holds, unused, lag>>
  /\ UNCHANGED <<idle, permits, poolOpen, closing, closer, delay, ttl, chan, wireVars>>
  /\ UNCHANGED <<where, age>>

\* Faulty variant: a dead channel stays in the pool beside its replacement.
AcquireKeepsDead(c) ==
  /\ pc[c] = "queued" /\ Head(queue) = c
  /\ permits > 0
  /\ queue' = Tail(queue)
  /\ permits' = permits - 1
  /\ LET k == IF idle = <<>> THEN 0 ELSE idle[Len(idle)]
     IN  \/ /\ Up(k)
            /\ Goto(c, "publish")
            /\ chan' = [chan EXCEPT ![c] = k]
            /\ idle' = SubSeq(idle, 1, Len(idle) - 1)
         \/ ~Up(k) /\ Goto(c, "ensure") /\ UNCHANGED <<chan, idle>>
  /\ UNCHANGED <<poolOpen, handleVars, delay, ttl, lag, wireVars, holdVars, faultVars>>

\* ConfirmChannels::acquire: the first in the queue gets a permit and pops a channel;
\* without one that is connected it has to open one.
Acquire(c) ==
  /\ pc[c] = "queued" /\ Head(queue) = c
  /\ permits > 0
  /\ queue' = Tail(queue)
  /\ permits' = permits - 1
  /\ LET k == IF idle = <<>> THEN 0 ELSE idle[Len(idle)]
     IN  /\ idle' = IF idle = <<>> THEN idle ELSE SubSeq(idle, 1, Len(idle) - 1)
         /\ \/ Up(k) /\ Goto(c, "publish") /\ chan' = [chan EXCEPT ![c] = k]
            \/ ~Up(k) /\ Goto(c, "ensure") /\ UNCHANGED chan
  /\ UNCHANGED <<poolOpen, handleVars, delay, ttl, lag, wireVars, holdVars, faultVars>>

\* ensure_connected, which a close makes fail; the permit goes back with the error.
EnsureConnected(c) ==
  /\ pc[c] = "ensure"
  /\ \/ ~closing /\ Goto(c, "open") /\ UNCHANGED <<permits, faultVars>>
     \/ /\ IF closing THEN UNCHANGED faultVars ELSE Trouble
        /\ Goto(c, "err")
        /\ permits' = permits + 1
  /\ UNCHANGED <<idle, queue, poolOpen, handleVars, delay, ttl, chan, lag>>
  /\ UNCHANGED <<wireVars, holdVars>>

\* open_confirm_channel
OpenConfirmChannel(c) ==
  /\ pc[c] = "open"
  /\ \/ /\ Goto(c, "publish")
        /\ chan' = [chan EXCEPT ![c] = Len(status) + 1]
        /\ status' = Append(status, "up")
        /\ unconfirmed' = Append(unconfirmed, <<>>)
        /\ returned' = Append(returned, 0)
        /\ UNCHANGED <<permits, faultVars>>
     \/ /\ Trouble
        /\ Goto(c, "err")
        /\ permits' = permits + 1
        /\ UNCHANGED <<chan, status, unconfirmed, returned>>
  /\ UNCHANGED <<idle, queue, poolOpen, handleVars, delay, ttl, lag, dirty, holdVars>>

\* The message goes onto the wire and the broker routes it, or returns it because
\* the publish is mandatory.  A hold queue may be gone by now; whether another
\* queue is there is not up to this process.
Send(c, routed) ==
  LET k == chan[c]
  IN  /\ unconfirmed' = [unconfirmed EXCEPT ![k] = Append(@, c)]
      /\ returned' = [returned EXCEPT ![k] = IF routed THEN @ ELSE @ + 1]
      /\ where' = [where EXCEPT ![c] = IF ~routed THEN @
                                       ELSE IF ttl[c] = 0 THEN "queue" ELSE "hold"]

Routes(c) == IF ttl[c] = 0 THEN BOOLEAN ELSE {ttl[c] \in holds}

\* basic_publish under the lease.  On a dead channel it fails.
BasicPublish(c) ==
  /\ pc[c] = "publish"
  /\ \/ /\ Up(chan[c])
        /\ \E routed \in Routes(c) : Send(c, routed)
        /\ Goto(c, "confirm")
        /\ UNCHANGED <<idle, permits>>
     \/ /\ ~Up(chan[c])
        /\ Goto(c, "err")
        /\ DropLease(c)
        /\ UNCHANGED <<unconfirmed, returned, where>>
  /\ UNCHANGED <<queue, poolOpen, handleVars, delay, ttl, chan, lag>>
  /\ UNCHANGED <<status, dirty, age, holds, unused, faultVars>>

\* The confirmation never comes: the channel died first.
ConfirmLost(c) ==
  /\ pc[c] = "confirm"
  /\ ~Up(chan[c])
  /\ Goto(c, "err")
  /\ DropLease(c)
  /\ UNCHANGED <<queue, poolOpen, handleVars, delay, ttl, chan, lag>>
  /\ UNCHANGED <<wireVars, holdVars, faultVars>>

\* Faulty variant: acked is acked, returned or not.
AckIsSuccess(confirmation) == IF confirmation = "Nack" THEN "err" ELSE "ok"

confirmation_to_result(confirmation) == IF confirmation = "Ack" THEN "ok" ELSE "err"

\* The first n publishes outstanding on channel k are confirmed, and `given` are
\* those among them that lapin attaches a returned message to.  The call that still
\* waits ends, and so does its lease.
Resolve(k, n, given, verdict) ==
  LET waiting == {c \in {unconfirmed[k][i] : i \in 1..n} : pc[c] = "confirm"}
  IN  /\ returned' = [returned EXCEPT ![k] = @ - Cardinality(given)]
      /\ unconfirmed' = [unconfirmed EXCEPT ![k] = SubSeq(@, n + 1, Len(@))]
      /\ pc' = [c \in Calls |->
                  IF c \in waiting
                  THEN confirmation_to_result(IF c \in given THEN "Returned" ELSE verdict)
                  ELSE pc[c]]
      /\ \/ waiting = {} /\ UNCHANGED <<idle, permits>>
         \/ \E c \in waiting : DropLease(c)

\* The broker confirms, several publishes with one ack if it likes.  Returned messages
\* waiting on the channel go to covered publishes in no particular order.
Confirm(k) ==
  /\ Up(k)
  /\ \E n \in 1..Len(unconfirmed[k]), verdict \in {"Ack", "Nack"} :
       /\ \E given \in SUBSET {unconfirmed[k][i] : i \in 1..n} :
            /\ Cardinality(given) = Clamp(returned[k], 0, n)
            /\ Resolve(k, n, given, verdict)
       /\ IF verdict = "Nack" THEN Trouble ELSE UNCHANGED faultVars
  /\ UNCHANGED <<queue, poolOpen, handleVars, delay, ttl, chan, lag, status, dirty, holdVars>>

\* The place of a dropped future in the queue for permits closes up.
LeaveQueue(c) ==
  \/ pc[c] # "queued" /\ UNCHANGED queue
  \/ \E i \in DOMAIN queue :
       /\ queue[i] = c
       /\ queue' = SubSeq(queue, 1, i - 1) \o SubSeq(queue, i + 1, Len(queue))

\* Faulty variant: a future dropped while it opens a channel keeps its permit.
CancelLeaks(c) ==
  /\ pc[c] \in Holding \ Leased
  /\ cancels < MaxCancels
  /\ cancels' = cancels + 1
  /\ Goto(c, "gone")
  /\ UNCHANGED <<poolVars, handleVars, delay, ttl, chan, lag, wireVars, holdVars, troubles>>

\* Faulty variant: a permit is returned that was never given.
CancelReturnsTwice(c) ==
  /\ pc[c] = "queued"
  /\ cancels < MaxCancels
  /\ cancels' = cancels + 1
  /\ Goto(c, "gone")
  /\ LeaveQueue(c)
  /\ permits' = permits + 1
  /\ UNCHANGED <<idle, poolOpen, handleVars, delay, ttl, chan, lag, wireVars, holdVars, troubles>>

\* The caller drops the future.  A place in the queue, a permit or a lease goes with
\* it; a message that was written stays written, and its confirm outstanding.
Cancel(c) ==
  /\ pc[c] \in Holding \cup {"declare", "queued"}
  /\ cancels < MaxCancels
  /\ cancels' = cancels + 1
  /\ Goto(c, "gone")
  /\ LeaveQueue(c)
  /\ permits' = IF pc[c] \in Holding THEN permits + 1 ELSE permits
  /\ idle' = IF pc[c] \in Leased THEN Append(idle, chan[c]) ELSE idle
  /\ dirty' = IF pc[c] = "confirm" THEN dirty \cup {chan[c]} ELSE dirty
  /\ UNCHANGED <<poolOpen, handleVars, delay, ttl, chan, lag>>
  /\ UNCHANGED <<status, unconfirmed, returned, holdVars, troubles>>

-----------------------------------------------------------------------------
(***************************************************************************)
(* RabbitMqBackend::close, as far as the publisher is concerned.           *)
(***************************************************************************)

\* mark_closing, then ConfirmChannels::close queues for every permit.
MarkClosing ==
  /\ \/ closer = "open" /\ closer' = "marked" /\ closing' = TRUE /\ UNCHANGED queue
     \/ /\ closer = "marked" /\ closer' = "draining"
        /\ queue' = Append(queue, Closer)
        /\ UNCHANGED closing
  /\ UNCHANGED <<idle, permits, poolOpen, declareUp, callVars, wireVars, holdVars, faultVars>>

\* Faulty variant: one permit is enough.
CloseAtOnce ==
  /\ closer = "draining" /\ Head(queue) = Closer
  /\ permits > 0
  /\ closer' = "pool"
  /\ poolOpen' = FALSE
  /\ queue' = <<>>
  /\ pc' = [c \in Calls |-> IF pc[c] = "queued" THEN "err" ELSE pc[c]]
  /\ status' = WithClosed({idle[i] : i \in DOMAIN idle})
  /\ idle' = <<>>
  /\ UNCHANGED <<permits, declareUp, closing, delay, ttl, chan, lag>>
  /\ UNCHANGED <<unconfirmed, returned, dirty, holdVars, faultVars>>

\* With all permits in hand nobody else can touch the pool: the semaphore is closed,
\* which fails everybody still waiting, and every idle channel with it.
ClosePool ==
  /\ closer = "draining" /\ Head(queue) = Closer
  /\ permits = pool_size
  /\ closer' = "pool"
  /\ poolOpen' = FALSE
  /\ queue' = <<>>
  /\ pc' = [c \in Calls |-> IF pc[c] = "queued" THEN "err" ELSE pc[c]]
  /\ status' = WithClosed({idle[i] : i \in DOMAIN idle})
  /\ idle' = <<>>
  /\ UNCHANGED <<permits, declareUp, closing, delay, ttl, chan, lag>>
  /\ UNCHANGED <<unconfirmed, returned, dirty, holdVars, faultVars>>

\* The rest of Publisher::close.
CloseDeclareChannel ==
  /\ closer = "pool"
  /\ closer' = "done"
  /\ declareUp' = FALSE
  /\ UNCHANGED <<poolVars, closing, callVars, wireVars, holdVars, faultVars>>

-----------------------------------------------------------------------------
(***************************************************************************)
(* The broker.  It is on time: nothing else is timed while something is    *)
(* due.                                                                    *)
(***************************************************************************)

\* A channel exception closes one channel, a lost connection all of them.
Break(K) ==
  /\ \E k \in K : Up(k)
  /\ Trouble
  /\ status' = WithClosed(K)
  /\ declareUp' = (declareUp /\ K # DOMAIN status)
  /\ UNCHANGED <<poolVars, closing, closer, callVars, unconfirmed, returned, dirty, holdVars>>

\* The TTL of a held message ends: it is dead-lettered onto its queue.
Release(c) ==
  /\ where[c] = "hold" /\ age[c] >= PerMs * ttl[c]
  /\ where' = [where EXCEPT ![c] = "queue"]
  /\ UNCHANGED <<poolVars, handleVars, callVars, wireVars, age, holds, unused, faultVars>>

\* x-expires: a queue not declared for that long is deleted, and what is in it.
DeleteHold(t) ==
  /\ t \in holds /\ unused[t] >= PerMs * Expires(t)
  /\ holds' = holds \ {t}
  /\ unused' = [unused EXCEPT ![t] = 0]
  /\ where' = [c \in Calls |-> IF where[c] = "hold" /\ ttl[c] = t THEN "lost" ELSE where[c]]
  /\ UNCHANGED <<poolVars, handleVars, callVars, wireVars, age, faultVars>>

\* A unit of time passes, for everything that is being timed.
Tick ==
  /\ \A c \in Calls : where[c] = "hold" => age[c] < PerMs * ttl[c]
  /\ \A t \in holds : unused[t] < PerMs * Expires(t)
  /\ age' = [c \in Calls |-> IF where[c] = "hold" THEN age[c] + 1 ELSE age[c]]
  /\ unused' = [t \in Ttls |-> IF t \in holds THEN unused[t] + 1 ELSE 0]
  /\ lag' = [c \in Calls |-> IF pc[c] \in {"queued", "ensure", "open", "publish"}
                             THEN Clamp(lag[c] + 1, 0, PerMs * ttl[c]) ELSE lag[c]]
  /\ UNCHANGED <<poolVars, handleVars, pc, delay, ttl, chan, wireVars, where, holds, faultVars>>

-----------------------------------------------------------------------------
CallNext(c) ==
  \/ DeclareHold(c) \/ Acquire(c) \/ EnsureConnected(c) \/ OpenConfirmChannel(c)
  \/ BasicPublish(c) \/ ConfirmLost(c)

CloseNext == closer # "open" /\ (MarkClosing \/ ClosePool \/ CloseDeclareChannel)

BrokerNext ==
  \/ \E k \in DOMAIN status : Break({k})
  \/ Break(DOMAIN status)
  \/ \E c \in Calls : Release(c)
  \/ \E t \in Ttls : DeleteHold(t)
  \/ Tick

Next ==
  \/ \E c \in Calls : PublishNow(c) \/ PublishHeld(c) \/ CallNext(c) \/ Cancel(c)
  \/ \E k \in DOMAIN status : Confirm(k)
  \/ MarkClosing \/ ClosePool \/ CloseDeclareChannel
  \/ BrokerNext

Spec == Init /\ [][Next]_vars

\* Tasks are polled, a publish on a live channel is confirmed, and a close that was
\* begun goes on.  Nobody has to publish, cancel or close; nothing here needs time.
FairSpec ==
  /\ Spec
  /\ \A c \in Calls : WF_vars(CallNext(c))
  /\ WF_vars(\E k \in DOMAIN status : Confirm(k))
  /\ WF_vars(CloseNext)

-----------------------------------------------------------------------------
(***************************************************************************)
(* Properties                                                              *)
(***************************************************************************)

\* Every part of the state has its type.
TypeOK ==
  /\ status \in Seq({"up", "dead"})
  /\ idle \in Seq(DOMAIN status)
  /\ permits \in 0..pool_size
  /\ queue \in Seq(Calls \cup {Closer})
  /\ poolOpen \in BOOLEAN /\ declareUp \in BOOLEAN /\ closing \in BOOLEAN
  /\ closer \in {"open", "marked", "draining", "pool", "done"}
  /\ pc \in [Calls -> Holding \cup Ended \cup {"idle", "declare", "queued"}]
  /\ delay \in [Calls -> {0} \cup Waits]
  /\ ttl \in [Calls -> {0} \cup Ttls]
  /\ chan \in [Calls -> {0} \cup DOMAIN status]
  /\ unconfirmed \in Seq(Seq(Calls)) /\ returned \in Seq(Nat)
  /\ DOMAIN unconfirmed = DOMAIN status /\ DOMAIN returned = DOMAIN status
  /\ dirty \subseteq DOMAIN status
  /\ where \in [Calls -> {"nowhere", "queue", "hold", "lost"}]
  /\ age \in [Calls -> Nat] /\ lag \in [Calls -> Nat]
  /\ holds \subseteq Ttls /\ unused \in [Ttls -> Nat]
  /\ troubles \in 0..MaxTroubles /\ cancels \in 0..MaxCancels

\* Ok from publish_confirmed means that a real queue has the message ("Callers may
\* therefore treat Ok(()) as durably handed over"): a returned message is never
\* taken for somebody else's.  The one exception is a channel on which an earlier
\* publish was cancelled between basic_publish and its confirm.
OkMeansHandedOver ==
  \A c \in Calls : pc[c] = "ok" => where[c] # "nowhere" \/ chan[c] \in dirty

\* The pool never has more channels than permits, however many died or were
\* replaced, and none of them is in two places.
ChannelsBounded ==
  LET leased == {c \in Calls : pc[c] \in Leased}
  IN  /\ Len(idle) + Cardinality(leased) <= pool_size
      /\ \A i, j \in DOMAIN idle : idle[i] = idle[j] => i = j
      /\ \A c \in leased :
           /\ \A i \in DOMAIN idle : idle[i] # chan[c]
           /\ \A d \in leased : chan[c] = chan[d] => c = d

\* close "cannot pull a channel out from under a message that has been written but
\* not yet confirmed", and leaves no confirm channel open.
CloseWaits ==
  ~poolOpen => /\ \A c \in Calls : pc[c] \notin Holding
               /\ \A k \in DOMAIN status : ~Up(k)

\* "Never early": a held message is back on its queue no sooner than the delay that
\* was asked for, whatever the granularity rounds it to.
NeverEarly ==
  [][\A c \in Calls : where[c] = "hold" /\ where'[c] = "queue" =>
       age[c] >= delay[c]]_vars

\* The broker deletes no hold queue that still owes a message, unless that message
\* was published a whole TTL or more after its call declared the queue.
LostOnlyIfLate ==
  \A c \in Calls : where[c] = "lost" => lag[c] = PerMs * ttl[c]

\* Every publish ends, and so does a close: no permit is lost on the way, in
\* whatever state a call was cancelled or its channel died.
PublishesEnd ==
  /\ \A c \in Calls : pc[c] # "idle" ~> pc[c] \in Ended
  /\ closing ~> closer = "done"

\* "The broker can never delete a hold queue that still owes a message": a message
\* whose publish was reported as successful is never deleted, with its queue, before
\* it was due.
ConfirmedNotLost ==
  \A c \in Calls : pc[c] = "ok" /\ where[c] = "lost" => age[c] >= PerMs * ttl[c]
=============================================================================
