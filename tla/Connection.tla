------------------------------ MODULE Connection ------------------------------
(***************************************************************************)
(* The reconnecting connection of the RabbitMQ backend                     *)
(* (rabbitmq/src/connection.rs), with everybody who works through it:      *)
(* consumer streams that resubscribe after an outage (backend.rs, consume, *)
(* delivery_stream, recover), publishers that take a slot of the confirm   *)
(* pool (publisher.rs, acquire), and RabbitMqBackend::close.               *)
(*                                                                         *)
(* The broker is external: it accepts or refuses to be dialled, refuses a  *)
(* subscription, and drops connections.  Threads interleave between any    *)
(* two accesses to shared state; no await is needed in between.            *)
(***************************************************************************)
EXTENDS Naturals, Sequences, FiniteSets

CONSTANTS
  Streams,         \* calls of Backend::consume
  Publishers,      \* calls of publish, defer, or a settle that publishes
  Nobody,          \* the reconnecting mutex is free
  ReconnectLimit,  \* BackoffPolicy::max_attempts
  MaxTroubles,     \* bound on refused dials and refused subscriptions
  MaxDrops         \* bound on dropped connections

ASSUME ConnectionAssumption ==
  /\ Streams \cap Publishers = {}
  /\ Nobody \notin Streams \cup Publishers
  /\ ReconnectLimit \in Nat
  /\ MaxTroubles \in Nat /\ MaxDrops \in Nat

Clients == Streams \cup Publishers

VARIABLES
  \* ConnectionHandle
  current,     \* index of the installed connection
  generation,  \* how many connections were installed
  lock,        \* who holds `reconnecting`
  closing,     \* mark_closing was called
  waiters,     \* armed on closing_notify
  woken,       \* armed, and notified since
  reconnects,  \* RabbitMqOptions::reconnect is Some
  \* clients
  pc,          \* where each one is
  mine,        \* the connection it dialled or was given
  sub,         \* the connection a stream last subscribed on, 0 before the first
  failures,    \* failed dials of its loop in ensure_connected
  resubs,      \* failed subscriptions of a stream's loop in recover
  \* RabbitMqBackend::close and the pool's semaphore
  closer, poolOpen,
  \* the broker
  conns,       \* every connection ever opened: "up", "down", "closed"
  troubles, drops

handleVars == <<current, generation, lock, closing, waiters, woken, reconnects>>
clientVars == <<pc, mine, sub, failures, resubs>>
closeVars  == <<closer, poolOpen>>
brokerVars == <<conns, troubles, drops>>
vars == <<handleVars, clientVars, closeVars, brokerVars>>

\* Where a client can be inside ensure_connected, and outside of it.
Ensuring == {"ensure", "lock", "recheck", "policy", "arm", "armed", "sleep",
             "open", "dial", "dialled", "swap", "bump", "redeclare"}
Locked   == Ensuring \ {"ensure", "lock"}
Outside  == {"idle", "use", "live", "broken", "resubArm", "resubArmed", "resubSleep",
             "errored", "ended", "refused", "done"}

\* Connection::status().connected(); 0 stands for no connection at all.
Up(n) == n # 0 /\ conns[n] = "up"

\* with_options: the first connection is there before anybody can call anything.
Init ==
  /\ conns = <<"up">>
  /\ current = 1
  /\ generation = 1
  /\ lock = Nobody
  /\ closing = FALSE
  /\ waiters = {}
  /\ woken = {}
  /\ reconnects \in BOOLEAN
  /\ pc = [c \in Clients |-> "idle"]
  /\ mine = [c \in Clients |-> 0]
  /\ sub = [s \in Streams |-> 0]
  /\ failures = [c \in Clients |-> 0]
  /\ resubs = [s \in Streams |-> 0]
  /\ closer = "open"
  /\ poolOpen = TRUE
  /\ troubles = 0
  /\ drops = 0

-----------------------------------------------------------------------------
(***************************************************************************)
(* Steps between the pcs of one client.                                    *)
(***************************************************************************)

Goto(c, from, to) == pc[c] = from /\ pc' = [pc EXCEPT ![c] = to]

\* Where an error from ensure_connected or a backoff leaves its caller: consume
\* and publish return it, a stream that once ran yields it.
ErrorPc(c) == IF c \in Publishers THEN "done"
              ELSE IF sub[c] = 0 THEN "refused" ELSE "errored"

Fails(c, from) == Goto(c, from, ErrorPc(c))

\* Leaving ensure_connected drops the guard of `reconnecting`.
Unlock(c) == lock' = IF lock = c THEN Nobody ELSE lock

\* ensure_connected succeeds: a stream goes on to subscribe, a publisher to open
\* its channel, on the connection it was given.
Succeeds(c, from, n) ==
  /\ Goto(c, from, "use")
  /\ mine' = [mine EXCEPT ![c] = n]

Trouble == troubles < MaxTroubles /\ troubles' = troubles + 1

-----------------------------------------------------------------------------
(***************************************************************************)
(* ConnectionHandle::ensure_connected                                      *)
(***************************************************************************)

\* live(), before the lock.
Ensure(c) ==
  /\ \/ closing /\ Fails(c, "ensure") /\ UNCHANGED mine
     \/ ~closing /\ Up(current) /\ Succeeds(c, "ensure", current)
     \/ ~closing /\ ~Up(current) /\ Goto(c, "ensure", "lock") /\ UNCHANGED mine
  /\ UNCHANGED <<handleVars, sub, failures, resubs, closeVars, brokerVars>>

Lock(c) ==
  /\ lock = Nobody
  /\ lock' = c
  /\ Goto(c, "lock", "recheck")
  /\ UNCHANGED <<current, generation, closing, waiters, woken, reconnects>>
  /\ UNCHANGED <<mine, sub, failures, resubs, closeVars, brokerVars>>

\* Faulty variant: whoever gets the lock reconnects, without a second look.
RecheckSkipped(c) ==
  /\ Goto(c, "recheck", "policy")
  /\ failures' = [failures EXCEPT ![c] = 0]
  /\ UNCHANGED <<current, generation, lock, closing, waiters, woken, reconnects>>
  /\ UNCHANGED <<mine, sub, resubs, closeVars, brokerVars>>

\* live() again under the lock, then: is reconnecting configured at all?
Recheck(c) ==
  /\ \/ /\ closing \/ (~Up(current) /\ ~reconnects)
        /\ Fails(c, "recheck")
        /\ Unlock(c)
        /\ UNCHANGED <<mine, failures>>
     \/ /\ ~closing /\ Up(current)
        /\ Succeeds(c, "recheck", current)
        /\ Unlock(c)
        /\ UNCHANGED failures
     \/ /\ ~closing /\ ~Up(current) /\ reconnects
        /\ Goto(c, "recheck", "policy")
        /\ failures' = [failures EXCEPT ![c] = 0]
        /\ UNCHANGED <<lock, mine>>
  /\ UNCHANGED <<current, generation, closing, waiters, woken, reconnects>>
  /\ UNCHANGED <<sub, resubs, closeVars, brokerVars>>

\* BackoffPolicy::next_delay after n failures: nothing at the limit, no wait before
\* the first failure, and after it a delay whose jitter may still come out as zero.
NextDelays(n) ==
  IF n >= ReconnectLimit THEN {} ELSE IF n = 0 THEN {"zero"} ELSE {"zero", "wait"}

\* Faulty variant: giving up leaves the lock behind.
PolicyKeepsLock(c) ==
  /\ IF failures[c] >= ReconnectLimit THEN Fails(c, "policy") ELSE Goto(c, "policy", "open")
  /\ UNCHANGED <<handleVars, mine, sub, failures, resubs, closeVars, brokerVars>>

\* Give up, go at once, or wait.
Policy(c) ==
  /\ \/ NextDelays(failures[c]) = {} /\ Fails(c, "policy") /\ Unlock(c)
     \/ "zero" \in NextDelays(failures[c]) /\ Goto(c, "policy", "open") /\ UNCHANGED lock
     \/ "wait" \in NextDelays(failures[c]) /\ Goto(c, "policy", "arm") /\ UNCHANGED lock
  /\ UNCHANGED <<current, generation, closing, waiters, woken, reconnects>>
  /\ UNCHANGED <<mine, sub, failures, resubs, closeVars, brokerVars>>

\* check_open before dialling.
CheckOpen(c) ==
  /\ \/ closing /\ Fails(c, "open") /\ Unlock(c)
     \/ ~closing /\ Goto(c, "open", "dial") /\ UNCHANGED lock
  /\ UNCHANGED <<current, generation, closing, waiters, woken, reconnects>>
  /\ UNCHANGED <<mine, sub, failures, resubs, closeVars, brokerVars>>

\* Connection::connect
Dial(c) ==
  /\ \/ /\ Goto(c, "dial", "dialled")
        /\ conns' = Append(conns, "up")
        /\ mine' = [mine EXCEPT ![c] = Len(conns) + 1]
        /\ UNCHANGED <<failures, troubles>>
     \/ /\ Goto(c, "dial", "policy")
        /\ Trouble
        /\ failures' = [failures EXCEPT ![c] = @ + 1]
        /\ UNCHANGED <<conns, mine>>
  /\ UNCHANGED <<handleVars, sub, resubs, closeVars, drops>>

\* The closing flag once more, before the connection is installed.
Dialled(c) ==
  /\ \/ /\ closing
        /\ Fails(c, "dialled")
        /\ conns' = [conns EXCEPT ![mine[c]] = IF @ = "up" THEN "closed" ELSE @]
        /\ Unlock(c)
     \/ /\ ~closing
        /\ Goto(c, "dialled", "swap")
        /\ UNCHANGED <<conns, lock>>
  /\ UNCHANGED <<current, generation, closing, waiters, woken, reconnects>>
  /\ UNCHANGED <<mine, sub, failures, resubs, closeVars, troubles, drops>>

\* Faulty variant: the generation is bumped before the swap.
SwapLate(c) ==
  /\ Goto(c, "swap", "redeclare")
  /\ generation' = generation + 1
  /\ UNCHANGED <<current, lock, closing, waiters, woken, reconnects>>
  /\ UNCHANGED <<mine, sub, failures, resubs, closeVars, brokerVars>>

\* install: the swap, then the count.
Swap(c) ==
  /\ Goto(c, "swap", "bump")
  /\ current' = mine[c]
  /\ UNCHANGED <<generation, lock, closing, waiters, woken, reconnects>>
  /\ UNCHANGED <<mine, sub, failures, resubs, closeVars, brokerVars>>

Bump(c) ==
  /\ Goto(c, "bump", "redeclare")
  /\ generation' = generation + 1
  /\ UNCHANGED <<current, lock, closing, waiters, woken, reconnects>>
  /\ UNCHANGED <<mine, sub, failures, resubs, closeVars, brokerVars>>

\* redeclare is best effort and changes nothing here; then the lock is dropped.
Redeclare(c) ==
  /\ Succeeds(c, "redeclare", mine[c])
  /\ Unlock(c)
  /\ UNCHANGED <<current, generation, closing, waiters, woken, reconnects>>
  /\ UNCHANGED <<sub, failures, resubs, closeVars, brokerVars>>

(***************************************************************************)
(* sleep_unless_closing, called with the lock held from ensure_connected   *)
(* and without it from recover.                                            *)
(***************************************************************************)
Arm(c, at, next) ==
  /\ Goto(c, at, next)
  /\ waiters' = waiters \cup {c}
  /\ UNCHANGED <<current, generation, lock, closing, woken, reconnects>>
  /\ UNCHANGED <<mine, sub, failures, resubs, closeVars, brokerVars>>

Disarm(c) == waiters' = waiters \ {c} /\ woken' = woken \ {c}

\* Faulty variant: the waiter is only armed once the flag has been looked at, so
\* it is not registered yet when mark_closing notifies.
ArmedLate(c, at, next) ==
  /\ ~closing
  /\ Goto(c, at, next)
  /\ waiters' = waiters \ {c}
  /\ UNCHANGED <<current, generation, lock, closing, woken, reconnects>>
  /\ UNCHANGED <<mine, sub, failures, resubs, closeVars, brokerVars>>

\* check_open, now that the waiter is armed.
Armed(c, at, next) ==
  /\ \/ closing /\ Fails(c, at) /\ Disarm(c) /\ Unlock(c)
     \/ ~closing /\ Goto(c, at, next) /\ UNCHANGED <<lock, waiters, woken>>
  /\ UNCHANGED <<current, generation, closing, reconnects>>
  /\ UNCHANGED <<mine, sub, failures, resubs, closeVars, brokerVars>>

\* Faulty variant: an error out of the sleep leaves the lock behind.
WakesKeepsLock(c, at, next) ==
  /\ \/ (c \in woken \/ closing) /\ Fails(c, at)
     \/ c \notin woken /\ ~closing /\ Goto(c, at, next)
  /\ Disarm(c)
  /\ UNCHANGED <<current, generation, lock, closing, reconnects>>
  /\ UNCHANGED <<mine, sub, failures, resubs, closeVars, brokerVars>>

\* The select: the notification first, else the end of the delay.
Wakes(c, at, next) ==
  /\ \/ (c \in woken \/ closing) /\ Fails(c, at) /\ Unlock(c)
     \/ c \notin woken /\ ~closing /\ Goto(c, at, next) /\ UNCHANGED lock
  /\ Disarm(c)
  /\ UNCHANGED <<current, generation, closing, reconnects>>
  /\ UNCHANGED <<mine, sub, failures, resubs, closeVars, brokerVars>>

-----------------------------------------------------------------------------
(***************************************************************************)
(* A consumer stream.  The generation it notes down is only ever logged,   *)
(* so it is left out.                                                      *)
(***************************************************************************)

Consume(s) ==
  /\ Goto(s, "idle", "ensure")
  /\ UNCHANGED <<handleVars, mine, sub, failures, resubs, closeVars, brokerVars>>

\* subscribe on the connection ensure_connected returned, which may be gone by
\* now; the broker may also refuse (no such queue).  consume returns that error,
\* recover asks the policy.
Subscribe(s) ==
  /\ \/ /\ Up(mine[s])
        /\ Goto(s, "use", "live")
        /\ sub' = [sub EXCEPT ![s] = mine[s]]
        /\ UNCHANGED <<resubs, troubles>>
     \/ /\ IF Up(mine[s]) THEN Trouble ELSE UNCHANGED troubles
        /\ \/ sub[s] = 0 /\ Goto(s, "use", "refused") /\ UNCHANGED resubs
           \/ /\ sub[s] # 0
              /\ resubs' = [resubs EXCEPT ![s] = @ + 1]
              /\ IF NextDelays(resubs[s] + 1) = {}
                 THEN Goto(s, "use", "errored") ELSE Goto(s, "use", "resubArm")
        /\ UNCHANGED sub
  /\ UNCHANGED <<handleVars, mine, failures, closeVars, conns, drops>>

\* consumer.next() errs or ends: the connection went away, or the broker
\* cancelled the consumer.
Break(s) ==
  /\ IF Up(sub[s]) THEN Trouble ELSE UNCHANGED troubles
  /\ Goto(s, "live", "broken")
  /\ UNCHANGED <<handleVars, mine, sub, failures, resubs, closeVars, conns, drops>>

\* recover, up to its loop.
Recover(s) ==
  /\ \/ (closing \/ ~reconnects) /\ Goto(s, "broken", "ended") /\ UNCHANGED resubs
     \/ /\ ~closing /\ reconnects
        /\ Goto(s, "broken", "ensure")
        /\ resubs' = [resubs EXCEPT ![s] = 0]
  /\ UNCHANGED <<handleVars, mine, sub, failures, closeVars, brokerVars>>

\* A stream that yielded an error keeps its state: polled again, it recovers again.
PollAgain(s) ==
  /\ Goto(s, "errored", "broken")
  /\ UNCHANGED <<handleVars, mine, sub, failures, resubs, closeVars, brokerVars>>

(***************************************************************************)
(* A publisher: ConfirmChannels::acquire and the publish under the lease.  *)
(***************************************************************************)

InFlight(p) == pc[p] \notin {"idle", "done"}

\* A slot of the pool, then a pooled channel that is still connected, or a new one
\* from ensure_connected.  Behind close's acquire_many nobody gets a slot.
Acquire(p) ==
  /\ closer \in {"open", "flagged", "marked"}
  /\ \/ Up(current) /\ Succeeds(p, "idle", current)
     \/ Goto(p, "idle", "ensure") /\ UNCHANGED mine
  /\ UNCHANGED <<handleVars, sub, failures, resubs, closeVars, brokerVars>>

\* The semaphore is closed.
Refuse(p) ==
  /\ ~poolOpen
  /\ Goto(p, "idle", "done")
  /\ UNCHANGED <<handleVars, mine, sub, failures, resubs, closeVars, brokerVars>>

\* publish_confirmed returns, one way or the other, and the lease is dropped.
Publish(p) ==
  /\ Goto(p, "use", "done")
  /\ UNCHANGED <<handleVars, mine, sub, failures, resubs, closeVars, brokerVars>>

(***************************************************************************)
(* RabbitMqBackend::close                                                  *)
(***************************************************************************)

\* mark_closing: the flag first, then whoever is armed is notified.
MarkClosing ==
  /\ closer = "open"
  /\ closer' = "flagged"
  /\ closing' = TRUE
  /\ UNCHANGED <<current, generation, lock, waiters, woken, reconnects, poolOpen>>
  /\ UNCHANGED <<clientVars, brokerVars>>

NotifyWaiters ==
  /\ closer = "flagged"
  /\ closer' = "marked"
  /\ woken' = woken \cup waiters
  /\ UNCHANGED <<current, generation, lock, closing, waiters, reconnects, poolOpen>>
  /\ UNCHANGED <<clientVars, brokerVars>>

\* ConfirmChannels::close queues for every permit, and gets them when no publish
\* is in flight.
DrainPool ==
  /\ \/ closer = "marked" /\ closer' = "draining" /\ UNCHANGED poolOpen
     \/ /\ closer = "draining"
        /\ \A p \in Publishers : ~InFlight(p)
        /\ closer' = "drained"
        /\ poolOpen' = FALSE
  /\ UNCHANGED <<handleVars, clientVars, brokerVars>>

\* ConnectionHandle::close: whatever is installed now.
CloseConnection ==
  /\ closer = "drained"
  /\ closer' = "done"
  /\ conns' = [conns EXCEPT ![current] = IF @ = "up" THEN "closed" ELSE @]
  /\ UNCHANGED <<handleVars, clientVars, poolOpen, troubles, drops>>

\* The broker, or the network, drops a connection.
Drop(n) ==
  /\ Up(n)
  /\ drops < MaxDrops
  /\ drops' = drops + 1
  /\ conns' = [conns EXCEPT ![n] = "down"]
  /\ UNCHANGED <<handleVars, clientVars, closeVars, troubles>>

-----------------------------------------------------------------------------
EnsureConnected(c) ==
  \/ Ensure(c) \/ Lock(c) \/ Recheck(c) \/ Policy(c) \/ CheckOpen(c)
  \/ Arm(c, "arm", "armed") \/ Armed(c, "armed", "sleep") \/ Wakes(c, "sleep", "open")
  \/ Dial(c) \/ Dialled(c) \/ Swap(c) \/ Bump(c) \/ Redeclare(c)

RecoverStream(s) ==
  \/ Subscribe(s)
  \/ Arm(s, "resubArm", "resubArmed")
  \/ Armed(s, "resubArmed", "resubSleep")
  \/ Wakes(s, "resubSleep", "ensure")
  \/ Recover(s)

CloseNext == NotifyWaiters \/ DrainPool \/ CloseConnection

Next ==
  \/ \E c \in Clients : EnsureConnected(c)
  \/ \E s \in Streams : Consume(s) \/ RecoverStream(s) \/ Break(s) \/ PollAgain(s)
  \/ \E p \in Publishers : Acquire(p) \/ Refuse(p) \/ Publish(p)
  \/ MarkClosing \/ CloseNext
  \/ \E n \in DOMAIN conns : Drop(n)

Spec == Init /\ [][Next]_vars

\* Whoever is inside a call gets on with it: tasks are polled, sleeps end, a dial
\* or a publish is answered, tokio's mutex is handed on in turn, and a stream that
\* lost its connection notices.  Nobody has to start a call, poll an errored
\* stream again, drop a connection or close the backend.
Fairness ==
  /\ \A c \in Clients : SF_vars(EnsureConnected(c))
  /\ \A s \in Streams :
       WF_vars(RecoverStream(s)) /\ WF_vars(~Up(sub[s]) /\ Break(s))
  /\ \A p \in Publishers : WF_vars(Publish(p))
  /\ WF_vars(CloseNext)

FairSpec == Spec /\ Fairness

-----------------------------------------------------------------------------
(***************************************************************************)
(* Properties                                                              *)
(***************************************************************************)

\* Every part of the state has its type, and only the holder of `reconnecting` is
\* behind that lock.
TypeOK ==
  /\ conns \in Seq({"up", "down", "closed"})
  /\ current \in DOMAIN conns
  /\ generation \in Nat
  /\ lock \in Clients \cup {Nobody}
  /\ closing \in BOOLEAN /\ reconnects \in BOOLEAN /\ poolOpen \in BOOLEAN
  /\ waiters \subseteq Clients /\ woken \subseteq waiters
  /\ pc \in [Clients -> Ensuring \cup Outside]
  /\ mine \in [Clients -> {0} \cup DOMAIN conns]
  /\ sub \in [Streams -> {0} \cup DOMAIN conns]
  /\ failures \in [Clients -> 0..MaxTroubles]
  /\ resubs \in [Streams -> Nat]
  /\ closer \in {"open", "flagged", "marked", "draining", "drained", "done"}
  /\ troubles \in 0..MaxTroubles /\ drops \in 0..MaxDrops
  /\ \A c \in Clients : lock = c <=> pc[c] \in Locked

\* Reconnection is single-flight: however many clients notice an outage, a
\* connection that is up is the installed one, or in the hands of the one client
\* that is about to install or close it.  None is overwritten while it works.
OneConnection ==
  \A n \in DOMAIN conns :
    Up(n) => \/ n = current
             \/ \E c \in Clients : mine[c] = n /\ pc[c] \in {"dialled", "swap"}

\* "Anyone who reads a new generation is guaranteed to read the connection that
\* goes with it": the count never runs ahead of the installed connection, and is
\* behind it only while install is between its two steps.
GenerationFollowsSwap ==
  current = generation + Cardinality({c \in Clients : pc[c] = "bump"})

\* No backoff outlives a close: whoever still sleeps once mark_closing has returned
\* has been notified (sleep_unless_closing arms before it checks).
NoSleepThroughClose ==
  \A c \in Clients :
    closer \notin {"open", "flagged"} /\ pc[c] \in {"sleep", "resubSleep"} => c \in woken

\* RabbitMqBackend::close returns, although it waits for publishes in flight, and
\* those may be waiting for a reconnect, or for the client that does it.
CloseCompletes == closing ~> closer = "done"

\* A stream that lost its subscription is resubscribed, or tells its reader: it
\* never just goes silent.
StreamsRecover ==
  \A s \in Streams : pc[s] = "broken" ~> pc[s] \in {"live", "errored", "ended"}

\* "Nothing reopens the connection afterwards": once close has returned, the
\* installed connection is not up.
ClosedStaysClosed == closer = "done" => ~Up(current)
=============================================================================
