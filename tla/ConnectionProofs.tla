--------------------------- MODULE ConnectionProofs ---------------------------
(***************************************************************************)
(* Reconnection is single-flight, the generation follows the swap, and no  *)
(* backoff sleeps through a close: for any number of streams and           *)
(* publishers, any limit on attempts and any number of faults.             *)
(***************************************************************************)
EXTENDS Connection, FiniteSetTheorems, TLAPS

-----------------------------------------------------------------------------
(***************************************************************************)
(* The inductive invariant.  TypeOK is cut into four parts that few steps  *)
(* disturb at once.                                                        *)
(***************************************************************************)

\* Only the holder of `reconnecting` is behind that lock.
LockInv ==
  /\ lock \in Clients \cup {Nobody}
  /\ pc \in [Clients -> Ensuring \cup Outside]
  /\ \A c \in Clients : lock = c <=> pc[c] \in Locked

ConnTypes ==
  /\ conns \in Seq({"up", "down", "closed"})
  /\ current \in DOMAIN conns
  /\ mine \in [Clients -> {0} \cup DOMAIN conns]
  /\ sub \in [Streams -> {0} \cup DOMAIN conns]

\* A failed dial is a trouble, so that the bound on those bounds it.
CountTypes ==
  /\ generation \in Nat
  /\ failures \in [Clients -> 0..MaxTroubles]
  /\ resubs \in [Streams -> Nat]
  /\ troubles \in 0..MaxTroubles /\ drops \in 0..MaxDrops
  /\ \A c \in Clients : failures[c] <= troubles

FlagTypes ==
  /\ closing \in BOOLEAN /\ reconnects \in BOOLEAN /\ poolOpen \in BOOLEAN
  /\ waiters \subseteq Clients /\ woken \subseteq waiters
  /\ closer \in {"open", "flagged", "marked", "draining", "drained", "done"}

\* From the second look under the lock until the swap the installed connection is
\* known to be down.
Redialling == {"policy", "arm", "armed", "sleep", "open", "dial", "dialled", "swap"}

\* What the holder of the lock knows.  A connection that was dialled is the newest
\* there is, and one ahead of the installed one; before, the installed one is the
\* newest, unless a close made somebody throw a newer one away.
InstallInv ==
  /\ \A c \in Clients :
       /\ pc[c] \in Redialling => ~Up(current)
       /\ pc[c] = "dial" => Len(conns) = current
       /\ pc[c] \in {"dialled", "swap"} => mine[c] = Len(conns) /\ Len(conns) = current + 1
       /\ pc[c] \in {"bump", "redeclare"} => mine[c] = current
  /\ (\A c \in Clients : pc[c] \notin {"dialled", "swap"}) => Len(conns) = current \/ closing

\* The count is one behind exactly while somebody is between the swap and the bump.
CountInv ==
  /\ (\E c \in Clients : pc[c] = "bump") => current = generation + 1
  /\ (\A c \in Clients : pc[c] # "bump") => current = generation

\* Whoever looks at the flag from inside sleep_unless_closing, or sleeps, is armed.
Sleeping == {"armed", "sleep", "resubArmed", "resubSleep"}

SleepInv ==
  /\ \A c \in Clients : pc[c] \in Sleeping => c \in waiters
  /\ closing <=> closer # "open"

IInv ==
  /\ LockInv /\ ConnTypes /\ CountTypes /\ FlagTypes
  /\ InstallInv /\ OneConnection /\ CountInv
  /\ SleepInv /\ NoSleepThroughClose

LEMMA IInvTypes == IInv => TypeOK
BY DEF IInv, LockInv, ConnTypes, CountTypes, FlagTypes, TypeOK

-----------------------------------------------------------------------------
\* Whoever leaves ensure_connected drops the guard, and nobody else touches it.
LEMMA LockStep ==
  ASSUME LockInv, Next
  PROVE  LockInv'
<1> USE ConnectionAssumption DEF Clients, Goto, Succeeds, Fails, Unlock, Trouble,
  Disarm, handleVars, clientVars, closeVars, brokerVars, LockInv, Ensuring, Locked,
  Outside, ErrorPc
<1>1. ASSUME NEW c \in Clients, EnsureConnected(c)
      PROVE  LockInv'
  <2>1. CASE Ensure(c) \/ Lock(c) \/ Recheck(c)
    BY <2>1 DEF Ensure, Lock, Recheck
  <2>2. CASE Policy(c) \/ CheckOpen(c)
    BY <2>2 DEF Policy, CheckOpen, NextDelays
  <2>3. CASE Arm(c, "arm", "armed") \/ Armed(c, "armed", "sleep") \/ Wakes(c, "sleep",
    "open")
    BY <2>3 DEF Arm, Armed, Wakes
  <2>4. CASE Dial(c)
    BY <2>4 DEF Dial
  <2>5. CASE Dialled(c)
    BY <2>5 DEF Dialled
  <2>6. CASE Swap(c) \/ Bump(c) \/ Redeclare(c)
    BY <2>6 DEF Swap, Bump, Redeclare
  <2> QED
    BY <1>1, <2>1, <2>2, <2>3, <2>4, <2>5, <2>6 DEF EnsureConnected
<1>2. ASSUME NEW s \in Streams, Consume(s) \/ RecoverStream(s) \/ Break(s) \/ PollAgain(s)
      PROVE  LockInv'
  <2>1. CASE Consume(s) \/ Recover(s) \/ PollAgain(s)
    BY <2>1 DEF Consume, Recover, PollAgain
  <2>2. CASE Subscribe(s)
    BY <2>2 DEF Subscribe, NextDelays
  <2>3. CASE Break(s)
    BY <2>3 DEF Break
  <2>4. CASE Arm(s, "resubArm", "resubArmed") \/ Armed(s, "resubArmed", "resubSleep")
    \/ Wakes(s, "resubSleep", "ensure")
    BY <2>4 DEF Arm, Armed, Wakes
  <2> QED
    BY <1>2, <2>1, <2>2, <2>3, <2>4 DEF RecoverStream
<1>3. ASSUME NEW p \in Publishers, Acquire(p) \/ Refuse(p) \/ Publish(p)
      PROVE  LockInv'
  BY <1>3 DEF Acquire, Refuse, Publish
<1>4. CASE MarkClosing \/ NotifyWaiters \/ DrainPool
  BY <1>4 DEF MarkClosing, NotifyWaiters, DrainPool
<1>5. CASE CloseConnection
  BY <1>5 DEF CloseConnection
<1>6. ASSUME NEW n \in DOMAIN conns, Drop(n)
      PROVE  LockInv'
  BY <1>6 DEF Drop
<1> QED
  BY <1>1, <1>2, <1>3, <1>4, <1>5, <1>6 DEF Next, CloseNext

\* Connections are only ever added, and what is installed was dialled.
LEMMA ConnStep ==
  ASSUME ConnTypes, LockInv, InstallInv, Next
  PROVE  ConnTypes'
<1> USE ConnectionAssumption DEF Clients, Goto, Succeeds, Fails, Unlock, Trouble,
  Disarm, handleVars, clientVars, closeVars, brokerVars, ConnTypes, LockInv, Up
<1>1. ASSUME NEW c \in Clients, EnsureConnected(c)
      PROVE  ConnTypes'
  <2>1. CASE Ensure(c) \/ Lock(c) \/ Recheck(c)
    BY <2>1 DEF Ensure, Lock, Recheck
  <2>2. CASE Policy(c) \/ CheckOpen(c)
    BY <2>2 DEF Policy, CheckOpen, NextDelays
  <2>3. CASE Arm(c, "arm", "armed") \/ Armed(c, "armed", "sleep") \/ Wakes(c, "sleep",
    "open")
    BY <2>3 DEF Arm, Armed, Wakes
  <2>4. CASE Dial(c)
    <3>1. CASE conns' = Append(conns, "up") /\ mine' = [mine EXCEPT ![c] = Len(conns) + 1]
      <4>1. Len(conns) \in Nat /\ DOMAIN conns = 1..Len(conns)
        OBVIOUS
      <4>2. conns' \in Seq({"up", "down", "closed"}) /\ DOMAIN conns' = 1..(Len(conns) + 1)
        BY <3>1
      <4>3. UNCHANGED <<current, sub>>
        BY <2>4 DEF Dial
      <4>4. DOMAIN conns \subseteq DOMAIN conns' /\ Len(conns) + 1 \in DOMAIN conns'
        BY <4>1, <4>2
      <4> QED
        BY <3>1, <4>2, <4>3, <4>4
    <3> QED
      BY <2>4, <3>1 DEF Dial
  <2>5. CASE Dialled(c)
    BY <2>5 DEF Dialled
  <2>6. CASE Swap(c) \/ Bump(c) \/ Redeclare(c)
    BY <2>6 DEF Swap, Bump, Redeclare, InstallInv
  <2> QED
    BY <1>1, <2>1, <2>2, <2>3, <2>4, <2>5, <2>6 DEF EnsureConnected
<1>2. ASSUME NEW s \in Streams, Consume(s) \/ RecoverStream(s) \/ Break(s) \/ PollAgain(s)
      PROVE  ConnTypes'
  <2>1. CASE Consume(s) \/ Recover(s) \/ PollAgain(s)
    BY <2>1 DEF Consume, Recover, PollAgain
  <2>2. CASE Subscribe(s)
    BY <2>2 DEF Subscribe, NextDelays
  <2>3. CASE Break(s)
    BY <2>3 DEF Break
  <2>4. CASE Arm(s, "resubArm", "resubArmed") \/ Armed(s, "resubArmed", "resubSleep")
    \/ Wakes(s, "resubSleep", "ensure")
    BY <2>4 DEF Arm, Armed, Wakes
  <2> QED
    BY <1>2, <2>1, <2>2, <2>3, <2>4 DEF RecoverStream
<1>3. ASSUME NEW p \in Publishers, Acquire(p) \/ Refuse(p) \/ Publish(p)
      PROVE  ConnTypes'
  BY <1>3 DEF Acquire, Refuse, Publish
<1>4. CASE MarkClosing \/ NotifyWaiters \/ DrainPool
  BY <1>4 DEF MarkClosing, NotifyWaiters, DrainPool
<1>5. CASE CloseConnection
  BY <1>5 DEF CloseConnection
<1>6. ASSUME NEW n \in DOMAIN conns, Drop(n)
      PROVE  ConnTypes'
  BY <1>6 DEF Drop
<1> QED
  BY <1>1, <1>2, <1>3, <1>4, <1>5, <1>6 DEF Next, CloseNext

\* Every failed dial is a trouble.
LEMMA CountStep ==
  ASSUME CountTypes, LockInv, Next
  PROVE  CountTypes'
<1> USE ConnectionAssumption DEF Clients, Goto, Succeeds, Fails, Unlock, Trouble,
  Disarm, handleVars, clientVars, closeVars, brokerVars, CountTypes, LockInv
<1>1. ASSUME NEW c \in Clients, EnsureConnected(c)
      PROVE  CountTypes'
  <2>1. CASE Ensure(c) \/ Lock(c) \/ Recheck(c)
    BY <2>1 DEF Ensure, Lock, Recheck
  <2>2. CASE Policy(c) \/ CheckOpen(c)
    BY <2>2 DEF Policy, CheckOpen, NextDelays
  <2>3. CASE Arm(c, "arm", "armed") \/ Armed(c, "armed", "sleep") \/ Wakes(c, "sleep",
    "open")
    BY <2>3 DEF Arm, Armed, Wakes
  <2>4. CASE Dial(c)
    <3>1. CASE UNCHANGED <<failures, troubles>>
      BY <2>4, <3>1 DEF Dial
    <3>2. CASE Trouble /\ failures' = [failures EXCEPT ![c] = @ + 1]
      <4>1. /\ troubles \in Nat /\ troubles + 1 <= MaxTroubles /\ troubles' = troubles + 1
            /\ MaxTroubles \in Nat
        BY <3>2
      <4>2. ASSUME NEW d \in Clients
            PROVE  failures'[d] \in Nat /\ failures'[d] <= troubles + 1
        <5>1. failures[d] \in Nat /\ failures[d] <= troubles
          OBVIOUS
        <5>2. failures'[d] = IF d = c THEN failures[d] + 1 ELSE failures[d]
          BY <3>2
        <5> QED
          BY <4>1, <5>1, <5>2
      <4>3. failures' = [d \in Clients |-> failures'[d]]
        BY <3>2
      <4>4. \A d \in Clients : failures'[d] \in 0..MaxTroubles
        BY <4>1, <4>2
      <4>5. failures' \in [Clients -> 0..MaxTroubles]
        BY <4>3, <4>4
      <4>6. UNCHANGED <<generation, resubs, drops>>
        BY <2>4 DEF Dial
      <4> QED
        BY <4>1, <4>2, <4>5, <4>6
    <3> QED
      BY <2>4, <3>1, <3>2 DEF Dial
  <2>5. CASE Dialled(c)
    BY <2>5 DEF Dialled
  <2>6. CASE Swap(c) \/ Bump(c) \/ Redeclare(c)
    BY <2>6 DEF Swap, Bump, Redeclare
  <2> QED
    BY <1>1, <2>1, <2>2, <2>3, <2>4, <2>5, <2>6 DEF EnsureConnected
<1>2. ASSUME NEW s \in Streams, Consume(s) \/ RecoverStream(s) \/ Break(s) \/ PollAgain(s)
      PROVE  CountTypes'
  <2>1. CASE Consume(s) \/ Recover(s) \/ PollAgain(s)
    BY <2>1 DEF Consume, Recover, PollAgain
  <2>2. CASE Subscribe(s)
    BY <2>2 DEF Subscribe, NextDelays
  <2>3. CASE Break(s)
    BY <2>3 DEF Break
  <2>4. CASE Arm(s, "resubArm", "resubArmed") \/ Armed(s, "resubArmed", "resubSleep")
    \/ Wakes(s, "resubSleep", "ensure")
    BY <2>4 DEF Arm, Armed, Wakes
  <2> QED
    BY <1>2, <2>1, <2>2, <2>3, <2>4 DEF RecoverStream
<1>3. ASSUME NEW p \in Publishers, Acquire(p) \/ Refuse(p) \/ Publish(p)
      PROVE  CountTypes'
  BY <1>3 DEF Acquire, Refuse, Publish
<1>4. CASE MarkClosing \/ NotifyWaiters \/ DrainPool
  BY <1>4 DEF MarkClosing, NotifyWaiters, DrainPool
<1>5. CASE CloseConnection
  BY <1>5 DEF CloseConnection
<1>6. ASSUME NEW n \in DOMAIN conns, Drop(n)
      PROVE  CountTypes'
  BY <1>6 DEF Drop
<1> QED
  BY <1>1, <1>2, <1>3, <1>4, <1>5, <1>6 DEF Next, CloseNext

\* Whoever was notified is armed.
LEMMA FlagStep ==
  ASSUME FlagTypes, Next
  PROVE  FlagTypes'
<1> USE ConnectionAssumption DEF Clients, Goto, Succeeds, Fails, Unlock, Trouble,
  Disarm, handleVars, clientVars, closeVars, brokerVars, FlagTypes
<1>1. ASSUME NEW c \in Clients, EnsureConnected(c)
      PROVE  FlagTypes'
  <2>1. CASE Ensure(c) \/ Lock(c) \/ Recheck(c)
    BY <2>1 DEF Ensure, Lock, Recheck
  <2>2. CASE Policy(c) \/ CheckOpen(c)
    BY <2>2 DEF Policy, CheckOpen, NextDelays
  <2>3. CASE Arm(c, "arm", "armed") \/ Armed(c, "armed", "sleep") \/ Wakes(c, "sleep",
    "open")
    BY <2>3 DEF Arm, Armed, Wakes
  <2>4. CASE Dial(c)
    BY <2>4 DEF Dial
  <2>5. CASE Dialled(c)
    BY <2>5 DEF Dialled
  <2>6. CASE Swap(c) \/ Bump(c) \/ Redeclare(c)
    BY <2>6 DEF Swap, Bump, Redeclare
  <2> QED
    BY <1>1, <2>1, <2>2, <2>3, <2>4, <2>5, <2>6 DEF EnsureConnected
<1>2. ASSUME NEW s \in Streams, Consume(s) \/ RecoverStream(s) \/ Break(s) \/ PollAgain(s)
      PROVE  FlagTypes'
  <2>1. CASE Consume(s) \/ Recover(s) \/ PollAgain(s)
    BY <2>1 DEF Consume, Recover, PollAgain
  <2>2. CASE Subscribe(s)
    BY <2>2 DEF Subscribe, NextDelays
  <2>3. CASE Break(s)
    BY <2>3 DEF Break
  <2>4. CASE Arm(s, "resubArm", "resubArmed") \/ Armed(s, "resubArmed", "resubSleep")
    \/ Wakes(s, "resubSleep", "ensure")
    BY <2>4 DEF Arm, Armed, Wakes
  <2> QED
    BY <1>2, <2>1, <2>2, <2>3, <2>4 DEF RecoverStream
<1>3. ASSUME NEW p \in Publishers, Acquire(p) \/ Refuse(p) \/ Publish(p)
      PROVE  FlagTypes'
  BY <1>3 DEF Acquire, Refuse, Publish
<1>4. CASE MarkClosing \/ NotifyWaiters \/ DrainPool
  BY <1>4 DEF MarkClosing, NotifyWaiters, DrainPool
<1>5. CASE CloseConnection
  BY <1>5 DEF CloseConnection
<1>6. ASSUME NEW n \in DOMAIN conns, Drop(n)
      PROVE  FlagTypes'
  BY <1>6 DEF Drop
<1> QED
  BY <1>1, <1>2, <1>3, <1>4, <1>5, <1>6 DEF Next, CloseNext

\* The lock makes the check under it hold until the swap: no connection comes back up,
\* and nobody else dials or installs.
LEMMA InstallStep ==
  ASSUME InstallInv, LockInv, ConnTypes, Next
  PROVE  InstallInv'
<1> USE ConnectionAssumption DEF Clients, Goto, Succeeds, Fails, Unlock, Trouble,
  Disarm, handleVars, clientVars, closeVars, brokerVars, InstallInv, LockInv,
  ConnTypes, Redialling, Up, Ensuring, Locked, Outside, ErrorPc
<1>1. ASSUME NEW c \in Clients, EnsureConnected(c)
      PROVE  InstallInv'
  <2>1. CASE Ensure(c) \/ Lock(c) \/ Recheck(c)
    BY <2>1 DEF Ensure, Lock, Recheck
  <2>2. CASE Policy(c) \/ CheckOpen(c)
    BY <2>2 DEF Policy, CheckOpen, NextDelays
  <2>3. CASE Arm(c, "arm", "armed") \/ Armed(c, "armed", "sleep") \/ Wakes(c, "sleep",
    "open")
    BY <2>3 DEF Arm, Armed, Wakes
  <2>4. CASE Dial(c)
    <3>1. CASE conns' = Append(conns, "up") /\ mine' = [mine EXCEPT ![c] = Len(conns) + 1]
      <4>1. Len(conns') = Len(conns) + 1 /\ conns'[current] = conns[current]
        BY <3>1
      <4>2. /\ UNCHANGED <<current, closing>> /\ Len(conns) = current
            /\ pc[c] = "dial" /\ pc' = [pc EXCEPT ![c] = "dialled"]
            /\ ~Up(current)
        BY <2>4, <3>1 DEF Dial
      <4>3. \A d \in Clients : d # c => pc[d] \notin Locked
        BY <4>2
      <4> QED
        BY <3>1, <4>1, <4>2, <4>3
    <3>2. CASE UNCHANGED <<conns, mine>>
      BY <2>4, <3>2 DEF Dial
    <3> QED
      BY <2>4, <3>1, <3>2 DEF Dial
  <2>5. CASE Dialled(c)
    BY <2>5 DEF Dialled
  <2>6. CASE Swap(c) \/ Bump(c) \/ Redeclare(c)
    BY <2>6 DEF Swap, Bump, Redeclare
  <2> QED
    BY <1>1, <2>1, <2>2, <2>3, <2>4, <2>5, <2>6 DEF EnsureConnected
<1>2. ASSUME NEW s \in Streams, Consume(s) \/ RecoverStream(s) \/ Break(s) \/ PollAgain(s)
      PROVE  InstallInv'
  <2>1. CASE Consume(s) \/ Recover(s) \/ PollAgain(s)
    BY <2>1 DEF Consume, Recover, PollAgain
  <2>2. CASE Subscribe(s)
    <3>1. \E to \in {"live", "refused", "errored", "resubArm"} : Goto(s, "use", to)
      BY <2>2 DEF Subscribe
    <3>2. UNCHANGED <<current, conns, mine, closing>>
      BY <2>2 DEF Subscribe
    <3> QED
      BY <3>1, <3>2
  <2>3. CASE Break(s)
    BY <2>3 DEF Break
  <2>4. CASE Arm(s, "resubArm", "resubArmed") \/ Armed(s, "resubArmed", "resubSleep")
    \/ Wakes(s, "resubSleep", "ensure")
    BY <2>4 DEF Arm, Armed, Wakes
  <2> QED
    BY <1>2, <2>1, <2>2, <2>3, <2>4 DEF RecoverStream
<1>3. ASSUME NEW p \in Publishers, Acquire(p) \/ Refuse(p) \/ Publish(p)
      PROVE  InstallInv'
  BY <1>3 DEF Acquire, Refuse, Publish
<1>4. CASE MarkClosing \/ NotifyWaiters \/ DrainPool
  BY <1>4 DEF MarkClosing, NotifyWaiters, DrainPool
<1>5. CASE CloseConnection
  BY <1>5 DEF CloseConnection
<1>6. ASSUME NEW n \in DOMAIN conns, Drop(n)
      PROVE  InstallInv'
  BY <1>6 DEF Drop
<1> QED
  BY <1>1, <1>2, <1>3, <1>4, <1>5, <1>6 DEF Next, CloseNext

\* What the swap overwrites was down, and a dialled connection that is not installed is
\* closed.
LEMMA OneConnectionStep ==
  ASSUME OneConnection, InstallInv, LockInv, ConnTypes, Next
  PROVE  OneConnection'
<1> USE ConnectionAssumption DEF Clients, Goto, Succeeds, Fails, Unlock, Trouble,
  Disarm, handleVars, clientVars, closeVars, brokerVars, OneConnection, InstallInv,
  LockInv, ConnTypes, Redialling, Up, Ensuring, Locked, Outside, ErrorPc
<1>1. ASSUME NEW c \in Clients, EnsureConnected(c)
      PROVE  OneConnection'
  <2>1. CASE Ensure(c) \/ Lock(c) \/ Recheck(c)
    BY <2>1 DEF Ensure, Lock, Recheck
  <2>2. CASE Policy(c) \/ CheckOpen(c)
    BY <2>2 DEF Policy, CheckOpen, NextDelays
  <2>3. CASE Arm(c, "arm", "armed") \/ Armed(c, "armed", "sleep") \/ Wakes(c, "sleep",
    "open")
    BY <2>3 DEF Arm, Armed, Wakes
  <2>4. CASE Dial(c)
    <3>1. CASE conns' = Append(conns, "up") /\ mine' = [mine EXCEPT ![c] = Len(conns) + 1]
      <4>1. \A n \in DOMAIN conns : conns'[n] = conns[n]
        BY <3>1
      <4>2. DOMAIN conns' = 1..(Len(conns) + 1) /\ DOMAIN conns = 1..Len(conns)
        BY <3>1
      <4>3. current' = current /\ pc'[c] = "dialled" /\ mine'[c] = Len(conns) + 1
        BY <2>4, <3>1 DEF Dial
      <4>4. \A d \in Clients : pc[d] \notin {"dialled", "swap"}
        BY <2>4 DEF Dial
      <4>5. \A n \in DOMAIN conns : Up(n)' => n = current
        BY <4>1, <4>4
      <4> QED
        BY <4>2, <4>3, <4>5
    <3> QED
      BY <2>4, <3>1 DEF Dial
  <2>5. CASE Dialled(c)
    BY <2>5 DEF Dialled
  <2>6. CASE Swap(c) \/ Bump(c) \/ Redeclare(c)
    <3>1. CASE Swap(c)
      <4>1. \A d \in Clients : pc[d] \in {"dialled", "swap"} => d = c
        BY <3>1, ZenonT(60) DEF Swap
      <4>2. \A n \in DOMAIN conns : Up(n) => n = mine[c]
        BY <3>1, <4>1 DEF Swap
      <4> QED
        BY <3>1, <4>2 DEF Swap
    <3>2. CASE Bump(c)
      BY <3>2 DEF Bump
    <3>3. CASE Redeclare(c)
      BY <3>3 DEF Redeclare
    <3> QED
      BY <2>6, <3>1, <3>2, <3>3
  <2> QED
    BY <1>1, <2>1, <2>2, <2>3, <2>4, <2>5, <2>6 DEF EnsureConnected
<1>2. ASSUME NEW s \in Streams, Consume(s) \/ RecoverStream(s) \/ Break(s) \/ PollAgain(s)
      PROVE  OneConnection'
  <2>1. CASE Consume(s) \/ Recover(s) \/ PollAgain(s)
    BY <2>1 DEF Consume, Recover, PollAgain
  <2>2. CASE Subscribe(s)
    <3>1. \E to \in {"live", "refused", "errored", "resubArm"} : Goto(s, "use", to)
      BY <2>2 DEF Subscribe
    <3>2. UNCHANGED <<current, conns, mine, closing>>
      BY <2>2 DEF Subscribe
    <3> QED
      BY <3>1, <3>2
  <2>3. CASE Break(s)
    BY <2>3 DEF Break
  <2>4. CASE Arm(s, "resubArm", "resubArmed") \/ Armed(s, "resubArmed", "resubSleep")
    \/ Wakes(s, "resubSleep", "ensure")
    BY <2>4 DEF Arm, Armed, Wakes
  <2> QED
    BY <1>2, <2>1, <2>2, <2>3, <2>4 DEF RecoverStream
<1>3. ASSUME NEW p \in Publishers, Acquire(p) \/ Refuse(p) \/ Publish(p)
      PROVE  OneConnection'
  BY <1>3 DEF Acquire, Refuse, Publish
<1>4. CASE MarkClosing \/ NotifyWaiters \/ DrainPool
  BY <1>4 DEF MarkClosing, NotifyWaiters, DrainPool
<1>5. CASE CloseConnection
  BY <1>5 DEF CloseConnection
<1>6. ASSUME NEW n \in DOMAIN conns, Drop(n)
      PROVE  OneConnection'
  BY <1>6 DEF Drop
<1> QED
  BY <1>1, <1>2, <1>3, <1>4, <1>5, <1>6 DEF Next, CloseNext

\* The swap installs the next connection, and the bump counts it.
LEMMA GenerationStep ==
  ASSUME CountInv, InstallInv, LockInv, ConnTypes, CountTypes, Next
  PROVE  CountInv'
<1> USE ConnectionAssumption DEF Clients, Goto, Succeeds, Fails, Unlock, Trouble,
  Disarm, handleVars, clientVars, closeVars, brokerVars, CountInv, InstallInv, LockInv,
  ConnTypes, CountTypes, Ensuring, Locked, Outside, ErrorPc
<1>1. ASSUME NEW c \in Clients, EnsureConnected(c)
      PROVE  CountInv'
  <2>1. CASE Ensure(c) \/ Lock(c) \/ Recheck(c)
    BY <2>1, SMTT(60) DEF Ensure, Lock, Recheck
  <2>2. CASE Policy(c) \/ CheckOpen(c)
    BY <2>2, ZenonT(60) DEF Policy, CheckOpen, NextDelays
  <2>3. CASE Arm(c, "arm", "armed") \/ Armed(c, "armed", "sleep") \/ Wakes(c, "sleep",
    "open")
    BY <2>3, ZenonT(60) DEF Arm, Armed, Wakes
  <2>4. CASE Dial(c)
    BY <2>4 DEF Dial
  <2>5. CASE Dialled(c)
    BY <2>5 DEF Dialled
  <2>6. CASE Swap(c) \/ Bump(c) \/ Redeclare(c)
    BY <2>6 DEF Swap, Bump, Redeclare
  <2> QED
    BY <1>1, <2>1, <2>2, <2>3, <2>4, <2>5, <2>6 DEF EnsureConnected
<1>2. ASSUME NEW s \in Streams, Consume(s) \/ RecoverStream(s) \/ Break(s) \/ PollAgain(s)
      PROVE  CountInv'
  <2>1. CASE Consume(s) \/ Recover(s) \/ PollAgain(s)
    BY <2>1, ZenonT(60) DEF Consume, Recover, PollAgain
  <2>2. CASE Subscribe(s)
    BY <2>2, ZenonT(60) DEF Subscribe, NextDelays
  <2>3. CASE Break(s)
    BY <2>3 DEF Break
  <2>4. CASE Arm(s, "resubArm", "resubArmed") \/ Armed(s, "resubArmed", "resubSleep")
    \/ Wakes(s, "resubSleep", "ensure")
    BY <2>4, ZenonT(60) DEF Arm, Armed, Wakes
  <2> QED
    BY <1>2, <2>1, <2>2, <2>3, <2>4 DEF RecoverStream
<1>3. ASSUME NEW p \in Publishers, Acquire(p) \/ Refuse(p) \/ Publish(p)
      PROVE  CountInv'
  BY <1>3, ZenonT(60) DEF Acquire, Refuse, Publish
<1>4. CASE MarkClosing \/ NotifyWaiters \/ DrainPool
  BY <1>4 DEF MarkClosing, NotifyWaiters, DrainPool
<1>5. CASE CloseConnection
  BY <1>5 DEF CloseConnection
<1>6. ASSUME NEW n \in DOMAIN conns, Drop(n)
      PROVE  CountInv'
  BY <1>6 DEF Drop
<1> QED
  BY <1>1, <1>2, <1>3, <1>4, <1>5, <1>6 DEF Next, CloseNext

\* Arming comes before the check, and only waking disarms.
LEMMA SleepStep ==
  ASSUME SleepInv, LockInv, FlagTypes, Next
  PROVE  SleepInv'
<1> USE ConnectionAssumption DEF Clients, Goto, Succeeds, Fails, Unlock, Trouble,
  Disarm, handleVars, clientVars, closeVars, brokerVars, SleepInv, LockInv, FlagTypes,
  Sleeping, ErrorPc
<1>1. ASSUME NEW c \in Clients, EnsureConnected(c)
      PROVE  SleepInv'
  <2>1. CASE Ensure(c) \/ Lock(c) \/ Recheck(c)
    BY <2>1 DEF Ensure, Lock, Recheck
  <2>2. CASE Policy(c) \/ CheckOpen(c)
    BY <2>2 DEF Policy, CheckOpen, NextDelays
  <2>3. CASE Arm(c, "arm", "armed") \/ Armed(c, "armed", "sleep") \/ Wakes(c, "sleep",
    "open")
    BY <2>3 DEF Arm, Armed, Wakes
  <2>4. CASE Dial(c)
    BY <2>4 DEF Dial
  <2>5. CASE Dialled(c)
    BY <2>5 DEF Dialled
  <2>6. CASE Swap(c) \/ Bump(c) \/ Redeclare(c)
    BY <2>6 DEF Swap, Bump, Redeclare
  <2> QED
    BY <1>1, <2>1, <2>2, <2>3, <2>4, <2>5, <2>6 DEF EnsureConnected
<1>2. ASSUME NEW s \in Streams, Consume(s) \/ RecoverStream(s) \/ Break(s) \/ PollAgain(s)
      PROVE  SleepInv'
  <2>1. CASE Consume(s) \/ Recover(s) \/ PollAgain(s)
    BY <2>1 DEF Consume, Recover, PollAgain
  <2>2. CASE Subscribe(s)
    BY <2>2 DEF Subscribe, NextDelays
  <2>3. CASE Break(s)
    BY <2>3 DEF Break
  <2>4. CASE Arm(s, "resubArm", "resubArmed") \/ Armed(s, "resubArmed", "resubSleep")
    \/ Wakes(s, "resubSleep", "ensure")
    BY <2>4 DEF Arm, Armed, Wakes
  <2> QED
    BY <1>2, <2>1, <2>2, <2>3, <2>4 DEF RecoverStream
<1>3. ASSUME NEW p \in Publishers, Acquire(p) \/ Refuse(p) \/ Publish(p)
      PROVE  SleepInv'
  BY <1>3 DEF Acquire, Refuse, Publish
<1>4. CASE MarkClosing \/ NotifyWaiters \/ DrainPool
  BY <1>4 DEF MarkClosing, NotifyWaiters, DrainPool
<1>5. CASE CloseConnection
  BY <1>5 DEF CloseConnection
<1>6. ASSUME NEW n \in DOMAIN conns, Drop(n)
      PROVE  SleepInv'
  BY <1>6 DEF Drop
<1> QED
  BY <1>1, <1>2, <1>3, <1>4, <1>5, <1>6 DEF Next, CloseNext

\* A sleeper that mark_closing did not reach had checked the flag before it was set,
\* and was armed by then.
LEMMA NotifiedStep ==
  ASSUME NoSleepThroughClose, SleepInv, LockInv, FlagTypes, Next
  PROVE  NoSleepThroughClose'
<1> USE ConnectionAssumption DEF Clients, Goto, Succeeds, Fails, Unlock, Trouble,
  Disarm, handleVars, clientVars, closeVars, brokerVars, NoSleepThroughClose, SleepInv,
  LockInv, FlagTypes, Sleeping, ErrorPc
<1>1. ASSUME NEW c \in Clients, EnsureConnected(c)
      PROVE  NoSleepThroughClose'
  <2>1. CASE Ensure(c) \/ Lock(c) \/ Recheck(c)
    BY <2>1 DEF Ensure, Lock, Recheck
  <2>2. CASE Policy(c) \/ CheckOpen(c)
    BY <2>2 DEF Policy, CheckOpen, NextDelays
  <2>3. CASE Arm(c, "arm", "armed") \/ Armed(c, "armed", "sleep") \/ Wakes(c, "sleep",
    "open")
    BY <2>3 DEF Arm, Armed, Wakes
  <2>4. CASE Dial(c)
    BY <2>4 DEF Dial
  <2>5. CASE Dialled(c)
    BY <2>5 DEF Dialled
  <2>6. CASE Swap(c) \/ Bump(c) \/ Redeclare(c)
    BY <2>6 DEF Swap, Bump, Redeclare
  <2> QED
    BY <1>1, <2>1, <2>2, <2>3, <2>4, <2>5, <2>6 DEF EnsureConnected
<1>2. ASSUME NEW s \in Streams, Consume(s) \/ RecoverStream(s) \/ Break(s) \/ PollAgain(s)
      PROVE  NoSleepThroughClose'
  <2>1. CASE Consume(s) \/ Recover(s) \/ PollAgain(s)
    BY <2>1 DEF Consume, Recover, PollAgain
  <2>2. CASE Subscribe(s)
    BY <2>2 DEF Subscribe, NextDelays
  <2>3. CASE Break(s)
    BY <2>3 DEF Break
  <2>4. CASE Arm(s, "resubArm", "resubArmed") \/ Armed(s, "resubArmed", "resubSleep")
    \/ Wakes(s, "resubSleep", "ensure")
    BY <2>4 DEF Arm, Armed, Wakes
  <2> QED
    BY <1>2, <2>1, <2>2, <2>3, <2>4 DEF RecoverStream
<1>3. ASSUME NEW p \in Publishers, Acquire(p) \/ Refuse(p) \/ Publish(p)
      PROVE  NoSleepThroughClose'
  BY <1>3 DEF Acquire, Refuse, Publish
<1>4. CASE MarkClosing \/ NotifyWaiters \/ DrainPool
  BY <1>4 DEF MarkClosing, NotifyWaiters, DrainPool
<1>5. CASE CloseConnection
  BY <1>5 DEF CloseConnection
<1>6. ASSUME NEW n \in DOMAIN conns, Drop(n)
      PROVE  NoSleepThroughClose'
  BY <1>6 DEF Drop
<1> QED
  BY <1>1, <1>2, <1>3, <1>4, <1>5, <1>6 DEF Next, CloseNext

-----------------------------------------------------------------------------
LEMMA IInvInit == Init => IInv
<1> SUFFICES ASSUME Init PROVE IInv
  OBVIOUS
<1> USE ConnectionAssumption DEF Init, Clients
<1>1. LockInv
  BY DEF LockInv, Ensuring, Locked, Outside
<1>2. ConnTypes
  BY DEF ConnTypes
<1>3. CountTypes
  BY DEF CountTypes
<1>4. FlagTypes
  BY DEF FlagTypes
<1>5. InstallInv /\ OneConnection
  BY DEF InstallInv, OneConnection, Redialling, Up
<1>6. CountInv
  BY DEF CountInv
<1>7. SleepInv /\ NoSleepThroughClose
  BY DEF SleepInv, NoSleepThroughClose, Sleeping
<1> QED
  BY <1>1, <1>2, <1>3, <1>4, <1>5, <1>6, <1>7 DEF IInv

LEMMA IInvStep == IInv /\ [Next]_vars => IInv'
<1> SUFFICES ASSUME IInv, [Next]_vars PROVE IInv'
  OBVIOUS
<1>1. CASE Next
  BY <1>1, LockStep, ConnStep, CountStep, FlagStep, InstallStep, OneConnectionStep,
     GenerationStep, SleepStep, NotifiedStep DEF IInv
<1>2. CASE UNCHANGED vars
  BY <1>2 DEF vars, handleVars, clientVars, closeVars, brokerVars, IInv, LockInv, ConnTypes,
     CountTypes, FlagTypes, InstallInv, OneConnection, CountInv, SleepInv,
     NoSleepThroughClose, Up
<1> QED
  BY <1>1, <1>2

\* The invariant the theorems below rest on holds in every state that ensure_connected,
\* close and the streams reach together.
THEOREM Invariance == Spec => []IInv
BY IInvInit, IInvStep, PTL DEF Spec

\* Every part of the state has its type, and only the holder of `reconnecting` is past it
\* (connection.rs, ensure_connected: no way out of it keeps the lock).
THEOREM ReconnectTyped == Spec => []TypeOK
BY Invariance, IInvTypes, PTL

\* Reconnection is single-flight for any number of clients: a connection that is up is
\* installed, or in the hands of the one client that will install or close it.
THEOREM SingleFlight == Spec => []OneConnection
<1>1. IInv => OneConnection
  BY DEF IInv
<1> QED
  BY <1>1, Invariance, PTL

\* Whoever sleeps in a backoff once mark_closing has returned has been notified.
THEOREM CloseWakesSleepers == Spec => []NoSleepThroughClose
<1>1. IInv => NoSleepThroughClose
  BY DEF IInv
<1> QED
  BY <1>1, Invariance, PTL

\* The generation never runs ahead of the installed connection, and is one behind it only
\* between the two steps of install.
THEOREM GenerationOrdered == Spec => []GenerationFollowsSwap
<1>1. IInv => GenerationFollowsSwap
  <2> SUFFICES ASSUME IInv PROVE GenerationFollowsSwap
    OBVIOUS
  <2> DEFINE bumping == {c \in Clients : pc[c] = "bump"}
  <2>1. CASE \E c \in Clients : pc[c] = "bump"
    <3>1. PICK c \in Clients : pc[c] = "bump"
      BY <2>1
    <3>2. bumping = {c}
      BY <3>1 DEF IInv, LockInv, Locked, Ensuring
    <3>3. Cardinality(bumping) = 1
      BY <3>2, FS_Singleton
    <3> QED
      BY <2>1, <3>3 DEF IInv, CountInv, GenerationFollowsSwap
  <2>2. CASE \A c \in Clients : pc[c] # "bump"
    <3>1. Cardinality(bumping) = 0
      BY <2>2, FS_EmptySet
    <3>2. current = generation /\ generation \in Nat
      BY <2>2 DEF IInv, CountInv, CountTypes
    <3> QED
      BY <3>1, <3>2 DEF GenerationFollowsSwap
  <2> QED
    BY <2>1, <2>2
<1> QED
  BY <1>1, Invariance, PTL
=============================================================================
