---------------------------- MODULE RabbitMqProofs ----------------------------
(***************************************************************************)
(* Processes that share a broker restore their queues or say so, never     *)
(* lock each other out of a hold queue and lose no job: for any number of  *)
(* processes, queues and jobs, any options and any number of faults.       *)
(***************************************************************************)
EXTENDS RabbitMq, DelaysProofs, FiniteSetTheorems, TLAPS

-----------------------------------------------------------------------------
(***************************************************************************)
(* Declarations.                                                           *)
(***************************************************************************)

\* What the broker reads of a declaration.
LEMMA MainFacts ==
  ASSUME NEW c
  PROVE  /\ Main(c).name = c.name
         /\ Main(c).options.durable = c.durable
         /\ Main(c).args.expires = Absent
         /\ Main(c).args.dead_letter_to = ""
         /\ c.message_ttl = {} => Main(c).args.message_ttl = Absent
BY DEF Main, Declaration, declare_options, queue_args, NoArgs

LEMMA DeadFacts ==
  ASSUME NEW c, NEW p
  PROVE  /\ Dead(c, Options[p]).name = DeadName(c, p)
         /\ Dead(c, Options[p]).options.durable = TRUE
         /\ Dead(c, Options[p]).args.expires = Absent
         /\ Dead(c, Options[p]).args.dead_letter_to = ""
         /\ Dead(c, Options[p]).args.message_ttl = Absent
BY DEF Dead, DeadName, Declaration, declare_options, dead_queue_args, NoArgs

LEMMA HoldFacts ==
  ASSUME NEW c, NEW p, NEW ttl
  PROVE  /\ HoldQueue(c, Options[p], ttl).name = HoldName(c, p, ttl)
         /\ HoldQueue(c, Options[p], ttl).options.durable = c.durable
         /\ HoldQueue(c, Options[p], ttl).args.dead_letter_to = c.name
BY DEF HoldQueue, HoldName, Declaration, declare_options, deferred_queue_args, NoArgs

\* Only a queue and its dead-letter queue are ever accepted.
LEMMA AcceptedSome ==
  ASSUME NEW p, NEW c, NEW d \in Accepted(p, c)
  PROVE  d = Main(c) \/ d = Dead(c, Options[p])
<1> DEFINE all == declare_topology(c, Options[p])
<1>1. PICK k \in DOMAIN all : d = all[k]
  BY DEF Accepted
<1>2. CASE Options[p].declare_dead_letter_queues
  <2>1. all = <<Main(c), Dead(c, Options[p])>>
    BY <1>2 DEF declare_topology
  <2> QED
    BY <1>1, <2>1
<1>3. CASE ~Options[p].declare_dead_letter_queues
  <2>1. all = <<Main(c)>>
    BY <1>3 DEF declare_topology
  <2> QED
    BY <1>1, <2>1
<1> QED
  BY <1>2, <1>3

\* What is accepted agrees with what is there.
LEMMA AcceptedAgrees ==
  ASSUME NEW p, NEW c, NEW d \in Accepted(p, c)
  PROVE  Agrees(d)
<1> DEFINE all == declare_topology(c, Options[p])
           Ok(n) == short_string(all[n].name) /\ Agrees(all[n])
<1>1. PICK k \in DOMAIN all : d = all[k] /\ \A n \in 1..k : Ok(n)
  BY DEF Accepted
<1>2. DOMAIN all \subseteq 1..2
  <2>1. CASE Options[p].declare_dead_letter_queues
    BY <2>1 DEF declare_topology
  <2>2. CASE ~Options[p].declare_dead_letter_queues
    BY <2>2 DEF declare_topology
  <2> QED
    BY <2>1, <2>2
<1>3. k \in 1..k
  BY <1>1, <1>2
<1> QED
  BY <1>1, <1>3

\* Unless it is refused, everything is accepted.
LEMMA AcceptedAll ==
  ASSUME NEW p, NEW c, ~Refused(p, c)
  PROVE  /\ Main(c) \in Accepted(p, c)
         /\ Options[p].declare_dead_letter_queues => Dead(c, Options[p]) \in Accepted(p, c)
<1> DEFINE all == declare_topology(c, Options[p])
           Ok(n) == short_string(all[n].name) /\ Agrees(all[n])
           Fits == {k \in DOMAIN all : \A n \in 1..k : Ok(n)}
<1>1. Accepted(p, c) = {all[i] : i \in Fits}
  BY DEF Accepted
<1>2. ~(Cardinality(Accepted(p, c)) < Len(all))
  BY DEF Refused
<1>3. CASE ~Options[p].declare_dead_letter_queues
  <2>1. all = <<Main(c)>>
    BY <1>3 DEF declare_topology
  <2>2. DOMAIN all = {1} /\ Len(all) = 1
    BY <2>1
  <2>3. 1 \in Fits
    <3>1. SUFFICES ASSUME 1 \notin Fits PROVE FALSE
      OBVIOUS
    <3>2. Fits = {}
      BY <2>2, <3>1
    <3>3. Accepted(p, c) = {}
      BY <1>1, <3>2
    <3> QED
      BY <1>2, <2>2, <3>3, FS_EmptySet
  <2> QED
    BY <1>1, <1>3, <2>1, <2>3
<1>4. CASE Options[p].declare_dead_letter_queues
  <2>1. all = <<Main(c), Dead(c, Options[p])>>
    BY <1>4 DEF declare_topology
  <2>2. DOMAIN all = {1, 2} /\ Len(all) = 2
    BY <2>1
  <2>3. 2 \in Fits
    <3>1. SUFFICES ASSUME 2 \notin Fits PROVE FALSE
      OBVIOUS
    <3>2. Fits \subseteq {1}
      BY <2>2, <3>1
    <3>3. CASE Fits = {}
      <4>1. Accepted(p, c) = {}
        BY <1>1, <3>3
      <4> QED
        BY <1>2, <2>2, <4>1, FS_EmptySet
    <3>4. CASE Fits = {1}
      <4>1. Accepted(p, c) = {all[1]}
        BY <1>1, <3>4
      <4> QED
        BY <1>2, <2>2, <4>1, FS_Singleton
    <3> QED
      BY <3>2, <3>3, <3>4
  <2>4. 1 \in Fits
    <3>1. \A n \in 1..2 : Ok(n)
      BY <2>3
    <3>2. \A n \in 1..1 : Ok(n)
      BY <3>1
    <3> QED
      BY <2>2, <3>2
  <2> QED
    BY <1>1, <2>1, <2>3, <2>4
<1> QED
  BY <1>3, <1>4

\* A replay goes through everything the process knows.
LEMMA SetToSeqsCovers ==
  ASSUME NEW S, IsFiniteSet(S), NEW list \in SetToSeqs(S)
  PROVE  /\ list \in Seq(S)
         /\ \A x \in S : \E i \in DOMAIN list : list[i] = x
<1> DEFINE D == 1..Cardinality(S)
<1>1. Cardinality(S) \in Nat
  BY FS_CardinalityType
<1>2. list \in [D -> S] /\ \A i, j \in D : i # j => list[i] # list[j]
  BY DEF SetToSeqs
<1>3. list \in Injection(D, S)
  BY <1>2, Zenon DEF Injection, IsInjective
<1>4. Cardinality(D) = Cardinality(S)
  BY <1>1, FS_Interval
<1>5. list \in Seq(S) /\ DOMAIN list = D
  BY <1>1, <1>2
<1> HIDE DEF D
<1>6. list \in Surjection(D, S)
  BY <1>3, <1>4, FS_Injection, Zenon
<1> QED
  BY <1>5, <1>6, Zenon DEF Surjection

-----------------------------------------------------------------------------
(***************************************************************************)
(* What a process declared is restored, or still to be replayed, or a      *)
(* replay said that it failed.                                             *)
(***************************************************************************)

\* A queue that does not delete itself is there until an operator comes.
Kept(name) == name \in meddled \/ \E d \in queues : d.name = name /\ d.args.expires = Absent

Restored(p, c) ==
  /\ Kept(c.name)
  /\ Options[p].declare_dead_letter_queues => Kept(DeadName(c, p))

Replaying(p, c) == \E i \in DOMAIN replaying[p] : replaying[p][i] = c

ProcessTypes ==
  /\ up \in [Procs -> BOOLEAN]
  /\ configs \in [Procs -> SUBSET Known]
  /\ \A p \in Procs : IsFiniteSet(configs[p])
  /\ declaring \in [Procs -> Seq(Known)]
  /\ replaying \in [Procs -> Seq(Known)]

RestInv ==
  \A p \in Procs : up[p] /\ p \notin reported =>
    \A c \in configs[p] : Restored(p, c) \/ Replaying(p, c)

ReplayInv == ProcessTypes /\ RestInv

\* What is declared is a queue that is known of.
LEMMA CallsKnown ==
  ASSUME NEW p \in Procs, NEW list \in Calls[p]
  PROVE  list \in Seq(Known)
<1>1. list \in Seq(QueueConfig)
  BY RabbitMqAssumption DEF RabbitMqAssumption
<1>2. \A i \in 1..Len(list) : list[i] \in Known
  BY <1>1 DEF Known, Range
<1> QED
  BY <1>1, <1>2

\* Steps of others leave a process what it has.
LEMMA ReplayQuiet ==
  ASSUME ReplayInv, UNCHANGED <<up, configs, declaring, replaying, reported>>,
         \A name : Kept(name) => Kept(name)'
  PROVE  ReplayInv'
BY DEF ReplayInv, ProcessTypes, RestInv, Restored, Replaying

\* Declaring takes no queue away.
LEMMA KeptGrows ==
  ASSUME queues \subseteq queues', UNCHANGED meddled
  PROVE  \A name : Kept(name) => Kept(name)'
BY DEF Kept

\* One lemma per action that concerns a declare or a replay.
LEMMA ReplayDeclare ==
  ASSUME ReplayInv, NEW p \in Procs, Declare(p)
  PROVE  ReplayInv'
<1>1. PICK list \in Calls[p] : declaring' = [declaring EXCEPT ![p] = list]
  BY DEF Declare
<1>2. list \in Seq(Known)
  BY CallsKnown
<1>3. UNCHANGED <<queues, meddled, up, configs, replaying, reported>>
  BY DEF Declare, brokerVars, faultVars
<1>4. declaring' \in [Procs -> Seq(Known)]
  BY <1>1, <1>2 DEF ReplayInv, ProcessTypes
<1>5. ProcessTypes'
  BY <1>3, <1>4 DEF ReplayInv, ProcessTypes
<1>6. RestInv'
  BY <1>3 DEF ReplayInv, RestInv, Restored, Replaying, Kept
<1> QED
  BY <1>5, <1>6 DEF ReplayInv

\* What was declared whole is there.
LEMMA DeclaredRestored ==
  ASSUME NEW p \in Procs, NEW c, ~Refused(p, c), queues' = queues \cup Accepted(p, c)
  PROVE  Restored(p, c)'
<1>1. /\ Main(c) \in queues'
      /\ Options[p].declare_dead_letter_queues => Dead(c, Options[p]) \in queues'
  BY AcceptedAll
<1> QED
  BY <1>1, MainFacts, DeadFacts, ZenonT(60) DEF Restored, Kept

LEMMA ReplayDeclareOne ==
  ASSUME ReplayInv, NEW p \in Procs, DeclareOne(p)
  PROVE  ReplayInv'
<1>0. PICK config \in Known : config = Head(declaring[p])
  <2>1. declaring[p] \in Seq(Known) /\ declaring[p] # <<>>
    BY DEF DeclareOne, ReplayInv, ProcessTypes
  <2> QED
    BY <2>1
<1>1. /\ declaring[p] \in Seq(Known) /\ declaring[p] # <<>>
      /\ queues' = queues \cup Accepted(p, config)
      /\ UNCHANGED <<meddled, up, replaying, reported>>
  BY <1>0 DEF DeclareOne, faultVars, ReplayInv, ProcessTypes
<1>2. \A name : Kept(name) => Kept(name)'
  BY <1>1, KeptGrows
<1>3. CASE Refused(p, config)
  <2>1. declaring' = [declaring EXCEPT ![p] = <<>>] /\ UNCHANGED configs
    BY <1>0, <1>3 DEF DeclareOne
  <2>2. declaring' \in [Procs -> Seq(Known)]
    BY <2>1 DEF ReplayInv, ProcessTypes
  <2> QED
    BY <1>1, <1>2, <2>1, <2>2 DEF ReplayInv, ProcessTypes, RestInv, Restored, Replaying
<1>4. CASE ~Refused(p, config)
  <2>1. declaring' = [declaring EXCEPT ![p] = Tail(@)] /\ Remember(p, config)
    BY <1>0, <1>4 DEF DeclareOne
  <2>2. config \in Known /\ Tail(declaring[p]) \in Seq(Known)
    BY <1>1
  <2>3. declaring' \in [Procs -> Seq(Known)]
    BY <2>1, <2>2 DEF ReplayInv, ProcessTypes
  <2> DEFINE rest == {c \in configs[p] : c.name # config.name}
  <2>4. configs' = [configs EXCEPT ![p] = rest \cup {config}]
    BY <2>1 DEF Remember
  <2>5. configs' \in [Procs -> SUBSET Known]
    BY <2>2, <2>4 DEF ReplayInv, ProcessTypes
  <2>6. \A q \in Procs : IsFiniteSet(configs'[q])
    <3>1. IsFiniteSet(rest \cup {config})
      <4>1. IsFiniteSet(configs[p]) /\ rest \in SUBSET configs[p]
        BY DEF ReplayInv, ProcessTypes
      <4>2. IsFiniteSet(rest)
        BY <4>1, FS_Subset
      <4> QED
        BY <4>2, FS_AddElement
    <3> QED
      BY <2>4, <3>1 DEF ReplayInv, ProcessTypes
  <2>7. Restored(p, config)'
    BY <1>1, <1>4, DeclaredRestored
  <2>8. RestInv'
    <3> SUFFICES ASSUME NEW q \in Procs, up'[q], q \notin reported', NEW c \in configs'[q]
                 PROVE  (Restored(q, c) \/ Replaying(q, c))'
      BY DEF RestInv
    <3>1. (q = p /\ c = config) \/ c \in configs[q]
      BY <2>4 DEF ReplayInv, ProcessTypes
    <3>2. CASE c \in configs[q]
      BY <1>1, <1>2, <3>2 DEF ReplayInv, RestInv, Restored, Replaying
    <3> QED
      BY <2>7, <3>1, <3>2
  <2> QED
    BY <1>1, <2>3, <2>5, <2>6, <2>8 DEF ReplayInv, ProcessTypes
<1> QED
  BY <1>3, <1>4

LEMMA ReplayReconnect ==
  ASSUME ReplayInv, NEW p \in Procs, Reconnect(p)
  PROVE  ReplayInv'
<1>1. /\ up' = [up EXCEPT ![p] = TRUE]
      /\ UNCHANGED <<queues, configs, declaring, meddled>>
  BY DEF Reconnect, brokerVars, faultVars
<1>2. up' \in [Procs -> BOOLEAN]
  BY <1>1 DEF ReplayInv, ProcessTypes
<1>3. CASE /\ \E list \in SetToSeqs(configs[p]) : replaying' = [replaying EXCEPT ![p] = list]
           /\ reported' = reported \ {p}
  <2>1. PICK list \in SetToSeqs(configs[p]) : replaying' = [replaying EXCEPT ![p] = list]
    BY <1>3
  <2>2. /\ list \in Seq(configs[p])
        /\ \A x \in configs[p] : \E i \in DOMAIN list : list[i] = x
    BY SetToSeqsCovers DEF ReplayInv, ProcessTypes
  <2>3. list \in Seq(Known)
    BY <2>2 DEF ReplayInv, ProcessTypes
  <2>4. replaying' \in [Procs -> Seq(Known)]
    BY <2>1, <2>3 DEF ReplayInv, ProcessTypes
  <2>5. RestInv'
    <3> SUFFICES ASSUME NEW q \in Procs, up'[q], q \notin reported', NEW c \in configs'[q]
                 PROVE  (Restored(q, c) \/ Replaying(q, c))'
      BY DEF RestInv
    <3>1. CASE q = p
      BY <1>1, <2>1, <2>2, <3>1 DEF ReplayInv, ProcessTypes, Replaying
    <3>2. CASE q # p
      <4>1. up[q] /\ q \notin reported /\ c \in configs[q] /\ replaying'[q] = replaying[q]
        BY <1>1, <1>3, <2>1, <3>2 DEF ReplayInv, ProcessTypes
      <4>2. Restored(q, c) \/ Replaying(q, c)
        BY <4>1 DEF ReplayInv, RestInv
      <4> QED
        BY <1>1, <4>1, <4>2 DEF Restored, Replaying, Kept
    <3> QED
      BY <3>1, <3>2
  <2> QED
    BY <1>1, <1>2, <2>4, <2>5 DEF ReplayInv, ProcessTypes
<1>4. CASE reported' = reported \cup {p} /\ UNCHANGED replaying
  <2>1. RestInv'
    <3> SUFFICES ASSUME NEW q \in Procs, up'[q], q \notin reported', NEW c \in configs'[q]
                 PROVE  (Restored(q, c) \/ Replaying(q, c))'
      BY DEF RestInv
    <3>1. up[q] /\ q \notin reported /\ c \in configs[q]
      BY <1>1, <1>4 DEF ReplayInv, ProcessTypes
    <3>2. Restored(q, c) \/ Replaying(q, c)
      BY <3>1 DEF ReplayInv, RestInv
    <3> QED
      BY <1>1, <1>4, <3>2 DEF Restored, Replaying, Kept
  <2> QED
    BY <1>1, <1>2, <1>4, <2>1 DEF ReplayInv, ProcessTypes
<1> QED
  BY <1>3, <1>4 DEF Reconnect

LEMMA ReplayRedeclare ==
  ASSUME ReplayInv, NEW p \in Procs, Redeclare(p)
  PROVE  ReplayInv'
<1>0. PICK config \in Known : config = Head(replaying[p])
  <2>1. replaying[p] \in Seq(Known) /\ replaying[p] # <<>>
    BY DEF Redeclare, ReplayInv, ProcessTypes
  <2> QED
    BY <2>1
<1>1. /\ replaying[p] \in Seq(Known) /\ replaying[p] # <<>>
      /\ queues' = queues \cup Accepted(p, config)
      /\ UNCHANGED <<meddled, up, configs, declaring>>
  BY <1>0 DEF Redeclare, faultVars, ReplayInv, ProcessTypes
<1>2. \A name : Kept(name) => Kept(name)'
  BY <1>1, KeptGrows
<1>3. CASE Refused(p, config)
  <2>1. replaying' = [replaying EXCEPT ![p] = <<>>] /\ reported' = reported \cup {p}
    BY <1>0, <1>3 DEF Redeclare
  <2>2. replaying' \in [Procs -> Seq(Known)]
    BY <2>1 DEF ReplayInv, ProcessTypes
  <2> QED
    BY <1>1, <1>2, <2>1, <2>2 DEF ReplayInv, ProcessTypes, RestInv, Restored, Replaying
<1>4. CASE ~Refused(p, config)
  <2>1. replaying' = [replaying EXCEPT ![p] = Tail(@)] /\ UNCHANGED reported
    BY <1>0, <1>4 DEF Redeclare
  <2>2. Tail(replaying[p]) \in Seq(Known)
    BY <1>1
  <2>3. replaying' \in [Procs -> Seq(Known)]
    BY <2>1, <2>2 DEF ReplayInv, ProcessTypes
  <2>4. Restored(p, config)'
    BY <1>1, <1>4, DeclaredRestored
  <2>5. RestInv'
    <3> SUFFICES ASSUME NEW q \in Procs, up'[q], q \notin reported', NEW c \in configs'[q]
                 PROVE  (Restored(q, c) \/ Replaying(q, c))'
      BY DEF RestInv
    <3>1. Restored(q, c) \/ Replaying(q, c)
      BY <1>1, <2>1 DEF ReplayInv, RestInv
    <3>2. CASE Restored(q, c)
      BY <1>2, <3>2 DEF Restored
    <3>3. CASE Replaying(q, c) /\ q # p
      BY <2>1, <3>3 DEF Replaying, ReplayInv, ProcessTypes
    <3>4. CASE Replaying(q, c) /\ q = p /\ c # config
      <4> DEFINE s == replaying[p]
      <4>1. PICK i \in DOMAIN s : s[i] = c
        BY <3>4 DEF Replaying
      <4>2. i # 1 /\ i \in 1..Len(s)
        BY <1>0, <1>1, <3>4, <4>1
      <4>3. i - 1 \in DOMAIN Tail(s) /\ Tail(s)[i - 1] = c
        BY <1>1, <4>1, <4>2
      <4>4. replaying'[p] = Tail(s)
        BY <2>1 DEF ReplayInv, ProcessTypes
      <4> QED
        BY <3>4, <4>3, <4>4 DEF Replaying
    <3> QED
      BY <2>4, <3>1, <3>2, <3>3, <3>4
  <2> QED
    BY <1>1, <2>3, <2>5 DEF ReplayInv, ProcessTypes
<1> QED
  BY <1>3, <1>4

\* Who is cut off has nothing to replay, and whoever is still up is not cut off.
LEMMA CutTypes ==
  ASSUME ReplayInv, NEW P, Cut(P)
  PROVE  /\ declaring' \in [Procs -> Seq(Known)] /\ replaying' \in [Procs -> Seq(Known)]
         /\ \A p \in Procs : p \notin P => replaying'[p] = replaying[p]
BY DEF Cut, ReplayInv, ProcessTypes

LEMMA ReplayDrop ==
  ASSUME ReplayInv, NEW p \in Procs, Drop(p)
  PROVE  ReplayInv'
<1>1. up' = [up EXCEPT ![p] = FALSE] /\ UNCHANGED <<queues, configs, meddled, reported>> /\ Cut({p})
  BY DEF Drop
<1>2. ProcessTypes'
  BY <1>1, CutTypes DEF ReplayInv, ProcessTypes
<1>3. RestInv'
  <2> SUFFICES ASSUME NEW q \in Procs, up'[q], q \notin reported', NEW c \in configs'[q]
               PROVE  (Restored(q, c) \/ Replaying(q, c))'
    BY DEF RestInv
  <2>1. q # p
    BY <1>1 DEF ReplayInv, ProcessTypes
  <2>2. up[q] /\ q \notin reported /\ c \in configs[q] /\ replaying'[q] = replaying[q]
    BY <1>1, <2>1, CutTypes DEF ReplayInv, ProcessTypes
  <2>3. Restored(q, c) \/ Replaying(q, c)
    BY <2>2 DEF ReplayInv, RestInv
  <2> QED
    BY <1>1, <2>2, <2>3 DEF Restored, Replaying, Kept
<1> QED
  BY <1>2, <1>3 DEF ReplayInv

LEMMA ReplayCrash ==
  ASSUME ReplayInv, NEW p \in Procs, Crash(p)
  PROVE  ReplayInv'
<1>1. /\ up' = [up EXCEPT ![p] = TRUE] /\ configs' = [configs EXCEPT ![p] = {}]
      /\ UNCHANGED <<queues, meddled>> /\ Cut({p}) /\ reported' = reported \ {p}
  BY DEF Crash
<1>2. ProcessTypes'
  BY <1>1, CutTypes, FS_EmptySet DEF ReplayInv, ProcessTypes
<1>3. RestInv'
  <2> SUFFICES ASSUME NEW q \in Procs, up'[q], q \notin reported', NEW c \in configs'[q]
               PROVE  (Restored(q, c) \/ Replaying(q, c))'
    BY DEF RestInv
  <2>1. q # p
    BY <1>1 DEF ReplayInv, ProcessTypes
  <2>2. up[q] /\ q \notin reported /\ c \in configs[q] /\ replaying'[q] = replaying[q]
    BY <1>1, <2>1, CutTypes DEF ReplayInv, ProcessTypes
  <2>3. Restored(q, c) \/ Replaying(q, c)
    BY <2>2 DEF ReplayInv, RestInv
  <2> QED
    BY <1>1, <2>2, <2>3 DEF Restored, Replaying, Kept
<1> QED
  BY <1>2, <1>3 DEF ReplayInv

LEMMA ReplayRestart ==
  ASSUME ReplayInv, Restart
  PROVE  ReplayInv'
<1>1. up' = [p \in Procs |-> FALSE] /\ UNCHANGED configs /\ Cut(Procs)
  BY DEF Restart
<1>2. ProcessTypes'
  BY <1>1, CutTypes DEF ReplayInv, ProcessTypes
<1>3. RestInv'
  BY <1>1 DEF RestInv
<1> QED
  BY <1>2, <1>3 DEF ReplayInv

\* The broker deletes what deletes itself, and an operator's hand is remembered.
LEMMA DeleteKeeps ==
  ASSUME NEW d \in queues, DeleteUnused(d) \/ Meddle(d)
  PROVE  \A name : Kept(name) => Kept(name)'
<1>1. CASE DeleteUnused(d)
  BY <1>1 DEF DeleteUnused, faultVars, Kept
<1>2. CASE Meddle(d)
  BY <1>2 DEF Meddle, Kept
<1> QED
  BY <1>1, <1>2

\* All the other actions leave both alone.
LEMMA ReplayStep ==
  ASSUME ReplayInv, [Next]_vars
  PROVE  ReplayInv'
<1> USE DEF brokerVars, processVars, jobVars, faultVars
<1>1. CASE UNCHANGED vars
  BY <1>1, KeptGrows, ReplayQuiet DEF vars
<1>2. ASSUME NEW p \in Procs, Process(p)
      PROVE  ReplayInv'
  <2>1. CASE Declare(p)
    BY <2>1, ReplayDeclare
  <2>2. CASE DeclareOne(p)
    BY <2>2, ReplayDeclareOne
  <2>3. CASE Reconnect(p)
    BY <2>3, ReplayReconnect
  <2>4. CASE Redeclare(p)
    BY <2>4, ReplayRedeclare
  <2>5. CASE \E j \in Jobs : Enqueue(p, j)
    BY <2>5, KeptGrows, ReplayQuiet DEF Enqueue
  <2>6. CASE DeclareHold(p)
    BY <2>6, KeptGrows, ReplayQuiet DEF DeclareHold
  <2>7. CASE PublishConfirmed(p)
    BY <2>7, KeptGrows, ReplayQuiet DEF PublishConfirmed
  <2>8. CASE Interrupted(p)
    BY <2>8, KeptGrows, ReplayQuiet DEF Interrupted
  <2>9. CASE Receive(p)
    BY <2>9, KeptGrows, ReplayQuiet DEF Receive
  <2>10. CASE Handled(p)
    BY <2>10, KeptGrows, ReplayQuiet DEF Handled
  <2>11. CASE Settle(p)
    BY <2>11, KeptGrows, ReplayQuiet DEF Settle
  <2>12. CASE Wait(p)
    BY <2>12, KeptGrows, ReplayQuiet DEF Wait
  <2> QED
    BY <1>2, <2>1, <2>2, <2>3, <2>4, <2>5, <2>6, <2>7, <2>8, <2>9, <2>10, <2>11, <2>12
       DEF Process
<1>3. ASSUME NEW j \in Jobs, Scribble(j)
      PROVE  ReplayInv'
  BY <1>3, KeptGrows, ReplayQuiet DEF Scribble
<1>4. ASSUME NEW c \in DOMAIN store, Release(c) \/ Expire(c)
      PROVE  ReplayInv'
  <2>1. CASE Release(c)
    BY <2>1, KeptGrows, ReplayQuiet DEF Release
  <2>2. CASE Expire(c)
    BY <2>2, KeptGrows, ReplayQuiet DEF Expire
  <2> QED
    BY <1>4, <2>1, <2>2
<1>5. ASSUME NEW d \in queues, DeleteUnused(d) \/ Meddle(d)
      PROVE  ReplayInv'
  <2>1. UNCHANGED <<up, configs, declaring, replaying, reported>>
    BY <1>5 DEF DeleteUnused, Meddle
  <2> QED
    BY <1>5, <2>1, DeleteKeeps, ReplayQuiet
<1> QED
  BY <1>1, <1>2, <1>3, <1>4, <1>5, ReplayDrop, ReplayCrash, ReplayRestart DEF Next, Broker

\* While a process is up and reported nothing, each queue it declared is there or still
\* on the list that redeclare goes through.
THEOREM ReplayInvariance == Spec => []ReplayInv
<1>1. Init => ReplayInv
  BY FS_EmptySet DEF Init, ReplayInv, ProcessTypes, RestInv
<1>2. ReplayInv /\ [Next]_vars => ReplayInv'
  BY ReplayStep
<1> QED
  BY <1>1, <1>2, PTL DEF Spec

\* RestoredOrReported for every number of processes and queues: when redeclare is
\* through and logged no error, every queue the process declared is there again, or an
\* operator took it away.
THEOREM ReplayRestores == Spec => []RestoredOrReported
<1>1. ReplayInv => RestoredOrReported
  <2> SUFFICES ASSUME ReplayInv, NEW p \in Procs, up[p], replaying[p] = <<>>, p \notin reported,
                      NEW c \in configs[p]
               PROVE  /\ Exists(c.name) \/ c.name \in meddled
                      /\ Options[p].declare_dead_letter_queues =>
                           Exists(DeadName(c, p)) \/ DeadName(c, p) \in meddled
    BY DEF RestoredOrReported, DeadName
  <2>1. ~Replaying(p, c)
    BY DEF Replaying
  <2>2. Restored(p, c)
    BY <2>1 DEF ReplayInv, RestInv
  <2> QED
    BY <2>2 DEF Restored, Kept, Exists
<1> QED
  BY <1>1, ReplayInvariance, PTL

-----------------------------------------------------------------------------
(***************************************************************************)
(* Names.  From here on queues are called apart.                           *)
(***************************************************************************)
Mains == {Main(c) : c \in Known}
Deads == {Dead(c, Options[p]) : c \in Known, p \in Procs}
Holds == {HoldQueue(c, Options[p], ttl) : c \in Known, p \in Procs, ttl \in Ttls}

\* So is the queue of a job.
LEMMA JobsKnown == \A j \in Jobs : QueueOf[j] \in Known
BY DEF Known

\* A queue's name says which queue it is.
LEMMA OwnCases ==
  ASSUME NEW d \in Mains \cup Deads \cup Holds
  PROVE  \/ \E b \in Known : d = Main(b) /\ d.name = b.name
         \/ d \in Deads /\ \E b \in Known, q \in Procs : d.name = DeadName(b, q)
         \/ \E b \in Known, q \in Procs, other \in Ttls :
              d = HoldQueue(b, Options[q], other) /\ d.name = HoldName(b, q, other)
<1>1. CASE d \in Mains
  <2>1. PICK b \in Known : d = Main(b)
    BY <1>1 DEF Mains
  <2>2. d.name = b.name
    BY <2>1, MainFacts
  <2> QED
    BY <2>1, <2>2
<1>2. CASE d \in Deads
  <2>1. PICK b \in Known, q \in Procs : d = Dead(b, Options[q])
    BY <1>2 DEF Deads
  <2>2. d.name = DeadName(b, q)
    BY <2>1, DeadFacts
  <2> QED
    BY <1>2, <2>2
<1>3. CASE d \in Holds
  <2>1. PICK b \in Known, q \in Procs, other \in Ttls : d = HoldQueue(b, Options[q], other)
    BY <1>3 DEF Holds
  <2>2. d.name = HoldName(b, q, other)
    BY <2>1, HoldFacts
  <2> QED
    BY <2>1, <2>2
<1> QED
  BY <1>1, <1>2, <1>3

\* NamesApart, one clause at a time.
LEMMA NameGiven ==
  ASSUME NamesApart
  PROVE  \A b \in Known : b.name # ""
BY Zenon DEF NamesApart

LEMMA OneConfig ==
  ASSUME NamesApart
  PROVE  \A b, c \in Known : b.name = c.name => b = c
BY Zenon DEF NamesApart

LEMMA DeadApart ==
  ASSUME NamesApart
  PROVE  \A b, c \in Known : \A p \in Procs : DeadName(b, p) # c.name
BY Zenon DEF NamesApart

LEMMA HoldApart ==
  ASSUME NamesApart, NEW b \in Known, NEW c \in Known, NEW p \in Procs, NEW q \in Procs,
         NEW ttl \in Ttls
  PROVE  /\ HoldName(b, p, ttl) # c.name
         /\ HoldName(b, p, ttl) # DeadName(c, q)
         /\ \A other \in Ttls :
              HoldName(b, p, ttl) = HoldName(c, q, other) => b.name = c.name /\ ttl = other
<1>1. \A e, f \in Known : \A r, s \in Procs : \A t \in Ttls :
        /\ HoldName(e, r, t) # f.name
        /\ HoldName(e, r, t) # DeadName(f, s)
        /\ \A other \in Ttls :
             HoldName(e, r, t) = HoldName(f, s, other) => e.name = f.name /\ t = other
  BY Zenon DEF NamesApart
<1> QED
  BY <1>1

\* What is called like a queue is that queue, and likewise for the other kinds.
LEMMA MainByName ==
  ASSUME NamesApart, NEW c \in Known, NEW d \in Mains \cup Deads \cup Holds, d.name = c.name
  PROVE  d = Main(c)
<1>1. CASE \E b \in Known : d = Main(b) /\ d.name = b.name
  BY <1>1, OneConfig
<1>2. ~\E b \in Known, q \in Procs : d.name = DeadName(b, q)
  BY DeadApart
<1>3. ~\E b \in Known, q \in Procs, other \in Ttls : d.name = HoldName(b, q, other)
  BY HoldApart
<1> QED
  BY <1>1, <1>2, <1>3, OwnCases

LEMMA DeadByName ==
  ASSUME NamesApart, NEW c \in Known, NEW p \in Procs,
         NEW d \in Mains \cup Deads \cup Holds, d.name = DeadName(c, p)
  PROVE  d \in Deads
<1>1. ~\E b \in Known : d.name = b.name
  BY DeadApart
<1>2. ~\E b \in Known, q \in Procs, other \in Ttls : d.name = HoldName(b, q, other)
  BY HoldApart
<1> QED
  BY <1>1, <1>2, OwnCases

\* A hold queue's arguments depend only on its name.
LEMMA HoldByName ==
  ASSUME NamesApart, NEW c \in Known, NEW p \in Procs, NEW ttl \in Ttls,
         NEW d \in Mains \cup Deads \cup Holds, d.name = HoldName(c, p, ttl)
  PROVE  d = HoldQueue(c, Options[p], ttl)
<1>1. ~\E b \in Known : d.name = b.name
  BY HoldApart
<1>2. ~\E b \in Known, q \in Procs : d.name = DeadName(b, q)
  BY HoldApart
<1>3. PICK b \in Known, q \in Procs, other \in Ttls :
        d = HoldQueue(b, Options[q], other) /\ d.name = HoldName(b, q, other)
  BY <1>1, <1>2, OwnCases
<1>4. c.name = b.name /\ ttl = other
  BY <1>3, HoldApart
<1>5. b = c
  BY <1>4, OneConfig
<1>6. HoldName(c, q, ttl) = HoldName(c, p, ttl)
  BY <1>3, <1>4, <1>5
<1> QED
  BY <1>3, <1>4, <1>5, <1>6 DEF HoldQueue, HoldName

\* What the broker may do to a job's message, going by the queue it is on.
LEMMA OwnFacts ==
  ASSUME NamesApart, NEW j \in Jobs, NEW d \in Mains \cup Deads \cup Holds, OfJob(j, d.name)
  PROVE  /\ ~d.options.durable => ~QueueOf[j].durable
         /\ d.args.dead_letter_to = "" /\ d.args.message_ttl # Absent => QueueOf[j].message_ttl # {}
         /\ d.args.dead_letter_to # "" =>
              /\ d.args.dead_letter_to = QueueOf[j].name
              /\ \E p \in Procs, ttl \in Ttls : d = HoldQueue(QueueOf[j], Options[p], ttl)
<1> DEFINE c == QueueOf[j]
<1>0. c \in Known
  BY JobsKnown
<1> HIDE DEF c
<1>1. CASE d.name = c.name
  <2>1. d = Main(c)
    BY <1>0, <1>1, MainByName
  <2>2. d.options.durable = c.durable /\ d.args.dead_letter_to = ""
        /\ (c.message_ttl = {} => d.args.message_ttl = Absent)
    BY <2>1, MainFacts
  <2> QED
    BY <2>2 DEF c
<1>2. ASSUME NEW p \in Procs, d.name = DeadName(c, p)
      PROVE  /\ d.options.durable = TRUE
             /\ d.args.dead_letter_to = "" /\ d.args.message_ttl = Absent
  <2>1. d \in Deads
    BY <1>0, <1>2, DeadByName
  <2>2. PICK b \in Known, q \in Procs : d = Dead(b, Options[q])
    BY <2>1 DEF Deads
  <2> QED
    BY <2>2, DeadFacts
<1>3. ASSUME NEW p \in Procs, NEW ttl \in Ttls, d.name = HoldName(c, p, ttl)
      PROVE  /\ d = HoldQueue(c, Options[p], ttl)
             /\ d.options.durable = c.durable
             /\ d.args.dead_letter_to = c.name /\ c.name # ""
  <2>1. d = HoldQueue(c, Options[p], ttl)
    BY <1>0, <1>3, HoldByName
  <2>2. c.name # ""
    BY <1>0, NameGiven
  <2>3. d.options.durable = c.durable /\ d.args.dead_letter_to = c.name
    BY <2>1, HoldFacts
  <2> QED
    BY <2>1, <2>2, <2>3, Zenon
<1>4. \/ d.name = c.name
      \/ \E p \in Procs : d.name = DeadName(c, p)
      \/ \E p \in Procs, ttl \in Ttls : d.name = HoldName(c, p, ttl)
  BY DEF OfJob, c, DeadName, HoldName
<1> QED
  BY <1>1, <1>2, <1>3, <1>4 DEF c

-----------------------------------------------------------------------------
(***************************************************************************)
(* The inductive invariant.                                                *)
(***************************************************************************)
AnyEnvelope == [job : Jobs, attempt : Nat, deferrals : Nat, priority : Nat]

\* Why a job may be gone from the broker.
Excused(j) ==
  \/ j \in done \cup rejected
  \/ QueueOf[j].message_ttl # {}
  \/ ~QueueOf[j].durable /\ restarts > 0
  \/ \E name \in meddled : OfJob(j, name)

\* A queue is one that processes declare, or what an operator put in its place.
QueueInv ==
  \A d \in queues :
    \/ d \in Mains \cup Deads \cup Holds
    \/ d.name \in meddled /\ \E hand \in Meddling : d \in hand.by

\* A task sends on the job it works for, to one of that job's queues.
HoldsFor(d, j) == \E p \in Procs, ttl \in Ttls : d = HoldQueue(QueueOf[j], Options[p], ttl)

TaskOk(t) ==
  /\ t = Task(t.op, t.at, t.msg, t.sends, t.to, t.live)
  /\ t.msg.env \in AnyEnvelope /\ t.sends.env \in AnyEnvelope /\ Job(t.sends) = Job(t.msg)
  /\ OfJob(Job(t.msg), t.to.name)
  /\ t.at = "declare" => HoldsFor(t.to, Job(t.msg))

TaskInv ==
  /\ task = [p \in Procs |-> task[p]]
  /\ \A p \in Procs : task[p].at = "idle" \/ TaskOk(task[p])

\* A message is on one of its job's queues.
CopyOk(c) ==
  /\ c = [queue |-> c.queue, msg |-> c.msg, holder |-> c.holder]
  /\ c.msg.env \in AnyEnvelope

CopySound(c) == CopyOk(c) /\ (OfJob(Job(c.msg), c.queue) \/ Excused(Job(c.msg)))

CopyInv == \A c \in DOMAIN store : CopySound(c)

\* Behind every hold queue, or a task about to declare one, is the queue it returns to.
KeptOr(c) == Kept(c.name) \/ (~c.durable /\ restarts > 0)

ConfigsKept == \A p \in Procs : \A c \in configs[p] : KeptOr(c)
HoldsKept ==
  \A d \in queues : \A j \in Jobs :
    HoldsFor(d, j) => KeptOr(QueueOf[j]) \/ d.name \in meddled
TasksKept == \A p \in Procs : task[p].at = "declare" => KeptOr(QueueOf[Job(task[p].msg)])

MainInv == ConfigsKept /\ HoldsKept /\ TasksKept

\* The delivery of a task that is about to ack it because its successor is stored.
Spent(c) ==
  \E p \in Procs : /\ c.holder = p
                   /\ task[p].at = "settle" /\ task[p].op \notin {"ack", "reject"}
                   /\ Job(c.msg) = Job(task[p].msg)

Has(j) == \E c \in DOMAIN store : Job(c.msg) = j /\ ~Spent(c)

\* A job whose message waited too long for its hold queue to be sure of its release.
Lapsed(j) == \E c \in late : Job(c.msg) = j

SafeInv == \A j \in accepted : Excused(j) \/ Lapsed(j) \/ Has(j)

IInv ==
  /\ ReplayInv
  /\ restarts \in Nat /\ accepted \subseteq Jobs
  /\ QueueInv /\ TaskInv /\ CopyInv /\ MainInv /\ SafeInv

-----------------------------------------------------------------------------
(***************************************************************************)
(* Messages, tasks and bags.                                               *)
(***************************************************************************)
\* A retry and a deferral are of the same job.
LEMMA EnvelopeFacts ==
  ASSUME NEW e \in AnyEnvelope
  PROVE  /\ NextAttempt(e) \in AnyEnvelope /\ NextAttempt(e).job = e.job
         /\ Deferred(e) \in AnyEnvelope /\ Deferred(e).job = e.job
<1>1. MaxPriority \in Nat
  BY EnvelopeAssumption
<1>2. e.attempt + 1 \in Nat /\ e.deferrals + 1 \in Nat
  BY DEF AnyEnvelope
<1>3. NextAttempt(e) \in AnyEnvelope
  BY <1>2 DEF AnyEnvelope, NextAttempt
<1>4. NextAttempt(e).job = e.job
  BY DEF AnyEnvelope, NextAttempt
<1>5. Deferred(e) \in AnyEnvelope
  BY <1>1, <1>2 DEF AnyEnvelope, Deferred
<1>6. Deferred(e).job = e.job
  BY DEF AnyEnvelope, Deferred
<1> QED
  BY <1>3, <1>4, <1>5, <1>6

\* A new envelope is of its job.
LEMMA NewFacts ==
  ASSUME NEW j \in Jobs
  PROVE  /\ NewEnvelope(j) \in AnyEnvelope /\ NewEnvelope(j).job = j
         /\ NewDeferred(j) \in AnyEnvelope /\ NewDeferred(j).job = j
BY EnvelopeAssumption DEF EnvelopeAssumption, AnyEnvelope, NewEnvelope, NewDeferred

\* A message carries its envelope, wherever it goes.
LEMMA MessageFacts ==
  ASSUME NEW e, NEW queue, NEW reason
  PROVE  /\ props_for(e).env = e
         /\ dead_letter_props(e, queue, reason).env = e
         /\ malformed_props(e, queue).env = e
BY DEF props_for, dead_letter_props, malformed_props

\* Tasks are records, and changing one is making another.
LEMMA TaskFields ==
  ASSUME NEW op, NEW at, NEW msg, NEW sends, NEW to, NEW live
  PROVE  LET t == Task(op, at, msg, sends, to, live)
         IN  /\ t.op = op /\ t.at = at /\ t.msg = msg /\ t.sends = sends /\ t.to = to
             /\ t.live = live
BY DEF Task

\* The changes of a task that is going on.
At(t, x)    == [t EXCEPT !.at = x]
As(t, y, x) == [t EXCEPT !.op = y, !.at = x]
Off(t)      == [t EXCEPT !.live = FALSE]

LEMMA TaskAt ==
  ASSUME NEW op, NEW at, NEW msg, NEW sends, NEW to, NEW live, NEW x
  PROVE  At(Task(op, at, msg, sends, to, live), x) = Task(op, x, msg, sends, to, live)
BY DEF Task, At

LEMMA TaskAs ==
  ASSUME NEW op, NEW at, NEW msg, NEW sends, NEW to, NEW live, NEW x, NEW y
  PROVE  As(Task(op, at, msg, sends, to, live), y, x) = Task(y, x, msg, sends, to, live)
<1>1. ASSUME NEW o
      PROVE  At(Task(o, at, msg, sends, to, live), x) = Task(o, x, msg, sends, to, live)
  BY DEF Task, At
<1>2. [Task(op, at, msg, sends, to, live) EXCEPT !.op = y] = Task(y, at, msg, sends, to, live)
  BY DEF Task
<1>3. \A t : As(t, y, x) = At([t EXCEPT !.op = y], x)
  BY DEF At, As
<1> QED
  BY <1>1, <1>2, <1>3, Zenon

LEMMA TaskOff ==
  ASSUME NEW op, NEW at, NEW msg, NEW sends, NEW to, NEW live
  PROVE  Off(Task(op, at, msg, sends, to, live)) = Task(op, at, msg, sends, to, FALSE)
<1>1. ASSUME NEW z
      PROVE  [Task(op, at, msg, sends, to, live) EXCEPT !.live = z] = Task(op, at, msg, sends, to, z)
  BY DEF Task
<1> QED
  BY <1>1, Zenon DEF Off

\* Which copies there are after a publish and after an ack.
LEMMA AddDomain ==
  ASSUME NEW B, NEW x
  PROVE  DOMAIN BagAdd(B, x) = DOMAIN B \cup {x}
BY DEF BagAdd

LEMMA RemoveDomain ==
  ASSUME NEW B, NEW x
  PROVE  /\ DOMAIN BagRemove(B, x) \subseteq DOMAIN B
         /\ \A y \in DOMAIN B : y # x => y \in DOMAIN BagRemove(B, x)
BY DEF BagRemove

\* What becomes of a copy when the processes in gone are disconnected.
Back(c, gone) ==
  IF c.holder \in gone THEN [queue |-> c.queue, msg |-> c.msg, holder |-> Nobody] ELSE c

Left(names, gone) == {Back(c, gone) : c \in {e \in DOMAIN store : e.queue \notin names}}

LEMMA WithoutDomain ==
  ASSUME CopyInv, NEW names, NEW gone
  PROVE  DOMAIN Without(names, gone) = Left(names, gone)
<1> DEFINE left == {e \in DOMAIN store : e.queue \notin names}
<1>1. DOMAIN Without(names, gone) = {Ready(c, gone) : c \in left}
  BY DEF Without
<1>2. \A c \in left : Ready(c, gone) = Back(c, gone)
  <2> SUFFICES ASSUME NEW c \in DOMAIN store
               PROVE  [c EXCEPT !.holder = Nobody]
                        = [queue |-> c.queue, msg |-> c.msg, holder |-> Nobody]
    BY DEF Back, Ready
  <2>1. c = [queue |-> c.queue, msg |-> c.msg, holder |-> c.holder]
    BY DEF CopyInv, CopySound, CopyOk
  <2> QED
    BY <2>1
<1> QED
  BY <1>1, <1>2 DEF Left

\* A copy that comes back is of the same message on the same queue.
LEMMA BackFacts ==
  ASSUME NEW c, CopyOk(c), NEW gone
  PROVE  /\ CopyOk(Back(c, gone)) /\ Back(c, gone).queue = c.queue /\ Back(c, gone).msg = c.msg
         /\ Back(c, gone).holder = c.holder \/ Back(c, gone).holder = Nobody
         /\ c.holder \in gone => Back(c, gone).holder = Nobody
BY DEF Back, CopyOk

-----------------------------------------------------------------------------
(***************************************************************************)
(* What only grows.                                                        *)
(***************************************************************************)
\* Nothing that happened is forgotten.
LEMMA Growing ==
  ASSUME restarts \in Nat, accepted \subseteq Jobs, TaskInv, [Next]_vars
  PROVE  /\ done \subseteq done' /\ rejected \subseteq rejected' /\ meddled \subseteq meddled'
         /\ accepted \subseteq accepted'
         /\ restarts' \in Nat /\ restarts <= restarts'
         /\ accepted' \subseteq Jobs
<1> USE DEF brokerVars, processVars, jobVars, faultVars
<1>1. CASE UNCHANGED vars
  BY <1>1 DEF vars
<1>2. ASSUME NEW p \in Procs, PublishConfirmed(p)
      PROVE  UNCHANGED <<done, rejected, meddled, restarts>> /\ accepted \subseteq accepted'
             /\ accepted' \subseteq Jobs
  <2>1. UNCHANGED <<done, rejected, meddled, restarts>>
    BY <1>2 DEF PublishConfirmed
  <2>2. accepted' = accepted \/ accepted' = accepted \cup {Job(task[p].msg)}
    BY <1>2 DEF PublishConfirmed, Confirmed
  <2>3. task[p].at \in {"publish", "late"}
    BY <1>2 DEF PublishConfirmed
  <2>4. Job(task[p].msg) \in Jobs
    BY <2>3 DEF TaskInv, TaskOk, Job, AnyEnvelope
  <2> QED
    BY <2>1, <2>2, <2>4
<1>3. ASSUME NEW p \in Procs, Process(p)
      PROVE  UNCHANGED <<meddled, restarts>> /\ done \subseteq done' /\ rejected \subseteq rejected'
             /\ accepted \subseteq accepted' /\ accepted' \subseteq Jobs
  <2>1. CASE Declare(p)
    BY <2>1 DEF Declare
  <2>2. CASE DeclareOne(p)
    BY <2>2 DEF DeclareOne
  <2>3. CASE Reconnect(p)
    BY <2>3 DEF Reconnect
  <2>4. CASE Redeclare(p)
    BY <2>4 DEF Redeclare
  <2>5. CASE \E j \in Jobs : Enqueue(p, j)
    BY <2>5 DEF Enqueue
  <2>6. CASE DeclareHold(p)
    BY <2>6 DEF DeclareHold
  <2>8. CASE Interrupted(p)
    BY <2>8 DEF Interrupted
  <2>9. CASE Receive(p)
    BY <2>9 DEF Receive
  <2>10. CASE Handled(p)
    BY <2>10 DEF Handled
  <2>11. CASE Settle(p)
    BY <2>11 DEF Settle
  <2>12. CASE Wait(p)
    BY <2>12 DEF Wait
  <2> QED
    BY <1>2, <1>3, <2>1, <2>2, <2>3, <2>4, <2>5, <2>6, <2>8, <2>9, <2>10, <2>11, <2>12
       DEF Process
<1>4. ASSUME NEW p \in Procs, Drop(p) \/ Crash(p)
      PROVE  UNCHANGED <<done, rejected, accepted, meddled, restarts>>
  BY <1>4 DEF Drop, Crash
<1>5. ASSUME NEW j \in Jobs, Scribble(j)
      PROVE  UNCHANGED <<done, rejected, meddled, restarts>> /\ accepted' = accepted \cup {j}
  BY <1>5 DEF Scribble
<1>6. ASSUME NEW c, Release(c) \/ Expire(c)
      PROVE  UNCHANGED <<done, rejected, accepted, meddled, restarts>>
  BY <1>6 DEF Release, Expire
<1>7. ASSUME NEW d, DeleteUnused(d) \/ Meddle(d)
      PROVE  UNCHANGED <<done, rejected, accepted, restarts>> /\ meddled \subseteq meddled'
  BY <1>7 DEF DeleteUnused, Meddle
<1>8. ASSUME Restart
      PROVE  UNCHANGED <<done, rejected, accepted, meddled>> /\ restarts' = restarts + 1
  BY <1>8 DEF Restart
<1> QED
  BY <1>1, <1>3, <1>4, <1>5, <1>6, <1>7, <1>8 DEF Next, Broker

\* So an excuse is good for ever.
LEMMA ExcusedStays ==
  ASSUME restarts \in Nat, restarts' \in Nat, restarts <= restarts',
         done \subseteq done', rejected \subseteq rejected', meddled \subseteq meddled'
  PROVE  \A j : Excused(j) => Excused(j)'
BY DEF Excused

-----------------------------------------------------------------------------
(***************************************************************************)
(* Queues.  Every step but a few leaves them alone or adds what processes  *)
(* declare.                                                                *)
(***************************************************************************)
\* The steps that take queues away.
Taking == Restart \/ \E d \in queues : DeleteUnused(d) \/ Meddle(d)

\* What is added is a queue and its dead-letter queue, or a hold queue that a task is for.
LEMMA QueuesAdded ==
  ASSUME IInv, [Next]_vars, ~Taking
  PROVE  /\ queues \subseteq queues' /\ UNCHANGED <<meddled, restarts>>
         /\ \A d \in queues' \ queues :
              \/ d \in Mains \cup Deads
              \/ \E p \in Procs : task[p].at = "declare" /\ d = task[p].to
<1> USE DEF brokerVars, processVars, jobVars, faultVars
<1> DEFINE Adds ==
             /\ queues \subseteq queues' /\ UNCHANGED <<meddled, restarts>>
             /\ \A d \in queues' \ queues :
                  \/ d \in Mains \cup Deads
                  \/ \E p \in Procs : task[p].at = "declare" /\ d = task[p].to
<1>1. CASE UNCHANGED vars
  BY <1>1 DEF vars
<1>2. ASSUME NEW p \in Procs, NEW c \in Known, queues' = queues \cup Accepted(p, c)
      PROVE  queues \subseteq queues' /\ queues' \ queues \subseteq Mains \cup Deads
  <2>1. Main(c) \in Mains /\ Dead(c, Options[p]) \in Deads
    BY DEF Mains, Deads
  <2> QED
    BY <1>2, <2>1, AcceptedSome
<1>3. ASSUME NEW p \in Procs, Process(p)
      PROVE  Adds
  <2>1. CASE Declare(p)
    BY <2>1 DEF Declare
  <2>2. CASE DeclareOne(p)
    <3>1. declaring[p] \in Seq(Known) /\ declaring[p] # <<>>
      BY <2>2 DEF DeclareOne, IInv, ReplayInv, ProcessTypes
    <3>2. Head(declaring[p]) \in Known
      BY <3>1
    <3>3. queues' = queues \cup Accepted(p, Head(declaring[p])) /\ UNCHANGED <<meddled, restarts>>
      BY <2>2 DEF DeclareOne
    <3> QED
      BY <1>2, <3>2, <3>3
  <2>3. CASE Reconnect(p)
    BY <2>3 DEF Reconnect
  <2>4. CASE Redeclare(p)
    <3>1. replaying[p] \in Seq(Known) /\ replaying[p] # <<>>
      BY <2>4 DEF Redeclare, IInv, ReplayInv, ProcessTypes
    <3>2. Head(replaying[p]) \in Known
      BY <3>1
    <3>3. queues' = queues \cup Accepted(p, Head(replaying[p])) /\ UNCHANGED <<meddled, restarts>>
      BY <2>4 DEF Redeclare
    <3> QED
      BY <1>2, <3>2, <3>3
  <2>5. CASE \E j \in Jobs : Enqueue(p, j)
    BY <2>5 DEF Enqueue
  <2>6. CASE DeclareHold(p)
    BY <2>6 DEF DeclareHold
  <2>7. CASE PublishConfirmed(p)
    BY <2>7 DEF PublishConfirmed
  <2>8. CASE Interrupted(p)
    BY <2>8 DEF Interrupted
  <2>9. CASE Receive(p)
    BY <2>9 DEF Receive
  <2>10. CASE Handled(p)
    BY <2>10 DEF Handled
  <2>11. CASE Settle(p)
    BY <2>11 DEF Settle
  <2>12. CASE Wait(p)
    BY <2>12 DEF Wait
  <2> QED
    BY <1>3, <2>1, <2>2, <2>3, <2>4, <2>5, <2>6, <2>7, <2>8, <2>9, <2>10, <2>11, <2>12
       DEF Process
<1>4. ASSUME NEW p \in Procs, Drop(p) \/ Crash(p)
      PROVE  Adds
  BY <1>4 DEF Drop, Crash
<1>5. ASSUME NEW j \in Jobs, Scribble(j)
      PROVE  Adds
  BY <1>5 DEF Scribble
<1>6. ASSUME NEW c, Release(c) \/ Expire(c)
      PROVE  Adds
  BY <1>6 DEF Release, Expire
<1> QED
  BY <1>1, <1>3, <1>4, <1>5, <1>6 DEF Next, Broker, Taking

\* A job's hold queue is one that processes declare.
LEMMA HoldsForHolds ==
  ASSUME NEW d, NEW j \in Jobs, HoldsFor(d, j)
  PROVE  d \in Holds
BY JobsKnown DEF HoldsFor, Holds

\* A hold queue is for the jobs of one queue.
LEMMA HoldsForOne ==
  ASSUME NamesApart, NEW d, NEW j \in Jobs, NEW k \in Jobs, HoldsFor(d, j), HoldsFor(d, k)
  PROVE  QueueOf[j] = QueueOf[k]
<1>1. PICK p \in Procs, ttl \in Ttls : d = HoldQueue(QueueOf[j], Options[p], ttl)
  BY DEF HoldsFor
<1>2. PICK q \in Procs, other \in Ttls : d = HoldQueue(QueueOf[k], Options[q], other)
  BY DEF HoldsFor
<1>3. d.name = HoldName(QueueOf[j], p, ttl)
  BY <1>1, HoldFacts
<1>4. d.name = HoldName(QueueOf[k], q, other)
  BY <1>2, HoldFacts
<1> DEFINE b == QueueOf[j]
           c == QueueOf[k]
<1>0. b \in Known /\ c \in Known /\ HoldName(b, p, ttl) = HoldName(c, q, other)
  BY <1>3, <1>4, JobsKnown
<1> HIDE DEF b, c
<1>5. b.name = c.name
  BY <1>0, HoldApart
<1> USE DEF b, c
<1> QED
  BY <1>5, JobsKnown, OneConfig

\* Every queue is one that processes declare, or an operator put it there.
LEMMA QueueStep ==
  ASSUME IInv, [Next]_vars
  PROVE  QueueInv'
<1>0. \A p \in Procs : task[p].at = "declare" => task[p].to \in Holds
  <2> SUFFICES ASSUME NEW p \in Procs, task[p].at = "declare"
               PROVE  task[p].to \in Holds
    OBVIOUS
  <2>1. TaskOk(task[p])
    BY DEF IInv, TaskInv
  <2>2. Job(task[p].msg) \in Jobs /\ HoldsFor(task[p].to, Job(task[p].msg))
    BY <2>1 DEF TaskOk, Job, AnyEnvelope
  <2> QED
    BY <2>2, HoldsForHolds
<1>1. CASE ~Taking
  BY <1>0, <1>1, QueuesAdded DEF QueueInv, IInv
<1>2. CASE Restart
  BY <1>2 DEF Restart, QueueInv, IInv
<1>3. ASSUME NEW d \in queues, DeleteUnused(d)
      PROVE  QueueInv'
  BY <1>3 DEF DeleteUnused, faultVars, QueueInv, IInv
<1>4. ASSUME NEW d \in queues, Meddle(d)
      PROVE  QueueInv'
  <2>1. PICK hand \in Meddling : hand.queue = d.name /\ queues' = (queues \ {d}) \cup hand.by
    BY <1>4 DEF Meddle
  <2>2. meddled' = meddled \cup {d.name}
    BY <1>4 DEF Meddle
  <2>3. \A e \in hand.by : e.name = d.name
    BY <2>1, RabbitMqAssumption DEF RabbitMqAssumption
  <2> QED
    BY <2>1, <2>2, <2>3 DEF QueueInv, IInv
<1> QED
  BY <1>1, <1>2, <1>3, <1>4 DEF Taking

\* A queue that was declared stays, or an operator or a restart took it.
LEMMA KeptStays ==
  ASSUME NamesApart, IInv, [Next]_vars
  PROVE  \A c \in Known : KeptOr(c) => KeptOr(c)'
<1>0. restarts' \in Nat /\ restarts <= restarts' /\ restarts \in Nat
  BY Growing DEF IInv
<1>1. ASSUME \A name : Kept(name) => Kept(name)'
      PROVE  \A c \in Known : KeptOr(c) => KeptOr(c)'
  BY <1>0, <1>1 DEF KeptOr
<1>2. CASE ~Taking
  BY <1>1, <1>2, QueuesAdded, KeptGrows
<1>3. CASE \E d \in queues : DeleteUnused(d) \/ Meddle(d)
  BY <1>1, <1>3, DeleteKeeps
<1>4. CASE Restart
  <2> SUFFICES ASSUME NEW c \in Known, KeptOr(c)
               PROVE  KeptOr(c)'
    OBVIOUS
  <2>1. /\ restarts' = restarts + 1 /\ UNCHANGED meddled
        /\ queues' = queues \ {d \in queues : ~d.options.durable}
    BY <1>4 DEF Restart
  <2>2. CASE c.name \in meddled \/ (~c.durable /\ restarts > 0)
    BY <1>0, <2>1, <2>2 DEF KeptOr, Kept
  <2>3. CASE \E d \in queues : d.name = c.name /\ d.args.expires = Absent
    <3>1. PICK d \in queues : d.name = c.name /\ d.args.expires = Absent
      BY <2>3
    <3>2. CASE d.name \in meddled
      BY <2>1, <3>1, <3>2 DEF KeptOr, Kept
    <3>3. CASE d \in Mains \cup Deads \cup Holds
      <4>1. d = Main(c)
        BY <3>1, <3>3, MainByName
      <4>2. d.options.durable = c.durable
        BY <4>1, MainFacts
      <4>3. CASE c.durable
        BY <2>1, <3>1, <4>2, <4>3 DEF KeptOr, Kept
      <4>4. CASE ~c.durable
        BY <1>0, <2>1, <4>4 DEF KeptOr
      <4> QED
        BY <4>3, <4>4
    <3> QED
      BY <3>2, <3>3 DEF IInv, QueueInv
  <2> QED
    BY <2>2, <2>3 DEF KeptOr, Kept
<1> QED
  BY <1>2, <1>3, <1>4 DEF Taking

-----------------------------------------------------------------------------
(***************************************************************************)
(* Tasks.                                                                  *)
(***************************************************************************)
\* What a process may turn to.
NewTask(p, t) ==
  \/ t.at = "idle"
  \/ TaskOk(t) /\ (t.at = "declare" => QueueOf[Job(t.msg)] \in configs[p])

\* Only a delivery that is acked as such or rejected is settled without a successor.
Unspending(t) == t.at = "settle" => t.op \in {"ack", "reject"}

LEMMA IdleTask ==
  ASSUME NEW p
  PROVE  NewTask(p, Idle) /\ Unspending(Idle)
BY DEF NewTask, Unspending, Idle

\* Turning to a task leaves the tasks of the others alone.
LEMMA GotoMakes ==
  ASSUME NEW p \in Procs, TaskInv, NEW t, Goto(p, t)
  PROVE  task' = [q \in Procs |-> IF q = p THEN t ELSE task[q]]
<1>1. task' = [task EXCEPT ![p] = t]
  BY DEF Goto
<1>2. task = [q \in Procs |-> task[q]]
  BY DEF TaskInv
<1> QED
  BY <1>1, <1>2

\* The names of a job's queues.
LEMMA OfJobNames ==
  ASSUME NEW j \in Jobs, NEW p \in Procs
  PROVE  /\ OfJob(j, Main(QueueOf[j]).name)
         /\ OfJob(j, Dead(QueueOf[j], Options[p]).name)
         /\ \A ttl \in Ttls : OfJob(j, HoldQueue(QueueOf[j], Options[p], ttl).name)
<1>1. OfJob(j, Main(QueueOf[j]).name)
  BY MainFacts DEF OfJob
<1>2. OfJob(j, Dead(QueueOf[j], Options[p]).name)
  <2>1. Dead(QueueOf[j], Options[p]).name = DeadName(QueueOf[j], p)
    BY DeadFacts
  <2> QED
    BY <2>1 DEF OfJob, DeadName
<1>3. ASSUME NEW ttl \in Ttls
      PROVE  OfJob(j, HoldQueue(QueueOf[j], Options[p], ttl).name)
  <2>1. HoldQueue(QueueOf[j], Options[p], ttl).name = HoldName(QueueOf[j], p, ttl)
    BY HoldFacts
  <2> QED
    BY <2>1 DEF OfJob, HoldName
<1> QED
  BY <1>1, <1>2, <1>3

\* What makes a task that sends the right job to the right place.
LEMMA MakeTask ==
  ASSUME NEW p \in Procs, NEW op, NEW at, NEW msg, NEW sends, NEW to, NEW live,
         msg.env \in AnyEnvelope, sends.env \in AnyEnvelope, sends.env.job = msg.env.job,
         OfJob(Job(msg), to.name),
         at = "declare" => HoldsFor(to, Job(msg)) /\ QueueOf[Job(msg)] \in configs[p]
  PROVE  NewTask(p, Task(op, at, msg, sends, to, live))
<1> DEFINE t == Task(op, at, msg, sends, to, live)
<1>1. t.op = op /\ t.at = at /\ t.msg = msg /\ t.sends = sends /\ t.to = to /\ t.live = live
  BY TaskFields
<1> HIDE DEF t
<1>2. t = Task(t.op, t.at, t.msg, t.sends, t.to, t.live)
  BY <1>1 DEF t
<1>3. NewTask(p, t)
  BY <1>1, <1>2, Zenon DEF NewTask, TaskOk, Job
<1> QED
  BY <1>3 DEF t

\* And one that spends no delivery.
LEMMA UnspendingTask ==
  ASSUME NEW op, NEW at, NEW msg, NEW sends, NEW to, NEW live,
         at # "settle" \/ op \in {"ack", "reject"}
  PROVE  Unspending(Task(op, at, msg, sends, to, live))
<1> DEFINE t == Task(op, at, msg, sends, to, live)
<1>1. t.op = op /\ t.at = at
  BY TaskFields
<1> HIDE DEF t
<1>2. Unspending(t)
  BY <1>1 DEF Unspending
<1> QED
  BY <1>2 DEF t

\* publish_held, dead_letter and a failed publish make such tasks.
LEMMA HeldTask ==
  ASSUME NamesApart, ReplayInv, NEW p \in Procs, NEW op, NEW msg, NEW next, NEW hold, NEW live,
         publish_held(p, op, msg, next, hold, live),
         msg.env \in AnyEnvelope, next \in AnyEnvelope, next.job = msg.env.job
  PROVE  \E t : Goto(p, t) /\ NewTask(p, t) /\ Unspending(t)
<1>1. PICK delay \in Waits :
        LET ttl == deferred_ttl_ms(delay, Granularity(p, hold))
            targets == IF ttl = TooLong THEN {}
                       ELSE {d \in {HoldQueue(c, Options[p], ttl) : c \in config_for(p, Queue(msg))} :
                               short_string(d.name)}
        IN  IF targets = {} THEN Goto(p, Idle)
            ELSE \E d \in targets : Goto(p, Task(op, "declare", msg, props_for(next), d, live))
  BY DEF publish_held
<1> DEFINE ttl == deferred_ttl_ms(delay, Granularity(p, hold))
           targets == IF ttl = TooLong THEN {}
                      ELSE {d \in {HoldQueue(c, Options[p], ttl) : c \in config_for(p, Queue(msg))} :
                              short_string(d.name)}
<1>2. CASE Goto(p, Idle)
  BY <1>2, IdleTask
<1>3. CASE ~Goto(p, Idle)
  <2>1. ttl # TooLong
    BY <1>1, <1>3
  <2>2. PICK c \in config_for(p, Queue(msg)) :
          Goto(p, Task(op, "declare", msg, props_for(next), HoldQueue(c, Options[p], ttl), live))
    BY <1>1, <1>3
  <2>3. ttl \in Ttls
    <3>1. delay \in Nat
      BY RabbitMqAssumption DEF RabbitMqAssumption
    <3>2. Options[p].retry_granularity \in Nat /\ Options[p].deferred_granularity \in Nat
      BY RabbitMqAssumption DEF RabbitMqAssumption, RabbitMqOptions
    <3>3. Granularity(p, hold) \in Nat
      BY <3>2 DEF Granularity
    <3> QED
      BY <2>1, <3>1, <3>3, NeverShortened
  <2> HIDE DEF ttl
  <2>4. c \in configs[p] /\ c \in Known /\ c.name = QueueOf[Job(msg)].name
    BY DEF config_for, Queue, ReplayInv, ProcessTypes
  <2>5. Job(msg) \in Jobs
    BY DEF Job, AnyEnvelope
  <2>6. c = QueueOf[Job(msg)]
    BY <2>4, <2>5, JobsKnown, OneConfig
  <2>7. /\ HoldsFor(HoldQueue(c, Options[p], ttl), Job(msg))
        /\ OfJob(Job(msg), HoldQueue(c, Options[p], ttl).name)
    BY <2>3, <2>5, <2>6, OfJobNames DEF HoldsFor
  <2>8. props_for(next).env = next
    BY MessageFacts
  <2> DEFINE t == Task(op, "declare", msg, props_for(next), HoldQueue(c, Options[p], ttl), live)
  <2>9. NewTask(p, t)
    BY <2>4, <2>6, <2>7, <2>8, MakeTask
  <2>10. Unspending(t)
    BY UnspendingTask
  <2> QED
    BY <2>2, <2>9, <2>10
<1> QED
  BY <1>2, <1>3

LEMMA GiveUpTask ==
  ASSUME NEW p \in Procs, NEW op, NEW msg, NEW sends, NEW live, GiveUp(p, op, msg, sends, live),
         msg.env \in AnyEnvelope, sends.env \in AnyEnvelope, sends.env.job = msg.env.job
  PROVE  \E t : Goto(p, t) /\ NewTask(p, t) /\ Unspending(t)
<1>1. Job(msg) \in Jobs
  BY DEF Job, AnyEnvelope
<1>2. /\ OfJob(Job(msg), Main(QueueOf[Job(msg)]).name)
      /\ OfJob(Job(msg), Dead(QueueOf[Job(msg)], Options[p]).name)
  BY <1>1, OfJobNames
<1>3. CASE Options[p].declare_dead_letter_queues
  <2> DEFINE t == Task(op, "publish", msg, sends, Dead(QueueOf[Job(msg)], Options[p]), live)
  <2>1. Goto(p, t)
    BY <1>3 DEF GiveUp
  <2>2. NewTask(p, t)
    BY <1>2, MakeTask
  <2>3. Unspending(t)
    BY UnspendingTask
  <2> QED
    BY <2>1, <2>2, <2>3
<1>4. CASE ~Options[p].declare_dead_letter_queues
  <2> DEFINE t == Task("reject", "settle", msg, msg, Main(QueueOf[Job(msg)]), live)
  <2>1. Goto(p, t)
    BY <1>4 DEF GiveUp
  <2>2. NewTask(p, t)
    BY <1>2, MakeTask
  <2>3. Unspending(t)
    BY UnspendingTask
  <2> QED
    BY <2>1, <2>2, <2>3
<1> QED
  BY <1>3, <1>4

LEMMA ChangedTask ==
  ASSUME NEW p \in Procs, NEW t, TaskOk(t), NEW x \in {"publish", "late", "settle"}, NEW y
  PROVE  /\ NewTask(p, At(t, x)) /\ At(t, x).at = x
         /\ At(t, x).op = t.op /\ At(t, x).msg = t.msg
         /\ NewTask(p, As(t, y, x)) /\ As(t, y, x).at = x /\ As(t, y, x).op = y
<1> DEFINE a == t.op
           b == t.at
           m == t.msg
           n == t.sends
           d == t.to
           l == t.live
<1>1. t = Task(a, b, m, n, d, l)
  BY DEF TaskOk
<1>2. /\ m.env \in AnyEnvelope /\ n.env \in AnyEnvelope /\ n.env.job = m.env.job
      /\ OfJob(Job(m), d.name)
  BY DEF TaskOk, Job
<1> HIDE DEF a, b, m, n, d, l
<1>3. At(Task(a, b, m, n, d, l), x) = Task(a, x, m, n, d, l)
  BY TaskAt
<1>4. As(Task(a, b, m, n, d, l), y, x) = Task(y, x, m, n, d, l)
  BY TaskAs
<1>5. At(t, x) = Task(a, x, m, n, d, l) /\ As(t, y, x) = Task(y, x, m, n, d, l)
  BY <1>1, <1>3, <1>4, Zenon
<1>6. NewTask(p, Task(a, x, m, n, d, l)) /\ NewTask(p, Task(y, x, m, n, d, l))
  BY <1>2, MakeTask
<1>7. At(t, x).at = x /\ At(t, x).op = a /\ At(t, x).msg = m
  BY <1>5, TaskFields
<1>8. As(t, y, x).at = x /\ As(t, y, x).op = y
  BY <1>5, TaskFields
<1> QED
  BY <1>5, <1>6, <1>7, <1>8 DEF a, m

LEMMA FailedTask ==
  ASSUME NEW p \in Procs, TaskOk(task[p]), Failed(p)
  PROVE  \E t : Goto(p, t) /\ NewTask(p, t) /\ Unspending(t)
<1>1. CASE task[p].op = "malformed"
  <2> DEFINE t == As(task[p], "reject", "settle")
  <2>1. Goto(p, t)
    BY <1>1, Zenon DEF Failed, As
  <2>2. NewTask(p, t) /\ t.op = "reject"
    BY ChangedTask
  <2> QED
    BY <2>1, <2>2 DEF Unspending
<1>2. CASE task[p].op # "malformed"
  BY <1>2, IdleTask DEF Failed
<1> QED
  BY <1>1, <1>2

\* What a process turns to, unless its publish is confirmed.
LEMMA EnqueueTask ==
  ASSUME NamesApart, IInv, NEW p \in Procs, NEW j \in Jobs, Enqueue(p, j)
  PROVE  \E t : Goto(p, t) /\ NewTask(p, t) /\ Unspending(t)
<1> DEFINE msg == props_for(NewEnvelope(j))
<1>1. msg.env = NewEnvelope(j) /\ msg.env \in AnyEnvelope /\ msg.env.job = j
  BY MessageFacts, NewFacts
<1>2. NewDeferred(j) \in AnyEnvelope /\ NewDeferred(j).job = j
  BY NewFacts
<1>3. \/ Goto(p, Task("enqueue", "publish", msg, msg, Main(QueueOf[j]), FALSE))
      \/ publish_held(p, "enqueue", msg, NewEnvelope(j), "Retry", FALSE)
      \/ publish_held(p, "enqueue", msg, NewDeferred(j), "Deferral", FALSE)
  BY DEF Enqueue
<1> HIDE DEF msg
<1>4. CASE Goto(p, Task("enqueue", "publish", msg, msg, Main(QueueOf[j]), FALSE))
  <2> DEFINE t == Task("enqueue", "publish", msg, msg, Main(QueueOf[j]), FALSE)
  <2>1. OfJob(Job(msg), Main(QueueOf[j]).name)
    BY <1>1, OfJobNames DEF Job
  <2>2. NewTask(p, t)
    BY <1>1, <2>1, MakeTask
  <2>3. Unspending(t)
    BY UnspendingTask
  <2> QED
    BY <1>4, <2>2, <2>3
<1>5. CASE publish_held(p, "enqueue", msg, NewEnvelope(j), "Retry", FALSE)
  BY <1>1, <1>5, HeldTask DEF IInv
<1>6. CASE publish_held(p, "enqueue", msg, NewDeferred(j), "Deferral", FALSE)
  BY <1>1, <1>2, <1>6, HeldTask DEF IInv
<1> QED
  BY <1>3, <1>4, <1>5, <1>6

LEMMA ReceiveTask ==
  ASSUME IInv, NEW p \in Procs, NEW c \in DOMAIN store,
         IF Job(c.msg) \in Poison
         THEN GiveUp(p, "malformed", c.msg, malformed_props(c.msg.env, c.queue), TRUE)
         ELSE Goto(p, Task("run", "run", c.msg, c.msg, Main(QueueOf[Job(c.msg)]), TRUE))
  PROVE  \E t : Goto(p, t) /\ NewTask(p, t) /\ Unspending(t)
<1>1. c.msg.env \in AnyEnvelope
  BY DEF IInv, CopyInv, CopySound, CopyOk
<1>2. malformed_props(c.msg.env, c.queue).env = c.msg.env
  BY MessageFacts
<1>3. CASE Job(c.msg) \in Poison
  BY <1>1, <1>2, <1>3, GiveUpTask
<1>4. CASE Job(c.msg) \notin Poison
  <2> DEFINE t == Task("run", "run", c.msg, c.msg, Main(QueueOf[Job(c.msg)]), TRUE)
  <2>1. OfJob(Job(c.msg), Main(QueueOf[Job(c.msg)]).name)
    BY <1>1, OfJobNames DEF Job, AnyEnvelope
  <2>2. NewTask(p, t)
    BY <1>1, <2>1, MakeTask
  <2>3. Unspending(t)
    BY UnspendingTask
  <2> QED
    BY <1>4, <2>2, <2>3
<1> QED
  BY <1>3, <1>4

LEMMA HandledTask ==
  ASSUME NamesApart, IInv, NEW p \in Procs, Handled(p)
  PROVE  \E t : Goto(p, t) /\ NewTask(p, t) /\ Unspending(t)
<1> DEFINE msg == task[p].msg
           env == msg.env
           live == task[p].live
<1>1. TaskOk(task[p])
  BY DEF Handled, IInv, TaskInv
<1>2. env \in AnyEnvelope
  BY <1>1 DEF TaskOk
<1>3. /\ NextAttempt(env) \in AnyEnvelope /\ NextAttempt(env).job = env.job
      /\ Deferred(env) \in AnyEnvelope /\ Deferred(env).job = env.job
  BY <1>2, EnvelopeFacts
<1>4. dead_letter_props(env, Queue(msg), "dead").env = env
  BY MessageFacts
<1>5. \/ Goto(p, As(task[p], "ack", "settle"))
      \/ publish_held(p, "retry", msg, NextAttempt(env), "Retry", live)
      \/ publish_held(p, "defer", msg, Deferred(env), "Deferral", live)
      \/ GiveUp(p, "dead", msg, dead_letter_props(env, Queue(msg), "dead"), live)
  BY Zenon DEF Handled, As
<1>6. CASE Goto(p, As(task[p], "ack", "settle"))
  BY <1>1, <1>6, ChangedTask DEF Unspending
<1> HIDE DEF msg, live
<1>7. CASE publish_held(p, "retry", msg, NextAttempt(env), "Retry", live)
  BY <1>2, <1>3, <1>7, HeldTask DEF IInv
<1>8. CASE publish_held(p, "defer", msg, Deferred(env), "Deferral", live)
  BY <1>2, <1>3, <1>8, HeldTask DEF IInv
<1>9. CASE GiveUp(p, "dead", msg, dead_letter_props(env, Queue(msg), "dead"), live)
  BY <1>2, <1>4, <1>9, GiveUpTask
<1> QED
  BY <1>5, <1>6, <1>7, <1>8, <1>9

\* All tasks stay in order when one process turns to something.
LEMMA TurnKeeps ==
  ASSUME NamesApart, IInv, [Next]_vars, NEW p \in Procs, NEW t, Goto(p, t), NewTask(p, t)
  PROVE  TaskInv' /\ TasksKept'
<1>1. task' = [q \in Procs |-> IF q = p THEN t ELSE task[q]]
  BY GotoMakes DEF IInv
<1>2. \A q \in Procs : task'[q] = IF q = p THEN t ELSE task[q]
  BY <1>1
<1>3. TaskInv'
  <2>1. task' = [q \in Procs |-> task'[q]]
    BY <1>1
  <2>2. \A q \in Procs : task'[q].at = "idle" \/ TaskOk(task'[q])
    BY <1>2 DEF NewTask, IInv, TaskInv
  <2> QED
    BY <2>1, <2>2 DEF TaskInv
<1>4. TasksKept'
  <2> SUFFICES ASSUME NEW q \in Procs, task'[q].at = "declare"
               PROVE  KeptOr(QueueOf[Job(task[q].msg)])'
    BY DEF TasksKept
  <2>1. PICK j : j = Job(task'[q].msg)
    OBVIOUS
  <2>2. TaskOk(task'[q])
    BY <1>3 DEF TaskInv
  <2>3. j \in Jobs
    BY <2>1, <2>2 DEF TaskOk, Job, AnyEnvelope
  <2>4. KeptOr(QueueOf[j])
    <3>1. CASE q = p
      <4>1. QueueOf[j] \in configs[p]
        BY <1>2, <2>1, <3>1 DEF NewTask
      <4> QED
        BY <4>1 DEF IInv, MainInv, ConfigsKept
    <3>2. CASE q # p
      BY <1>2, <2>1, <3>2 DEF IInv, MainInv, TasksKept
    <3> QED
      BY <3>1, <3>2
  <2>5. KeptOr(QueueOf[j])'
    BY <2>3, <2>4, JobsKnown, KeptStays
  <2> QED
    BY <2>1, <2>5 DEF KeptOr, Kept
<1> QED
  BY <1>3, <1>4

\* A task that lost its delivery is otherwise what it was.
LEMMA OffTask ==
  ASSUME NEW t, TaskOk(t)
  PROVE  TaskOk(Off(t)) /\ Off(t).at = t.at /\ Off(t).op = t.op /\ Off(t).msg = t.msg
<1> DEFINE a == t.op
           b == t.at
           m == t.msg
           n == t.sends
           d == t.to
           l == t.live
           u == Task(a, b, m, n, d, FALSE)
<1>1. t = Task(a, b, m, n, d, l)
  BY DEF TaskOk
<1>2. /\ m.env \in AnyEnvelope /\ n.env \in AnyEnvelope /\ Job(n) = Job(m)
      /\ OfJob(Job(m), d.name) /\ (b = "declare" => HoldsFor(d, Job(m)))
  BY DEF TaskOk
<1> HIDE DEF a, b, m, n, d, l
<1>3. Off(t) = u
  <2>1. Off(Task(a, b, m, n, d, l)) = Task(a, b, m, n, d, FALSE)
    BY TaskOff, Zenon
  <2> QED
    BY <1>1, <2>1, Zenon
<1>4. /\ u.op = a /\ u.at = b /\ u.msg = m /\ u.sends = n /\ u.to = d
      /\ u = Task(u.op, u.at, u.msg, u.sends, u.to, u.live)
  <2>1. u.op = a /\ u.at = b /\ u.msg = m /\ u.sends = n /\ u.to = d
    BY Zenon DEF Task
  <2>2. u.live = FALSE
    BY Zenon DEF Task
  <2> QED
    BY <2>1, <2>2, Zenon
<1> HIDE DEF u
<1>5. TaskOk(u)
  BY <1>2, <1>4, Zenon DEF TaskOk
<1> QED
  BY <1>3, <1>4, <1>5 DEF a, b, m

\* Losing its delivery changes nothing else about a task.
LEMMA DetachedKeeps ==
  ASSUME NamesApart, IInv, [Next]_vars, NEW gone, NEW names, task' = Detached(gone, names)
  PROVE  /\ TaskInv' /\ TasksKept'
         /\ \A p \in Procs : \/ task'[p] = task[p]
                             \/ /\ task[p].at # "idle" /\ task'[p].at = task[p].at
                                /\ task'[p].op = task[p].op /\ task'[p].msg = task[p].msg
<1> DEFINE Hit(p) == task[p].at # "idle" /\ (p \in gone \/ Queue(task[p].msg) \in names)
<1>1. task' = [p \in Procs |-> IF Hit(p) THEN Off(task[p]) ELSE task[p]]
  BY Zenon DEF Detached, Off
<1>2. \A p \in Procs : Hit(p) => TaskOk(task[p])
  BY DEF IInv, TaskInv
<1>3. \A p \in Procs : task'[p] = IF Hit(p) THEN Off(task[p]) ELSE task[p]
  BY <1>1
<1>4. \A p \in Procs : \/ task'[p] = task[p]
                       \/ /\ task[p].at # "idle" /\ task'[p].at = task[p].at
                          /\ task'[p].op = task[p].op /\ task'[p].msg = task[p].msg
                          /\ TaskOk(task'[p])
  BY <1>2, <1>3, OffTask
<1>5. TaskInv'
  <2>1. task' = [p \in Procs |-> task'[p]]
    BY <1>1
  <2>2. \A p \in Procs : task'[p].at = "idle" \/ TaskOk(task'[p])
    BY <1>4 DEF IInv, TaskInv
  <2> QED
    BY <2>1, <2>2 DEF TaskInv
<1>6. TasksKept'
  <2> SUFFICES ASSUME NEW q \in Procs, task'[q].at = "declare"
               PROVE  KeptOr(QueueOf[Job(task[q].msg)])'
    BY DEF TasksKept
  <2>1. PICK j : j = Job(task'[q].msg)
    OBVIOUS
  <2>2. TaskOk(task'[q])
    BY <1>5 DEF TaskInv
  <2>3. j \in Jobs
    BY <2>1, <2>2 DEF TaskOk, Job, AnyEnvelope
  <2>4. KeptOr(QueueOf[j])
    BY <1>4, <2>1 DEF IInv, MainInv, TasksKept
  <2>5. KeptOr(QueueOf[j])'
    BY <2>3, <2>4, JobsKnown, KeptStays
  <2> QED
    BY <2>1, <2>5 DEF KeptOr, Kept
<1> QED
  BY <1>4, <1>5, <1>6

\* A step of somebody else leaves a task in order.
LEMMA TasksQuiet ==
  ASSUME NamesApart, IInv, [Next]_vars, UNCHANGED task
  PROVE  TaskInv' /\ TasksKept'
<1>1. TaskInv'
  BY DEF IInv, TaskInv
<1>2. TasksKept'
  <2> SUFFICES ASSUME NEW q \in Procs, task[q].at = "declare"
               PROVE  KeptOr(QueueOf[Job(task[q].msg)])'
    BY DEF TasksKept
  <2>1. PICK j : j = Job(task[q].msg)
    OBVIOUS
  <2>2. TaskOk(task[q])
    BY DEF IInv, TaskInv
  <2>3. j \in Jobs
    BY <2>1, <2>2 DEF TaskOk, Job, AnyEnvelope
  <2>4. KeptOr(QueueOf[j])
    BY <2>1 DEF IInv, MainInv, TasksKept
  <2>5. KeptOr(QueueOf[j])'
    BY <2>3, <2>4, JobsKnown, KeptStays
  <2> QED
    BY <2>1, <2>5 DEF KeptOr, Kept
<1> QED
  BY <1>1, <1>2

\* A confirmed publish, or one that failed.
LEMMA PublishTask ==
  ASSUME IInv, NEW p \in Procs, PublishConfirmed(p)
  PROVE  \E t :
           /\ Goto(p, t) /\ NewTask(p, t)
           /\ \/ Unspending(t) /\ accepted' = accepted
              \/ /\ Unspending(t) /\ accepted' = accepted \cup {Job(task[p].msg)}
                 /\ Publish(task[p].to.name, task[p].sends)
              \/ /\ t.msg = task[p].msg /\ accepted' = accepted
                 /\ Publish(task[p].to.name, task[p].sends)
<1>1. TaskOk(task[p])
  BY DEF PublishConfirmed, IInv, TaskInv
<1>2. CASE Failed(p) /\ UNCHANGED accepted
  BY <1>1, <1>2, FailedTask
<1>3. CASE Publish(task[p].to.name, task[p].sends) /\ Confirmed(p)
  <2>1. CASE task[p].op = "enqueue"
    BY <1>3, <2>1, IdleTask DEF Confirmed
  <2>2. CASE task[p].op # "enqueue"
    <3> DEFINE t == At(task[p], "settle")
    <3>1. Goto(p, t) /\ UNCHANGED accepted
      BY <1>3, <2>2, Zenon DEF Confirmed, At
    <3>2. NewTask(p, t) /\ t.msg = task[p].msg
      BY <1>1, ChangedTask
    <3> QED
      BY <1>3, <3>1, <3>2
  <2> QED
    BY <2>1, <2>2
<1> QED
  BY <1>2, <1>3, Zenon DEF PublishConfirmed, Store, faultVars

\* Declaring a hold queue is on the way to publishing to it.
LEMMA DeclareHoldTask ==
  ASSUME IInv, NEW p \in Procs, DeclareHold(p)
  PROVE  \E t : Goto(p, t) /\ NewTask(p, t) /\ Unspending(t)
<1>1. TaskOk(task[p])
  BY DEF DeclareHold, IInv, TaskInv
<1>2. CASE Goto(p, Idle)
  BY <1>2, IdleTask
<1>3. CASE Goto(p, At(task[p], "publish"))
  BY <1>1, <1>3, ChangedTask DEF Unspending
<1> QED
  BY <1>2, <1>3, Zenon DEF DeclareHold, At

\* And it goes on to the same publish when it had to wait.
LEMMA WaitTask ==
  ASSUME IInv, NEW p \in Procs, Wait(p)
  PROVE  \E t : Goto(p, t) /\ NewTask(p, t) /\ Unspending(t)
<1>1. TaskOk(task[p])
  BY DEF Wait, IInv, TaskInv
<1>2. Goto(p, At(task[p], "late"))
  BY Zenon DEF Wait, At
<1> QED
  BY <1>1, <1>2, ChangedTask DEF Unspending

-----------------------------------------------------------------------------
(***************************************************************************)
(* The queues behind hold queues.                                          *)
(***************************************************************************)
\* Only declare_one remembers a queue, and only a crash forgets one.
LEMMA ConfigsGrow ==
  ASSUME [Next]_vars
  PROVE  UNCHANGED configs \/ \E p \in Procs : DeclareOne(p) \/ Crash(p)
<1> USE DEF brokerVars, processVars, jobVars, faultVars
<1>1. CASE UNCHANGED vars
  BY <1>1 DEF vars
<1>2. ASSUME NEW p \in Procs, Process(p), ~DeclareOne(p)
      PROVE  UNCHANGED configs
  BY <1>2 DEF Process, Declare, Reconnect, Redeclare, Enqueue, DeclareHold, Wait, PublishConfirmed,
              Interrupted, Receive, Handled, Settle
<1>3. ASSUME NEW p \in Procs, Drop(p)
      PROVE  UNCHANGED configs
  BY <1>3 DEF Drop
<1>4. ASSUME NEW j \in Jobs, Scribble(j)
      PROVE  UNCHANGED configs
  BY <1>4 DEF Scribble
<1>5. ASSUME Broker
      PROVE  UNCHANGED configs
  BY <1>5 DEF Broker, Release, Expire, DeleteUnused, Meddle, Restart
<1> QED
  BY <1>1, <1>2, <1>3, <1>4, <1>5 DEF Next

\* What a process remembers was declared and is kept.
LEMMA ConfigsStep ==
  ASSUME NamesApart, IInv, [Next]_vars
  PROVE  ConfigsKept'
<1>0. configs \in [Procs -> SUBSET Known]
  BY DEF IInv, ReplayInv, ProcessTypes
<1>1. ASSUME NEW q \in Procs, NEW c \in configs[q]
      PROVE  KeptOr(c)'
  BY <1>0, <1>1, KeptStays DEF IInv, MainInv, ConfigsKept
<1>2. CASE UNCHANGED configs
  BY <1>1, <1>2 DEF ConfigsKept
<1>3. ASSUME NEW p \in Procs, DeclareOne(p)
      PROVE  ConfigsKept'
  <2>0. PICK config \in Known : config = Head(declaring[p])
    <3>1. declaring[p] \in Seq(Known) /\ declaring[p] # <<>>
      BY <1>3 DEF DeclareOne, IInv, ReplayInv, ProcessTypes
    <3> QED
      BY <3>1
  <2>1. queues' = queues \cup Accepted(p, config)
    BY <1>3, <2>0 DEF DeclareOne
  <2>2. CASE UNCHANGED configs
    BY <1>1, <2>2 DEF ConfigsKept
  <2>3. CASE ~Refused(p, config) /\ Remember(p, config)
    <3>1. KeptOr(config)'
      BY <2>1, <2>3, DeclaredRestored DEF Restored, KeptOr
    <3>2. \A q \in Procs : \A c \in configs'[q] : c \in configs[q] \/ c = config
      BY <1>0, <2>3 DEF Remember
    <3> QED
      BY <1>1, <3>1, <3>2 DEF ConfigsKept
  <2> QED
    BY <1>3, <2>0, <2>2, <2>3 DEF DeclareOne
<1>4. ASSUME NEW p \in Procs, Crash(p)
      PROVE  ConfigsKept'
  <2>1. \A q \in Procs : configs'[q] \subseteq configs[q]
    BY <1>0, <1>4 DEF Crash
  <2> QED
    BY <1>1, <2>1 DEF ConfigsKept
<1> QED
  BY <1>2, <1>3, <1>4, ConfigsGrow

\* A hold queue is not taken for another kind of queue.
LEMMA HoldIsOwn ==
  ASSUME NamesApart, NEW d, NEW j \in Jobs, HoldsFor(d, j)
  PROVE  d \notin Mains \cup Deads
<1> DEFINE c == QueueOf[j]
<1>1. PICK p \in Procs, ttl \in Ttls : d = HoldQueue(c, Options[p], ttl)
  BY DEF HoldsFor
<1>2. c \in Known
  BY JobsKnown
<1> HIDE DEF c
<1>3. d.name = HoldName(c, p, ttl)
  BY <1>1, HoldFacts
<1>4. d \notin Mains
  <2> SUFFICES ASSUME NEW b \in Known, d = Main(b)
               PROVE  FALSE
    BY DEF Mains
  <2>1. d.name = b.name
    BY MainFacts
  <2>2. HoldName(c, p, ttl) # b.name
    BY <1>2, HoldApart
  <2> QED
    BY <1>3, <2>1, <2>2
<1>5. d \notin Deads
  <2> SUFFICES ASSUME NEW b \in Known, NEW q \in Procs, d = Dead(b, Options[q])
               PROVE  FALSE
    BY DEF Deads
  <2>1. d.name = DeadName(b, q)
    BY DeadFacts
  <2>2. HoldName(c, p, ttl) # DeadName(b, q)
    BY <1>2, HoldApart
  <2> QED
    BY <1>3, <2>1, <2>2
<1> QED
  BY <1>4, <1>5

\* Behind a hold queue is the queue it returns to, after every step.
LEMMA HoldsStep ==
  ASSUME NamesApart, IInv, [Next]_vars
  PROVE  HoldsKept'
<1> SUFFICES ASSUME NEW d \in queues', NEW j \in Jobs, HoldsFor(d, j)
             PROVE  KeptOr(QueueOf[j])' \/ d.name \in meddled'
  BY DEF HoldsKept
<1>0. KeptOr(QueueOf[j]) => KeptOr(QueueOf[j])'
  BY KeptStays, JobsKnown
<1>1. CASE d \in queues
  BY <1>0, <1>1, Growing DEF IInv, MainInv, HoldsKept
<1>2. CASE d \notin queues /\ ~Taking
  <2>1. PICK p \in Procs : task[p].at = "declare" /\ d = task[p].to
    BY <1>2, QueuesAdded, HoldIsOwn
  <2>2. TaskOk(task[p])
    BY <2>1 DEF IInv, TaskInv
  <2> DEFINE k == Job(task[p].msg)
  <2>3. k \in Jobs /\ HoldsFor(d, k)
    BY <2>1, <2>2 DEF TaskOk, Job, AnyEnvelope
  <2>4. KeptOr(QueueOf[k])
    BY <2>1 DEF IInv, MainInv, TasksKept
  <2> HIDE DEF k
  <2>5. QueueOf[j] = QueueOf[k]
    BY <2>3, HoldsForOne
  <2> QED
    BY <1>0, <2>4, <2>5
<1>3. CASE d \notin queues /\ Restart
  BY <1>3 DEF Restart
<1>4. ASSUME NEW e \in queues, DeleteUnused(e)
      PROVE  queues' \subseteq queues
  BY <1>4 DEF DeleteUnused
<1>5. ASSUME d \notin queues, NEW e \in queues, Meddle(e)
      PROVE  d.name \in meddled'
  <2>1. PICK hand \in Meddling : hand.queue = e.name /\ queues' = (queues \ {e}) \cup hand.by
    BY <1>5 DEF Meddle
  <2>2. d \in hand.by
    BY <1>5, <2>1
  <2>3. d.name = e.name
    BY <2>1, <2>2, RabbitMqAssumption DEF RabbitMqAssumption
  <2> QED
    BY <1>5, <2>3 DEF Meddle
<1> QED
  BY <1>1, <1>2, <1>3, <1>4, <1>5 DEF Taking

-----------------------------------------------------------------------------
(***************************************************************************)
(* Messages.                                                               *)
(***************************************************************************)

\* A message that is not spent counts.
LEMMA HasNow ==
  ASSUME NEW c \in DOMAIN store', ~Spent(c)'
  PROVE  Has(Job(c.msg))'
BY DEF Has

\* A message nobody holds counts.
LEMMA UnheldCounts ==
  ASSUME NEW c, c.holder = Nobody
  PROVE  ~Spent(c) /\ ~Spent(c)'
BY NobodyAssumption DEF Spent

\* A job's message is on a queue that processes declare, or it has its excuse.
LEMMA CopyPlace ==
  ASSUME IInv, NEW c \in DOMAIN store, NEW d \in queues, d.name = c.queue, ~Excused(Job(c.msg))
  PROVE  /\ Job(c.msg) \in Jobs /\ OfJob(Job(c.msg), d.name)
         /\ d \in Mains \cup Deads \cup Holds /\ d.name \notin meddled
<1>1. CopySound(c)
  BY DEF IInv, CopyInv
<1>2. Job(c.msg) \in Jobs
  BY <1>1 DEF CopySound, CopyOk, Job, AnyEnvelope
<1>3. OfJob(Job(c.msg), d.name)
  BY <1>1 DEF CopySound
<1>4. d.name \notin meddled
  BY <1>3 DEF Excused
<1> QED
  BY <1>2, <1>3, <1>4 DEF IInv, QueueInv

\* Only a release forgets a late message.
LEMMA LateGrows ==
  ASSUME [Next]_vars
  PROVE  late \subseteq late' \/ \E c \in DOMAIN store : Release(c)
<1> USE DEF brokerVars, processVars, jobVars, faultVars
<1>1. CASE UNCHANGED vars
  BY <1>1 DEF vars
<1>2. ASSUME NEW p \in Procs, PublishConfirmed(p)
      PROVE  late \subseteq late'
  BY <1>2 DEF PublishConfirmed, Store
<1>3. ASSUME NEW p \in Procs, Process(p), ~PublishConfirmed(p)
      PROVE  late \subseteq late'
  BY <1>3 DEF Process, Declare, DeclareOne, Reconnect, Redeclare, Enqueue, DeclareHold, Wait,
              Interrupted, Receive, Handled, Settle
<1>4. ASSUME NEW p \in Procs, Drop(p) \/ Crash(p)
      PROVE  late \subseteq late'
  BY <1>4 DEF Drop, Crash
<1>5. ASSUME NEW j \in Jobs, Scribble(j)
      PROVE  late \subseteq late'
  BY <1>5 DEF Scribble
<1>6. ASSUME Broker, ~\E c \in DOMAIN store : Release(c)
      PROVE  late \subseteq late'
  BY <1>6 DEF Broker, Expire, DeleteUnused, Meddle, Restart
<1> QED
  BY <1>1, <1>2, <1>3, <1>4, <1>5, <1>6 DEF Next

\* A release puts the message on the queue behind the hold queue, which is there unless
\* the job has its excuse.
LEMMA ReleaseCounts ==
  ASSUME NamesApart, IInv, [Next]_vars, NEW c \in DOMAIN store, Release(c)
  PROVE  Excused(Job(c.msg))' \/ Has(Job(c.msg))'
<1>1. PICK d \in queues :
        /\ d.name = c.queue
        /\ d.args.dead_letter_to # ""
        /\ store' = IF Exists(d.args.dead_letter_to)
                    THEN BagAdd(BagRemove(store, c), Copy(d.args.dead_letter_to, c.msg))
                    ELSE BagRemove(store, c)
  BY DEF Release
<1>2. PICK j : j = Job(c.msg)
  OBVIOUS
<1>3. CASE Exists(d.args.dead_letter_to)
  <2>1. PICK new : new = Copy(d.args.dead_letter_to, c.msg)
    OBVIOUS
  <2>2. new.msg = c.msg /\ new.holder = Nobody
    BY <2>1 DEF Copy
  <2>3. DOMAIN store' = DOMAIN BagRemove(store, c) \cup {new}
    BY <1>1, <1>3, <2>1, AddDomain
  <2>4. Has(Job(new.msg))'
    BY <2>2, <2>3, UnheldCounts, HasNow
  <2> QED
    BY <2>2, <2>4
<1>4. CASE ~Exists(d.args.dead_letter_to)
  <2>1. Excused(j)
    <3> SUFFICES ASSUME ~Excused(j)
                 PROVE  FALSE
      OBVIOUS
    <3>1. j \in Jobs /\ OfJob(j, d.name) /\ d \in Mains \cup Deads \cup Holds
          /\ d.name \notin meddled
      BY <1>1, <1>2, CopyPlace
    <3>2. d.args.dead_letter_to = QueueOf[j].name /\ HoldsFor(d, j)
      BY <1>1, <3>1, OwnFacts DEF HoldsFor
    <3>3. KeptOr(QueueOf[j])
      BY <3>1, <3>2 DEF IInv, MainInv, HoldsKept
    <3>4. ~Exists(QueueOf[j].name)
      BY <1>4, <3>2
    <3>5. QueueOf[j].name \in meddled \/ (~QueueOf[j].durable /\ restarts > 0)
      BY <3>3, <3>4 DEF KeptOr, Kept, Exists
    <3> QED
      BY <3>5 DEF Excused, OfJob
  <2> QED
    BY <1>2, <2>1, Growing, ExcusedStays DEF IInv
<1> QED
  BY <1>3, <1>4

\* So a late message is on the books until it counts again.
LEMMA LateStays ==
  ASSUME NamesApart, IInv, [Next]_vars, NEW j, Lapsed(j)
  PROVE  Excused(j)' \/ Lapsed(j)' \/ Has(j)'
<1>1. CASE late \subseteq late'
  BY <1>1 DEF Lapsed
<1>2. ASSUME NEW c \in DOMAIN store, Release(c)
      PROVE  Excused(j)' \/ Lapsed(j)' \/ Has(j)'
  <2>1. late \ {c} \subseteq late'
    BY <1>2 DEF Release
  <2>2. PICK e \in late : Job(e.msg) = j
    BY DEF Lapsed
  <2>3. CASE e = c
    BY <1>2, <2>2, <2>3, ReleaseCounts
  <2>4. CASE e # c
    BY <2>1, <2>2, <2>4 DEF Lapsed
  <2> QED
    BY <2>3, <2>4
<1> QED
  BY <1>1, <1>2, LateGrows

\* What a step owes: what it puts on the broker belongs there, what it lets a caller
\* count on is there, and a message that counts stays or has an excuse.
LEMMA CopiesMove ==
  ASSUME NamesApart, IInv, [Next]_vars,
         \A c \in DOMAIN store' : c \in DOMAIN store \/ CopySound(c)',
         \A j \in accepted' : j \in accepted \/ Has(j)',
         \A c \in DOMAIN store : \/ Spent(c)
                               \/ Excused(Job(c.msg))' \/ Lapsed(Job(c.msg))' \/ Has(Job(c.msg))'
  PROVE  CopyInv' /\ SafeInv'
<1>1. \A j : Excused(j) => Excused(j)'
  BY Growing, ExcusedStays DEF IInv
<1>2. CopyInv'
  <2> SUFFICES ASSUME NEW c \in DOMAIN store'
               PROVE  CopySound(c)'
    BY DEF CopyInv
  <2>1. CASE c \in DOMAIN store
    BY <1>1, <2>1 DEF IInv, CopyInv, CopySound
  <2> QED
    BY <2>1
<1>3. SafeInv'
  <2> SUFFICES ASSUME NEW j \in accepted'
               PROVE  Excused(j)' \/ Lapsed(j)' \/ Has(j)'
    BY DEF SafeInv
  <2>1. CASE j \in accepted /\ ~Excused(j) /\ ~Lapsed(j)
    <3>1. Has(j)
      BY <2>1 DEF IInv, SafeInv
    <3>2. PICK c \in DOMAIN store : Job(c.msg) = j /\ ~Spent(c)
      BY <3>1 DEF Has
    <3> QED
      BY <3>2
  <2> QED
    BY <1>1, <2>1, LateStays
<1> QED
  BY <1>2, <1>3

\* A task that starts something new, or goes on, spends no delivery.
LEMMA SpentBefore ==
  ASSUME \A p \in Procs :
           \/ task'[p] = task[p]
           \/ Unspending(task'[p])
           \/ /\ task'[p].at = task[p].at /\ task'[p].op = task[p].op
              /\ task'[p].msg = task[p].msg
  PROVE  \A c : Spent(c)' => Spent(c)
<1> SUFFICES ASSUME NEW c, Spent(c)'
             PROVE  Spent(c)
  OBVIOUS
<1>1. PICK p \in Procs : /\ c.holder = p
                         /\ task'[p].at = "settle" /\ task'[p].op \notin {"ack", "reject"}
                         /\ Job(c.msg) = Job(task'[p].msg)
  BY DEF Spent
<1>2. task[p].at = "settle" /\ task[p].op \notin {"ack", "reject"} /\ task'[p].msg = task[p].msg
  BY <1>1 DEF Unspending
<1> QED
  BY <1>1, <1>2 DEF Spent

\* Nor does turning to one.
LEMMA TurnSpends ==
  ASSUME IInv, NEW p \in Procs, NEW t, Goto(p, t), Unspending(t)
  PROVE  \A c : Spent(c)' => Spent(c)
<1>1. task' = [q \in Procs |-> IF q = p THEN t ELSE task[q]]
  BY GotoMakes DEF IInv
<1>2. \A q \in Procs : task'[q] = IF q = p THEN t ELSE task[q]
  BY <1>1
<1> QED
  BY <1>2, SpentBefore

\* No message is touched.
LEMMA CopiesStay ==
  ASSUME NamesApart, IInv, [Next]_vars, UNCHANGED <<store, accepted>>, \A c : Spent(c)' => Spent(c)
  PROVE  CopyInv' /\ SafeInv'
<1>1. \A c \in DOMAIN store : Spent(c) \/ Has(Job(c.msg))'
  BY HasNow
<1> QED
  BY <1>1, CopiesMove

\* A publish that is confirmed is stored before its delivery is spent.
LEMMA CopiesPublish ==
  ASSUME NamesApart, IInv, [Next]_vars, NEW p \in Procs, PublishConfirmed(p)
  PROVE  CopyInv' /\ SafeInv'
<1>1. TaskOk(task[p])
  BY DEF PublishConfirmed, IInv, TaskInv
<1> DEFINE n == Copy(task[p].to.name, task[p].sends)
<1>2. PICK new : new = n
  OBVIOUS
<1>3. /\ new.queue = task[p].to.name /\ new.msg = task[p].sends /\ new.holder = Nobody
      /\ new = [queue |-> new.queue, msg |-> new.msg, holder |-> new.holder]
  BY <1>2 DEF Copy
<1>4. CopyOk(new) /\ OfJob(Job(new.msg), new.queue) /\ Job(new.msg) = Job(task[p].msg)
  BY <1>1, <1>3 DEF TaskOk, CopyOk
<1>5. CopySound(new)'
  BY <1>4 DEF CopySound
<1>6. store' = store \/ Publish(task[p].to.name, task[p].sends)
  BY Zenon DEF PublishConfirmed, Store
<1>7. DOMAIN store' = DOMAIN store \/ DOMAIN store' = DOMAIN store \cup {new}
  BY <1>2, <1>6, AddDomain DEF Publish
<1>8. ASSUME Publish(task[p].to.name, task[p].sends)
      PROVE  Has(Job(new.msg))'
  <2>1. new \in DOMAIN store'
    BY <1>2, <1>8, AddDomain DEF Publish
  <2> QED
    BY <1>3, <2>1, UnheldCounts, HasNow
<1>9. PICK t :
        /\ Goto(p, t) /\ NewTask(p, t)
        /\ \/ Unspending(t) /\ accepted' = accepted
           \/ /\ Unspending(t) /\ accepted' = accepted \cup {Job(task[p].msg)}
              /\ Publish(task[p].to.name, task[p].sends)
           \/ /\ t.msg = task[p].msg /\ accepted' = accepted
              /\ Publish(task[p].to.name, task[p].sends)
  BY PublishTask
<1>10. \A j \in accepted' : j \in accepted \/ Has(j)'
  <2>1. PICK k : k = Job(new.msg)
    OBVIOUS
  <2>2. Publish(task[p].to.name, task[p].sends) => Has(k)'
    BY <1>8, <2>1
  <2> QED
    BY <1>4, <1>9, <2>1, <2>2
<1>11. ASSUME NEW c \in DOMAIN store, ~Spent(c)
       PROVE  Has(Job(c.msg))'
  <2>1. c \in DOMAIN store'
    BY <1>7
  <2>2. CASE ~Spent(c)'
    BY <2>1, <2>2, HasNow
  <2>3. CASE Spent(c)'
    <3>1. ~Unspending(t)
      BY <1>9, <1>11, <2>3, TurnSpends
    <3>2. Publish(task[p].to.name, task[p].sends) /\ t.msg = task[p].msg
      BY <1>9, <3>1
    <3>3. \A q \in Procs : task'[q] = IF q = p THEN t ELSE task[q]
      BY <1>9, GotoMakes DEF IInv
    <3>4. PICK q \in Procs : /\ c.holder = q
                             /\ task'[q].at = "settle" /\ task'[q].op \notin {"ack", "reject"}
                             /\ Job(c.msg) = Job(task'[q].msg)
      BY <2>3 DEF Spent
    <3>5. q = p
      BY <1>11, <3>3, <3>4 DEF Spent
    <3>6. Job(c.msg) = Job(new.msg)
      BY <1>4, <3>2, <3>3, <3>4, <3>5
    <3>7. Has(Job(new.msg))'
      BY <1>8, <3>2
    <3> QED
      BY <3>6, <3>7
  <2> QED
    BY <2>2, <2>3
<1> QED
  BY <1>5, <1>7, <1>10, <1>11, CopiesMove

\* A delivery is the message it was.
LEMMA CopiesReceive ==
  ASSUME NamesApart, IInv, [Next]_vars, NEW p \in Procs, Receive(p)
  PROVE  CopyInv' /\ SafeInv'
<1>1. PICK c \in DOMAIN store :
        /\ c.holder = Nobody
        /\ store' = BagAdd(BagRemove(store, c), [c EXCEPT !.holder = p])
        /\ IF Job(c.msg) \in Poison
           THEN GiveUp(p, "malformed", c.msg, malformed_props(c.msg.env, c.queue), TRUE)
           ELSE Goto(p, Task("run", "run", c.msg, c.msg, Main(QueueOf[Job(c.msg)]), TRUE))
  BY Zenon DEF Receive
<1>2. PICK t : Goto(p, t) /\ NewTask(p, t) /\ Unspending(t)
  BY <1>1, ReceiveTask
<1>3. \A e : Spent(e)' => Spent(e)
  BY <1>2, TurnSpends
<1>4. CopySound(c)
  BY DEF IInv, CopyInv
<1>5. c = [queue |-> c.queue, msg |-> c.msg, holder |-> c.holder]
  BY <1>4 DEF CopySound, CopyOk
<1>6. PICK new : new = [queue |-> c.queue, msg |-> c.msg, holder |-> p]
  OBVIOUS
<1>7. [c EXCEPT !.holder = p] = new
  BY <1>5, <1>6
<1>8. /\ new.queue = c.queue /\ new.msg = c.msg /\ new.holder = p
      /\ new = [queue |-> new.queue, msg |-> new.msg, holder |-> new.holder]
  BY <1>6
<1>9. CopySound(new)'
  <2>1. \A j : Excused(j) => Excused(j)'
    BY Growing, ExcusedStays DEF IInv
  <2> QED
    BY <1>4, <1>8, <2>1 DEF CopySound, CopyOk
<1>10. store' = BagAdd(BagRemove(store, c), new)
  BY <1>1, <1>7, Zenon
<1>11. /\ DOMAIN store' = DOMAIN BagRemove(store, c) \cup {new}
       /\ DOMAIN BagRemove(store, c) \subseteq DOMAIN store
       /\ \A y \in DOMAIN store : y # c => y \in DOMAIN BagRemove(store, c)
  BY <1>10, AddDomain, RemoveDomain
<1>12. ~Spent(new)'
  <2>1. task' = [q \in Procs |-> IF q = p THEN t ELSE task[q]]
    BY <1>2, GotoMakes DEF IInv
  <2>2. Unspending(task'[p])
    BY <1>2, <2>1
  <2> QED
    BY <1>8, <2>2 DEF Spent, Unspending
<1>13. UNCHANGED accepted
  BY DEF Receive, jobVars
<1>14. ASSUME NEW y \in DOMAIN store, ~Spent(y)
       PROVE  Has(Job(y.msg))'
  <2>1. CASE y # c
    <3>1. y \in DOMAIN store' /\ ~Spent(y)'
      BY <1>3, <1>11, <1>14, <2>1
    <3> QED
      BY <3>1, HasNow
  <2>2. CASE y = c
    <3>1. Has(Job(new.msg))'
      BY <1>11, <1>12, HasNow
    <3> QED
      BY <1>8, <2>2, <3>1
  <2> QED
    BY <2>1, <2>2
<1> QED
  BY <1>9, <1>11, <1>13, <1>14, CopiesMove

\* Settling takes the delivery away that the handler finished, the broker drops or a
\* stored successor stands for.
LEMMA CopiesSettle ==
  ASSUME NamesApart, IInv, [Next]_vars, NEW p \in Procs, Settle(p)
  PROVE  CopyInv' /\ SafeInv'
<1>1. \A e : Spent(e)' => Spent(e)
  BY IdleTask, TurnSpends DEF Settle
<1>2. UNCHANGED accepted /\ task[p].at = "settle"
  BY DEF Settle
<1>3. CASE ~task[p].live
  <2>1. UNCHANGED store
    BY <1>3 DEF Settle
  <2> QED
    BY <1>1, <1>2, <2>1, CopiesStay
<1>4. CASE task[p].live
  <2>1. PICK msg, gone : /\ msg = task[p].msg
                         /\ gone = [queue |-> Queue(msg), msg |-> msg, holder |-> p]
    OBVIOUS
  <2>2. /\ store' = BagRemove(store, gone)
        /\ task[p].op = "ack" => Job(msg) \in done'
        /\ task[p].op = "reject" => Job(msg) \in rejected'
    BY <1>4, <2>1 DEF Settle
  <2>3. gone.msg = msg /\ gone.holder = p
    BY <2>1
  <2>4. /\ DOMAIN store' \subseteq DOMAIN store
        /\ \A y \in DOMAIN store : y # gone => y \in DOMAIN store'
    BY <2>2, RemoveDomain
  <2>5. ASSUME NEW y \in DOMAIN store, ~Spent(y)
        PROVE  Excused(Job(y.msg))' \/ Has(Job(y.msg))'
    <3>1. CASE y # gone
      <4>1. y \in DOMAIN store' /\ ~Spent(y)'
        BY <1>1, <2>4, <2>5, <3>1
      <4> QED
        BY <4>1, HasNow
    <3>2. CASE y = gone
      <4>1. task[p].op \in {"ack", "reject"}
        BY <1>2, <2>1, <2>3, <2>5, <3>2 DEF Spent
      <4>2. Job(msg) \in done' \cup rejected'
        BY <2>2, <4>1
      <4> QED
        BY <2>3, <3>2, <4>2 DEF Excused
    <3> QED
      BY <3>1, <3>2
  <2> QED
    BY <1>2, <2>4, <2>5, CopiesMove
<1> QED
  BY <1>3, <1>4

\* Connections or queues are lost: what counted on a queue that is still there counts
\* on, and the rest has to have an excuse.
LEMMA CopiesBack ==
  ASSUME NamesApart, IInv, [Next]_vars, NEW names, NEW gone, store' = Without(names, gone),
         UNCHANGED accepted, \A e : Spent(e)' => Spent(e),
         \A c \in DOMAIN store :
           c.queue \in names => Excused(Job(c.msg))' \/ Lapsed(Job(c.msg))'
  PROVE  CopyInv' /\ SafeInv'
<1>1. DOMAIN store' = {Back(c, gone) : c \in {e \in DOMAIN store : e.queue \notin names}}
  <2>1. CopyInv
    BY DEF IInv
  <2>2. DOMAIN Without(names, gone) = Left(names, gone)
    BY <2>1, WithoutDomain
  <2> QED
    BY <2>2 DEF Left
<1>2. ASSUME NEW c \in DOMAIN store
      PROVE  CopySound(Back(c, gone))'
  <2>1. PICK new : new = Back(c, gone)
    OBVIOUS
  <2>2. CopySound(c)
    BY DEF IInv, CopyInv
  <2>3. CopyOk(new) /\ new.queue = c.queue /\ new.msg = c.msg
    BY <2>1, <2>2, BackFacts DEF CopySound
  <2>4. \A j : Excused(j) => Excused(j)'
    BY Growing, ExcusedStays DEF IInv
  <2>5. CopySound(new)'
    BY <2>2, <2>3, <2>4 DEF CopySound
  <2> QED
    BY <2>1, <2>5
<1>3. ASSUME NEW c \in DOMAIN store, ~Spent(c), c.queue \notin names
      PROVE  Has(Job(c.msg))'
  <2>1. PICK new : new = Back(c, gone)
    OBVIOUS
  <2>2. new \in DOMAIN store'
    BY <1>1, <1>3, <2>1
  <2>3. new.msg = c.msg /\ (new.holder = c.holder \/ new.holder = Nobody)
    BY <2>1, BackFacts DEF IInv, CopyInv, CopySound
  <2>4. ~Spent(new)'
    <3>1. CASE new.holder = Nobody
      BY <3>1, UnheldCounts
    <3>2. CASE new.holder = c.holder
      <4>1. ~Spent(new)
        BY <1>3, <2>3, <3>2 DEF Spent
      <4> QED
        BY <4>1
    <3> QED
      BY <2>3, <3>1, <3>2
  <2>5. Has(Job(new.msg))'
    BY <2>2, <2>4, HasNow
  <2> QED
    BY <2>3, <2>5
<1>4. \A c \in DOMAIN store' : CopySound(c)'
  BY <1>1, <1>2
<1> QED
  BY <1>3, <1>4, CopiesMove

\* A lost connection and a crash return their deliveries.
LEMMA CopiesDrop ==
  ASSUME NamesApart, IInv, [Next]_vars, NEW p \in Procs, Drop(p)
  PROVE  CopyInv' /\ SafeInv'
<1>1. /\ store' = Without({}, {p}) /\ task' = Detached({p}, {})
      /\ UNCHANGED accepted
  BY DEF Drop, jobVars
<1>2. \A e : Spent(e)' => Spent(e)
  BY <1>1, DetachedKeeps, SpentBefore
<1> QED
  BY <1>1, <1>2, CopiesBack

LEMMA CopiesCrash ==
  ASSUME NamesApart, IInv, [Next]_vars, NEW p \in Procs, Crash(p)
  PROVE  CopyInv' /\ SafeInv'
<1>1. store' = Without({}, {p}) /\ Goto(p, Idle) /\ UNCHANGED accepted
  BY DEF Crash, jobVars
<1>2. \A e : Spent(e)' => Spent(e)
  BY <1>1, IdleTask, TurnSpends
<1> QED
  BY <1>1, <1>2, CopiesBack

\* A restart takes messages only along with queues that are not durable.
LEMMA CopiesRestart ==
  ASSUME NamesApart, IInv, [Next]_vars, Restart
  PROVE  CopyInv' /\ SafeInv'
<1> DEFINE transient == {d \in queues : ~d.options.durable}
           names == {d.name : d \in transient}
<1>1. /\ store' = Without(names, Procs) /\ task' = Detached(Procs, {})
      /\ UNCHANGED accepted /\ restarts' = restarts + 1
  BY DEF Restart, jobVars
<1>2. \A e : Spent(e)' => Spent(e)
  BY <1>1, DetachedKeeps, SpentBefore
<1>3. ASSUME NEW c \in DOMAIN store, c.queue \in names
      PROVE  Excused(Job(c.msg))'
  <2>1. PICK d \in queues : ~d.options.durable /\ d.name = c.queue
    BY <1>3
  <2>2. CASE Excused(Job(c.msg))
    BY <2>2, Growing, ExcusedStays DEF IInv
  <2>3. CASE ~Excused(Job(c.msg))
    <3> DEFINE j == Job(c.msg)
    <3>1. j \in Jobs /\ OfJob(j, d.name) /\ d \in Mains \cup Deads \cup Holds
      BY <2>1, <2>3, CopyPlace
    <3> HIDE DEF j
    <3>2. ~QueueOf[j].durable
      BY <2>1, <3>1, OwnFacts
    <3>3. restarts' > 0
      BY <1>1 DEF IInv
    <3>4. Excused(j)'
      BY <3>2, <3>3 DEF Excused
    <3> QED
      BY <3>4 DEF j
  <2> QED
    BY <2>2, <2>3
<1> HIDE DEF names
<1> QED
  BY <1>1, <1>2, <1>3, CopiesBack

\* An operator takes messages only along with a queue.
LEMMA CopiesMeddle ==
  ASSUME NamesApart, IInv, [Next]_vars, NEW d \in queues, Meddle(d)
  PROVE  CopyInv' /\ SafeInv'
<1>1. /\ store' = Without({d.name}, {}) /\ task' = Detached({}, {d.name})
      /\ UNCHANGED accepted /\ meddled' = meddled \cup {d.name}
  BY DEF Meddle, jobVars
<1>2. \A e : Spent(e)' => Spent(e)
  BY <1>1, DetachedKeeps, SpentBefore
<1>3. ASSUME NEW c \in DOMAIN store, c.queue \in {d.name}
      PROVE  Excused(Job(c.msg))'
  <2>1. CASE Excused(Job(c.msg))
    BY <2>1, Growing, ExcusedStays DEF IInv
  <2>2. CASE ~Excused(Job(c.msg))
    <3>1. OfJob(Job(c.msg), d.name)
      BY <1>3, <2>2, CopyPlace
    <3> QED
      BY <1>1, <3>1 DEF Excused
  <2> QED
    BY <2>1, <2>2
<1> QED
  BY <1>1, <1>2, <1>3, CopiesBack

\* A message leaves a hold queue for the queue behind it, which is there.
LEMMA CopiesRelease ==
  ASSUME NamesApart, IInv, [Next]_vars, NEW c \in DOMAIN store, Release(c)
  PROVE  CopyInv' /\ SafeInv'
<1>1. PICK d \in queues :
        /\ d.name = c.queue
        /\ d.args.dead_letter_to # ""
        /\ \/ store' = BagAdd(BagRemove(store, c), Copy(d.args.dead_letter_to, c.msg))
           \/ store' = BagRemove(store, c)
  BY Zenon DEF Release
<1>2. UNCHANGED <<accepted, task>>
  BY DEF Release, processVars, jobVars
<1>3. \A e : Spent(e)' => Spent(e)
  BY <1>2 DEF Spent
<1>4. /\ DOMAIN BagRemove(store, c) \subseteq DOMAIN store
      /\ \A y \in DOMAIN store : y # c => y \in DOMAIN BagRemove(store, c)
  BY RemoveDomain
<1>5. PICK new : new = Copy(d.args.dead_letter_to, c.msg)
  OBVIOUS
<1>6. /\ new.queue = d.args.dead_letter_to /\ new.msg = c.msg /\ new.holder = Nobody
      /\ new = [queue |-> new.queue, msg |-> new.msg, holder |-> new.holder]
  BY <1>5 DEF Copy
<1>7. \/ DOMAIN store' = DOMAIN BagRemove(store, c)
      \/ DOMAIN store' = DOMAIN BagRemove(store, c) \cup {new}
  BY <1>1, <1>5, AddDomain
<1>8. CopySound(new)'
  <2>1. PICK j : j = Job(c.msg)
    OBVIOUS
  <2>2. CopyOk(new)
    BY <1>6 DEF IInv, CopyInv, CopySound, CopyOk
  <2>3. CASE Excused(j)
    <3>1. Excused(j)'
      BY <2>3, Growing, ExcusedStays DEF IInv
    <3> QED
      BY <1>6, <2>1, <2>2, <3>1 DEF CopySound, CopyOk
  <2>4. CASE ~Excused(j)
    <3>1. j \in Jobs /\ OfJob(j, d.name) /\ d \in Mains \cup Deads \cup Holds
      BY <1>1, <2>1, <2>4, CopyPlace
    <3>2. d.args.dead_letter_to = QueueOf[j].name
      BY <1>1, <3>1, OwnFacts
    <3>3. OfJob(j, new.queue)
      BY <1>6, <3>2 DEF OfJob
    <3> QED
      BY <1>6, <2>1, <2>2, <3>3 DEF CopySound
  <2> QED
    BY <2>3, <2>4
<1>9. ASSUME NEW y \in DOMAIN store, ~Spent(y)
      PROVE  Excused(Job(y.msg))' \/ Has(Job(y.msg))'
  <2>1. CASE y = c
    BY <2>1, ReleaseCounts
  <2>2. CASE y # c
    <3>1. y \in DOMAIN store' /\ ~Spent(y)'
      BY <1>3, <1>4, <1>7, <1>9, <2>2
    <3> QED
      BY <3>1, HasNow
  <2> QED
    BY <2>1, <2>2
<1> QED
  BY <1>2, <1>4, <1>7, <1>8, <1>9, CopiesMove

\* The x-expires of a queue takes only late messages along.
LEMMA CopiesDelete ==
  ASSUME NamesApart, IInv, [Next]_vars, NEW d \in queues, DeleteUnused(d)
  PROVE  CopyInv' /\ SafeInv'
<1>1. /\ store' = Without({d.name}, {}) /\ UNCHANGED <<accepted, task, late>>
      /\ \A c \in DOMAIN store : c.queue = d.name => c \in late
  BY DEF DeleteUnused, processVars, jobVars, faultVars
<1>2. \A e : Spent(e)' => Spent(e)
  BY <1>1 DEF Spent
<1>3. \A c \in DOMAIN store : c.queue \in {d.name} => Lapsed(Job(c.msg))'
  BY <1>1 DEF Lapsed
<1> QED
  BY <1>1, <1>2, <1>3, CopiesBack

\* A message expires only where its queue has a message TTL.
LEMMA CopiesExpire ==
  ASSUME NamesApart, IInv, [Next]_vars, NEW c \in DOMAIN store, Expire(c)
  PROVE  CopyInv' /\ SafeInv'
<1>1. PICK d \in queues :
        d.name = c.queue /\ d.args.message_ttl # Absent /\ d.args.dead_letter_to = ""
  BY DEF Expire
<1>2. UNCHANGED <<accepted, task>> /\ store' = BagRemove(store, c)
  BY DEF Expire, processVars, jobVars
<1>3. \A e : Spent(e)' => Spent(e)
  BY <1>2 DEF Spent
<1>4. /\ DOMAIN store' \subseteq DOMAIN store
      /\ \A y \in DOMAIN store : y # c => y \in DOMAIN store'
  BY <1>2, RemoveDomain
<1>5. PICK j : j = Job(c.msg)
  OBVIOUS
<1>6. Excused(j)
  <2> SUFFICES ASSUME ~Excused(j)
               PROVE  FALSE
    OBVIOUS
  <2>1. j \in Jobs /\ OfJob(j, d.name) /\ d \in Mains \cup Deads \cup Holds
    BY <1>1, <1>5, CopyPlace
  <2>2. QueueOf[j].message_ttl # {}
    BY <1>1, <2>1, OwnFacts
  <2> QED
    BY <2>2 DEF Excused
<1>7. Excused(Job(c.msg))'
  BY <1>5, <1>6, Growing, ExcusedStays DEF IInv
<1>8. ASSUME NEW y \in DOMAIN store, ~Spent(y)
      PROVE  Excused(Job(y.msg))' \/ Has(Job(y.msg))'
  <2>1. CASE y = c
    BY <1>7, <2>1
  <2>2. CASE y # c
    <3>1. y \in DOMAIN store' /\ ~Spent(y)'
      BY <1>3, <1>4, <1>8, <2>2
    <3> QED
      BY <3>1, HasNow
  <2> QED
    BY <2>1, <2>2
<1> QED
  BY <1>2, <1>4, <1>8, CopiesMove

\* What somebody else puts on a queue is on it.
LEMMA CopiesScribble ==
  ASSUME NamesApart, IInv, [Next]_vars, NEW j \in Jobs, Scribble(j)
  PROVE  CopyInv' /\ SafeInv'
<1>1. PICK new : new = Copy(QueueOf[j].name, props_for(NewEnvelope(j)))
  OBVIOUS
<1>2. /\ new.queue = QueueOf[j].name /\ new.msg = props_for(NewEnvelope(j)) /\ new.holder = Nobody
      /\ new = [queue |-> new.queue, msg |-> new.msg, holder |-> new.holder]
  BY <1>1 DEF Copy
<1>3. new.msg.env \in AnyEnvelope /\ Job(new.msg) = j
  BY <1>2, NewFacts, MessageFacts DEF Job
<1>4. CopySound(new)'
  BY <1>2, <1>3 DEF CopySound, CopyOk, OfJob
<1>5. UNCHANGED task /\ accepted' = accepted \cup {j} /\ DOMAIN store' = DOMAIN store \cup {new}
  BY <1>1, AddDomain DEF Scribble, Publish, processVars
<1>6. \A e : Spent(e)' => Spent(e)
  BY <1>5 DEF Spent
<1>7. Has(j)'
  <2>1. Has(Job(new.msg))'
    BY <1>2, <1>5, UnheldCounts, HasNow
  <2> QED
    BY <1>3, <2>1
<1>8. ASSUME NEW y \in DOMAIN store, ~Spent(y)
      PROVE  Has(Job(y.msg))'
  <2>1. y \in DOMAIN store' /\ ~Spent(y)'
    BY <1>5, <1>6, <1>8
  <2> QED
    BY <2>1, HasNow
<1> QED
  BY <1>4, <1>5, <1>7, <1>8, CopiesMove

-----------------------------------------------------------------------------
(***************************************************************************)
(* Every step keeps the invariant.                                         *)
(***************************************************************************)

\* Steps of a process that touch neither messages nor tasks, and those that turn it to
\* another task.
LEMMA StepQuiet ==
  ASSUME NamesApart, IInv, [Next]_vars, UNCHANGED <<store, accepted, task>>
  PROVE  TaskInv' /\ TasksKept' /\ CopyInv' /\ SafeInv'
<1>1. \A c : Spent(c)' => Spent(c)
  BY DEF Spent
<1> QED
  BY <1>1, TasksQuiet, CopiesStay

LEMMA StepTurn ==
  ASSUME NamesApart, IInv, [Next]_vars, NEW p \in Procs, UNCHANGED <<store, accepted>>,
         \E t : Goto(p, t) /\ NewTask(p, t) /\ Unspending(t)
  PROVE  TaskInv' /\ TasksKept' /\ CopyInv' /\ SafeInv'
<1>1. PICK t : Goto(p, t) /\ NewTask(p, t) /\ Unspending(t)
  OBVIOUS
<1>2. \A c : Spent(c)' => Spent(c)
  BY <1>1, TurnSpends
<1> QED
  BY <1>1, <1>2, TurnKeeps, CopiesStay

\* Tasks and messages, over all actions.
LEMMA MessagesStep ==
  ASSUME NamesApart, IInv, [Next]_vars
  PROVE  TaskInv' /\ TasksKept' /\ CopyInv' /\ SafeInv'
<1> DEFINE Goal == TaskInv' /\ TasksKept' /\ CopyInv' /\ SafeInv'
<1> USE DEF brokerVars, processVars, jobVars, faultVars
<1>1. CASE UNCHANGED vars
  BY <1>1, StepQuiet DEF vars
<1>2. ASSUME NEW p \in Procs, Process(p)
      PROVE  Goal
  <2>1. CASE Declare(p) \/ DeclareOne(p) \/ Reconnect(p) \/ Redeclare(p)
    <3>1. UNCHANGED <<store, accepted, task>>
      BY <2>1 DEF Declare, DeclareOne, Reconnect, Redeclare
    <3> QED
      BY <3>1, StepQuiet
  <2>2. ASSUME NEW j \in Jobs, Enqueue(p, j)
        PROVE  Goal
    <3>1. UNCHANGED <<store, accepted>>
      BY <2>2 DEF Enqueue
    <3> QED
      BY <2>2, <3>1, EnqueueTask, StepTurn
  <2>3. CASE DeclareHold(p)
    <3>1. UNCHANGED <<store, accepted>>
      BY <2>3 DEF DeclareHold
    <3> QED
      BY <2>3, <3>1, DeclareHoldTask, StepTurn
  <2>4. CASE PublishConfirmed(p)
    <3>1. PICK t : Goto(p, t) /\ NewTask(p, t)
      BY <2>4, PublishTask
    <3> QED
      BY <2>4, <3>1, TurnKeeps, CopiesPublish
  <2>5. CASE Interrupted(p)
    <3>1. UNCHANGED <<store, accepted>> /\ Failed(p)
      BY <2>5 DEF Interrupted
    <3>2. TaskOk(task[p])
      BY <2>5 DEF Interrupted, IInv, TaskInv
    <3> QED
      BY <3>1, <3>2, FailedTask, StepTurn
  <2>6. CASE Receive(p)
    <3>1. PICK c \in DOMAIN store :
            IF Job(c.msg) \in Poison
            THEN GiveUp(p, "malformed", c.msg, malformed_props(c.msg.env, c.queue), TRUE)
            ELSE Goto(p, Task("run", "run", c.msg, c.msg, Main(QueueOf[Job(c.msg)]), TRUE))
      BY <2>6, Zenon DEF Receive
    <3>2. PICK t : Goto(p, t) /\ NewTask(p, t)
      BY <3>1, ReceiveTask
    <3> QED
      BY <2>6, <3>2, TurnKeeps, CopiesReceive
  <2>7. CASE Handled(p)
    <3>1. UNCHANGED <<store, accepted>>
      BY <2>7 DEF Handled
    <3> QED
      BY <2>7, <3>1, HandledTask, StepTurn
  <2>8. CASE Settle(p)
    <3>1. Goto(p, Idle)
      BY <2>8 DEF Settle
    <3> QED
      BY <2>8, <3>1, IdleTask, TurnKeeps, CopiesSettle
  <2>9. CASE Wait(p)
    <3>1. UNCHANGED <<store, accepted>>
      BY <2>9 DEF Wait
    <3> QED
      BY <2>9, <3>1, WaitTask, StepTurn
  <2> QED
    BY <1>2, <2>1, <2>2, <2>3, <2>4, <2>5, <2>6, <2>7, <2>8, <2>9 DEF Process
<1>3. ASSUME NEW p \in Procs, Drop(p)
      PROVE  Goal
  <2>1. task' = Detached({p}, {})
    BY <1>3 DEF Drop
  <2> QED
    BY <1>3, <2>1, DetachedKeeps, CopiesDrop
<1>4. ASSUME NEW p \in Procs, Crash(p)
      PROVE  Goal
  <2>1. Goto(p, Idle)
    BY <1>4 DEF Crash
  <2> QED
    BY <1>4, <2>1, IdleTask, TurnKeeps, CopiesCrash
<1>5. ASSUME NEW j \in Jobs, Scribble(j)
      PROVE  Goal
  BY <1>5, TasksQuiet, CopiesScribble DEF Scribble
<1>6. ASSUME NEW c \in DOMAIN store, Release(c)
      PROVE  Goal
  BY <1>6, TasksQuiet, CopiesRelease DEF Release
<1>7. ASSUME NEW c \in DOMAIN store, Expire(c)
      PROVE  Goal
  BY <1>7, TasksQuiet, CopiesExpire DEF Expire
<1>8. ASSUME NEW d \in queues, DeleteUnused(d)
      PROVE  Goal
  BY <1>8, TasksQuiet, CopiesDelete DEF DeleteUnused
<1>9. ASSUME NEW d \in queues, Meddle(d)
      PROVE  Goal
  <2>1. task' = Detached({}, {d.name})
    BY <1>9 DEF Meddle
  <2> QED
    BY <1>9, <2>1, DetachedKeeps, CopiesMeddle
<1>10. CASE Restart
  <2>1. task' = Detached(Procs, {})
    BY <1>10 DEF Restart
  <2> QED
    BY <1>10, <2>1, DetachedKeeps, CopiesRestart
<1> QED
  BY <1>1, <1>2, <1>3, <1>4, <1>5, <1>6, <1>7, <1>8, <1>9, <1>10 DEF Next, Broker

\* The invariant is kept by every step, and holds at first.
LEMMA InvStep ==
  ASSUME NamesApart, IInv, [Next]_vars
  PROVE  IInv'
<1>1. ReplayInv'
  BY ReplayStep DEF IInv
<1>2. restarts' \in Nat /\ accepted' \subseteq Jobs
  BY Growing DEF IInv
<1>3. QueueInv'
  BY QueueStep
<1>4. TaskInv' /\ TasksKept' /\ CopyInv' /\ SafeInv'
  BY MessagesStep
<1>5. MainInv'
  BY <1>4, ConfigsStep, HoldsStep DEF MainInv
<1> QED
  BY <1>1, <1>2, <1>3, <1>4, <1>5 DEF IInv

LEMMA InvInit ==
  ASSUME Init
  PROVE  IInv
<1>1. ReplayInv
  BY FS_EmptySet DEF Init, ReplayInv, ProcessTypes, RestInv
<1>2. DOMAIN store = {}
  BY DEF Init, EmptyBag, SetToBag
<1>3. \A p \in Procs : task[p].at = "idle"
  BY DEF Init, Idle
<1>4. TaskInv
  BY <1>3 DEF Init, TaskInv
<1>5. QueueInv /\ MainInv
  BY <1>3 DEF Init, QueueInv, MainInv, ConfigsKept, HoldsKept, TasksKept
<1>6. CopyInv /\ SafeInv
  BY <1>2 DEF Init, CopyInv, SafeInv
<1> QED
  BY <1>1, <1>4, <1>5, <1>6 DEF Init, IInv

\* Where queues are called apart, every message is on a queue of its job, and every job
\* a publish returned Ok for has a message that no task is about to ack for a successor.
THEOREM Invariance ==
  ASSUME NamesApart
  PROVE  Spec => []IInv
<1>1. Init => IInv
  BY InvInit
<1>2. IInv /\ [Next]_vars => IInv'
  BY InvStep
<1> QED
  BY <1>1, <1>2, PTL DEF Spec

\* NothingLost for every number of processes, jobs and faults: where queues are called
\* apart, what a publish returned Ok for is on the broker until it is handled, through
\* lost connections, crashes, lost confirms, restarts and hold queues, or has an excuse
\* that NothingLost names.  One of them is its own lateness: published a TTL or more
\* after its hold queue was declared, it may go with the queue.
THEOREM AcceptedKept ==
  ASSUME NamesApart
  PROVE  Spec => []NothingLost
<1>1. IInv => NothingLost
  BY DEF IInv, SafeInv, Has, Excused, Lapsed, NothingLost
<1> QED
  BY <1>1, Invariance, PTL

\* HoldsAgree likewise, where operators put nothing in the place of a hold queue: the
\* broker refuses no hold queue that publish_held declares.
THEOREM HoldsNeverRefused ==
  ASSUME NamesApart, HoldsUnreplaced
  PROVE  Spec => []HoldsAgree
<1>1. IInv => HoldsAgree
  <2> SUFFICES ASSUME IInv, NEW p \in Procs, task[p].at = "declare",
                      NEW d \in queues, d.name = task[p].to.name
               PROVE  d = task[p].to
    BY DEF HoldsAgree, Agrees
  <2>1. TaskOk(task[p])
    BY DEF IInv, TaskInv
  <2> DEFINE c == QueueOf[Job(task[p].msg)]
  <2>2. c \in Known
    BY <2>1, JobsKnown DEF TaskOk, Job, AnyEnvelope
  <2>3. PICK q \in Procs, ttl \in Ttls : task[p].to = HoldQueue(c, Options[q], ttl)
    BY <2>1 DEF TaskOk, HoldsFor
  <2> HIDE DEF c
  <2>4. d.name = HoldName(c, q, ttl)
    BY <2>3, HoldFacts
  <2>5. CASE d \in Mains \cup Deads \cup Holds
    BY <2>2, <2>3, <2>4, <2>5, HoldByName
  <2>6. ~\E hand \in Meddling : d \in hand.by
    BY <2>2, <2>4 DEF HoldsUnreplaced
  <2> QED
    BY <2>5, <2>6 DEF IInv, QueueInv
<1> QED
  BY <1>1, Invariance, PTL
-----------------------------------------------------------------------------
(***************************************************************************)
(* Dead letters.  A copy on a dead-letter queue is held by nobody, so      *)
(* nothing but an operator ever makes it fewer.                            *)
(***************************************************************************)
DeadBag(B) ==
  \A c \in DOMAIN B : IsDead(c.queue) => c.holder = Nobody /\ B[c] \in Nat \ {0}

\* Of no dead letter are there fewer copies in B than in A, unless its queue is in names.
NoFewer(A, B, names) ==
  \A c \in DOMAIN A : IsDead(c.queue) /\ c.queue \notin names => c \in DOMAIN B /\ B[c] >= A[c]

DeadInv == IInv /\ DeadBag(store)

\* Adding up over one copy gives its count: both sides satisfy the recursion of the
\* fold over the subsets of a singleton.
LEMMA TotalOfOne ==
  ASSUME NEW f, NEW x, f[x] \in Nat
  PROVE  Total(f, {x}) = f[x]
<1> DEFINE D == SUBSET {x}
           Pick(s) == CHOOSE y \in s : TRUE
           Rec(g) == [s \in D |-> IF s = {} THEN 0 ELSE f[Pick(s)] + g[s \ {Pick(s)}]]
           sum == CHOOSE g : g = Rec(g)
           w == [s \in D |-> IF s = {} THEN 0 ELSE f[x]]
<1>1. Total(f, {x}) = sum[{x}]
  BY DEF Total, FoldFunctionOnSet, MapThenFoldSet
<1>2. Pick({x}) = x
  OBVIOUS
<1>3. w = Rec(w)
  <2>1. D = {{}, {x}}
    OBVIOUS
  <2>2. \A s \in D : s # {} => s = {x} /\ Pick(s) = x /\ s \ {Pick(s)} = {}
    BY <1>2, <2>1
  <2> HIDE DEF Pick
  <2> QED
    BY <2>1, <2>2
<1>4. sum = Rec(sum)
  <2> HIDE DEF Rec
  <2> QED
    BY <1>3
<1> HIDE DEF Pick, sum
<1>5. sum[{}] = 0 /\ sum[{x}] = f[Pick({x})] + sum[{x} \ {Pick({x})}]
  BY <1>4
<1> QED
  BY <1>1, <1>2, <1>5

\* No queue that anybody declares or enqueues for is a dead-letter queue.
LEMMA DeadIsNoMain ==
  ASSUME NamesApart, NEW c \in Known
  PROVE  ~IsDead(c.name)
<1> SUFFICES ASSUME NEW p \in Procs, NEW j \in Jobs, c.name = DeadName(QueueOf[j], p)
             PROVE  FALSE
  BY DEF IsDead, DeadName
<1> QED
  BY DeadApart, JobsKnown

\* Nothing on a dead-letter queue expires or goes on, and a restart keeps the queue.
LEMMA DeadQueue ==
  ASSUME NamesApart, QueueInv, NEW d \in queues, IsDead(d.name), d.name \notin meddled
  PROVE  /\ d.options.durable = TRUE
         /\ d.args.message_ttl = Absent /\ d.args.dead_letter_to = ""
         /\ d.args.expires = Absent
<1>1. PICK p \in Procs, j \in Jobs : d.name = DeadName(QueueOf[j], p)
  BY DEF IsDead, DeadName
<1>2. d \in Mains \cup Deads \cup Holds
  BY DEF QueueInv
<1>3. d \in Deads
  BY <1>1, <1>2, DeadByName, JobsKnown
<1>4. PICK b \in Known, q \in Procs : d = Dead(b, Options[q])
  BY <1>3 DEF Deads
<1> QED
  BY <1>4, DeadFacts

\* What a bag's operations do to dead letters.
LEMMA DeadAdd ==
  ASSUME NEW B, NEW y, NEW names, DeadBag(B), IsDead(y.queue) => y.holder = Nobody
  PROVE  DeadBag(BagAdd(B, y)) /\ NoFewer(B, BagAdd(B, y), names)
<1> DEFINE A == BagAdd(B, y)
<1>1. /\ DOMAIN A = DOMAIN B \cup {y}
      /\ \A c \in DOMAIN B : A[c] = IF c = y THEN B[c] + 1 ELSE B[c]
      /\ y \notin DOMAIN B => A[y] = 1
  BY DEF BagAdd
<1> HIDE DEF A
<1>2. \A c \in DOMAIN B : IsDead(c.queue) => B[c] \in Nat \ {0}
  BY DEF DeadBag
<1>3. \A c \in DOMAIN B : IsDead(c.queue) => A[c] \in Nat \ {0} /\ A[c] >= B[c]
  BY <1>1, <1>2
<1>4. DeadBag(A)
  BY <1>1, <1>3 DEF DeadBag
<1>5. NoFewer(B, A, names)
  BY <1>1, <1>3 DEF NoFewer
<1> QED
  BY <1>4, <1>5 DEF A

LEMMA DeadRemove ==
  ASSUME NEW B, NEW y, NEW names, DeadBag(B), IsDead(y.queue) => y.queue \in names
  PROVE  DeadBag(BagRemove(B, y)) /\ NoFewer(B, BagRemove(B, y), names)
<1> DEFINE A == BagRemove(B, y)
<1>1. /\ DOMAIN A \subseteq DOMAIN B
      /\ \A c \in DOMAIN B : c # y => c \in DOMAIN A /\ A[c] = B[c]
      /\ y \in DOMAIN A => B[y] # 1 /\ A[y] = B[y] - 1
  BY DEF BagRemove
<1> HIDE DEF A
<1>2. \A c \in DOMAIN B : IsDead(c.queue) => B[c] \in Nat \ {0} /\ c.holder = Nobody
  BY DEF DeadBag
<1>3. ASSUME NEW c \in DOMAIN A, IsDead(c.queue)
      PROVE  c.holder = Nobody /\ A[c] \in Nat \ {0}
  <2>1. c \in DOMAIN B /\ B[c] \in Nat \ {0} /\ c.holder = Nobody
    BY <1>1, <1>2, <1>3
  <2>2. CASE c = y
    BY <1>1, <1>3, <2>1, <2>2
  <2>3. CASE c # y
    BY <1>1, <2>1, <2>3
  <2> QED
    BY <2>2, <2>3
<1>4. ASSUME NEW c \in DOMAIN B, IsDead(c.queue), c.queue \notin names
      PROVE  c \in DOMAIN A /\ A[c] >= B[c]
  <2>1. c # y
    BY <1>4
  <2>2. c \in DOMAIN A /\ A[c] = B[c]
    BY <1>1, <1>4, <2>1
  <2> QED
    BY <1>2, <1>4, <2>2
<1> QED
  BY <1>3, <1>4 DEF A, DeadBag, NoFewer

LEMMA DeadMove ==
  ASSUME NEW B, NEW y, NEW z, NEW names, DeadBag(B),
         IsDead(y.queue) => y.queue \in names, IsDead(z.queue) => z.holder = Nobody
  PROVE  /\ DeadBag(BagAdd(BagRemove(B, y), z))
         /\ NoFewer(B, BagAdd(BagRemove(B, y), z), names)
<1> DEFINE A == BagRemove(B, y)
           C == BagAdd(A, z)
<1>1. DeadBag(A) /\ NoFewer(B, A, names)
  BY DeadRemove
<1> HIDE DEF A
<1>2. DeadBag(C) /\ NoFewer(A, C, names)
  BY <1>1, DeadAdd
<1> HIDE DEF C
<1>3. ASSUME NEW c \in DOMAIN B, IsDead(c.queue), c.queue \notin names
      PROVE  c \in DOMAIN C /\ C[c] >= B[c]
  <2>1. c \in DOMAIN A /\ A[c] >= B[c] /\ c \in DOMAIN C /\ C[c] >= A[c]
    BY <1>1, <1>2, <1>3 DEF NoFewer
  <2>2. A[c] \in Nat /\ B[c] \in Nat /\ C[c] \in Nat
    BY <1>1, <1>2, <1>3, <2>1 DEF DeadBag
  <2> QED
    BY <2>1, <2>2
<1> QED
  BY <1>2, <1>3 DEF A, C, NoFewer

\* A lost connection makes no difference to dead letters, and queues that are gone only
\* to their own.
LEMMA DeadWithout ==
  ASSUME IInv, DeadBag(store), NEW names, NEW gone \in SUBSET Procs, NEW hands,
         \A name \in names : IsDead(name) => name \in hands,
         store' = Without(names, gone)
  PROVE  DeadBag(store') /\ NoFewer(store, store', hands)
<1>1. DOMAIN store' = Left(names, gone)
  BY WithoutDomain DEF IInv
<1>2. ASSUME NEW e \in DOMAIN store, IsDead(e.queue)
      PROVE  Ready(e, gone) = e /\ Back(e, gone) = e /\ store[e] \in Nat \ {0} /\ e.holder = Nobody
  <2>1. e.holder = Nobody /\ store[e] \in Nat \ {0}
    BY <1>2 DEF DeadBag
  <2>2. e.holder \notin gone
    BY <2>1, NobodyAssumption
  <2> QED
    BY <2>1, <2>2 DEF Ready, Back
<1>3. ASSUME NEW e \in DOMAIN store
      PROVE  Back(e, gone).queue = e.queue /\ Ready(e, gone) = Back(e, gone)
  <2>1. CopyOk(e)
    BY <1>3 DEF IInv, CopyInv, CopySound
  <2>2. e = [queue |-> e.queue, msg |-> e.msg, holder |-> e.holder]
    BY <2>1 DEF CopyOk
  <2>3. [e EXCEPT !.holder = Nobody] = [queue |-> e.queue, msg |-> e.msg, holder |-> Nobody]
    BY <2>2
  <2> QED
    BY <2>1, <2>3, BackFacts DEF Ready, Back
<1> DEFINE left == {e \in DOMAIN store : e.queue \notin names}
<1>4. ASSUME NEW c \in DOMAIN store, IsDead(c.queue), c.queue \notin names
      PROVE  c \in DOMAIN store' /\ store'[c] = store[c]
  <2>1. c \in left /\ Ready(c, gone) = c
    BY <1>2, <1>4
  <2>2. c \in DOMAIN store'
    BY <1>1, <1>2, <1>4 DEF Left
  <2>3. store'[c] = Total(store, {e \in left : Ready(e, gone) = c})
    BY <2>1 DEF Without
  <2>4. ASSUME NEW e \in left, Ready(e, gone) = c
        PROVE  e = c
    <3>1. e.queue = c.queue
      BY <1>3, <2>4
    <3> QED
      BY <1>2, <1>4, <2>4, <3>1
  <2>5. {e \in left : Ready(e, gone) = c} = {c}
    BY <2>1, <2>4
  <2>6. store[c] \in Nat
    BY <1>2, <1>4
  <2> QED
    BY <2>2, <2>3, <2>5, <2>6, TotalOfOne
<1>5. ASSUME NEW c \in DOMAIN store', IsDead(c.queue)
      PROVE  c.holder = Nobody /\ store'[c] \in Nat \ {0}
  <2>1. PICK e \in left : c = Back(e, gone)
    BY <1>1 DEF Left
  <2>2. e.queue = c.queue
    BY <1>3, <2>1
  <2>3. e = c /\ c.holder = Nobody /\ store[c] \in Nat \ {0}
    BY <1>2, <1>5, <2>1, <2>2
  <2> QED
    BY <1>4, <1>5, <2>1, <2>3
<1>6. ASSUME NEW c \in DOMAIN store, IsDead(c.queue), c.queue \notin hands
      PROVE  c \in DOMAIN store' /\ store'[c] >= store[c]
  <2>1. c.queue \notin names
    BY <1>6
  <2>2. store[c] \in Nat
    BY <1>2, <1>6
  <2> QED
    BY <1>4, <1>6, <2>1, <2>2
<1> QED
  BY <1>5, <1>6 DEF DeadBag, NoFewer

\* Dead letters, over all actions.
LEMMA DeadStep ==
  ASSUME NamesApart, DeadInv, [Next]_vars
  PROVE  DeadBag(store') /\ NoFewer(store, store', meddled')
<1> DEFINE Goal == DeadBag(store') /\ NoFewer(store, store', meddled')
<1> USE DEF brokerVars, processVars, jobVars, faultVars
<1>0. /\ IInv /\ DeadBag(store) /\ QueueInv
      /\ configs \in [Procs -> SUBSET Known]
  BY DEF DeadInv, IInv, ReplayInv, ProcessTypes
<1>1. ASSUME UNCHANGED store
      PROVE  Goal
  <2>1. \A c \in DOMAIN store : IsDead(c.queue) => store[c] \in Nat
    BY <1>0 DEF DeadBag
  <2>2. \A c \in DOMAIN store : IsDead(c.queue) => store[c] >= store[c]
    BY <2>1
  <2>3. NoFewer(store, store, meddled')
    BY <2>2 DEF NoFewer
  <2> QED
    BY <1>0, <1>1, <2>3
<1>2. ASSUME NEW p \in Procs, Process(p)
      PROVE  Goal
  <2>1. CASE Declare(p) \/ DeclareOne(p) \/ Reconnect(p) \/ Redeclare(p)
    BY <1>1, <2>1, Zenon DEF Declare, DeclareOne, Reconnect, Redeclare
  <2>2. CASE \/ \E j \in Jobs : Enqueue(p, j)
             \/ DeclareHold(p) \/ Wait(p) \/ Interrupted(p) \/ Handled(p)
    BY <1>1, <2>2, Zenon DEF Enqueue, DeclareHold, Wait, Interrupted, Handled
  <2>3. CASE PublishConfirmed(p)
    <3>1. \/ UNCHANGED store
          \/ store' = BagAdd(store, Copy(task[p].to.name, task[p].sends))
      BY <2>3, Zenon DEF PublishConfirmed, Store, Publish
    <3>2. Copy(task[p].to.name, task[p].sends).holder = Nobody
      BY DEF Copy
    <3> QED
      BY <1>0, <1>1, <3>1, <3>2, DeadAdd
  <2>4. CASE Receive(p)
    <3>1. PICK c \in DOMAIN store : /\ config_for(p, c.queue) # {}
                                    /\ store' = BagAdd(BagRemove(store, c), [c EXCEPT !.holder = p])
      BY <2>4, Zenon DEF Receive
    <3>2. ~IsDead(c.queue)
      <4>1. PICK b \in configs[p] : b.name = c.queue
        BY <3>1 DEF config_for
      <4> QED
        BY <1>0, <4>1, DeadIsNoMain
    <3>3. [c EXCEPT !.holder = p].queue = c.queue
      <4>1. c = [queue |-> c.queue, msg |-> c.msg, holder |-> c.holder]
        BY <1>0 DEF IInv, CopyInv, CopySound, CopyOk
      <4> QED
        BY <4>1
    <3> QED
      BY <1>0, <3>1, <3>2, <3>3, DeadMove
  <2>5. CASE Settle(p)
    <3> DEFINE msg == task[p].msg
               held == [queue |-> Queue(msg), msg |-> msg, holder |-> p]
    <3>1. UNCHANGED store \/ store' = BagRemove(store, held)
      BY <2>5, Zenon DEF Settle
    <3>2. ~IsDead(held.queue)
      <4>1. TaskOk(task[p])
        BY <1>0, <2>5 DEF Settle, IInv, TaskInv
      <4>2. Job(msg) \in Jobs
        BY <4>1 DEF TaskOk, Job, AnyEnvelope
      <4>3. QueueOf[Job(msg)] \in Known
        BY <4>2, JobsKnown
      <4> QED
        BY <4>3, DeadIsNoMain DEF Queue
    <3> HIDE DEF held
    <3> QED
      BY <1>0, <1>1, <3>1, <3>2, DeadRemove
  <2> QED
    BY <1>2, <2>1, <2>2, <2>3, <2>4, <2>5 DEF Process
<1>3. ASSUME NEW p \in Procs, Drop(p) \/ Crash(p)
      PROVE  Goal
  <2>1. store' = Without({}, {p})
    BY <1>3 DEF Drop, Crash
  <2> QED
    BY <1>0, <2>1, DeadWithout
<1>4. ASSUME NEW j \in Jobs, Scribble(j)
      PROVE  Goal
  <2> DEFINE new == Copy(QueueOf[j].name, props_for(NewEnvelope(j)))
  <2>1. store' = BagAdd(store, new)
    BY <1>4, Zenon DEF Scribble, Publish
  <2>2. new.holder = Nobody
    BY DEF Copy
  <2> HIDE DEF new
  <2> QED
    BY <1>0, <2>1, <2>2, DeadAdd
<1>5. ASSUME NEW c \in DOMAIN store, Release(c)
      PROVE  Goal
  <2>1. PICK d \in queues :
          /\ d.name = c.queue /\ d.args.dead_letter_to # ""
          /\ \/ store' = BagAdd(BagRemove(store, c), Copy(d.args.dead_letter_to, c.msg))
             \/ store' = BagRemove(store, c)
    BY <1>5, Zenon DEF Release
  <2>2. UNCHANGED meddled
    BY <1>5 DEF Release
  <2>3. IsDead(c.queue) => c.queue \in meddled'
    BY <1>0, <2>1, <2>2, DeadQueue
  <2>4. Copy(d.args.dead_letter_to, c.msg).holder = Nobody
    BY DEF Copy
  <2> QED
    BY <1>0, <2>1, <2>3, <2>4, DeadMove, DeadRemove
<1>6. ASSUME NEW c \in DOMAIN store, Expire(c)
      PROVE  Goal
  <2>1. PICK d \in queues : d.name = c.queue /\ d.args.message_ttl # Absent
    BY <1>6, Zenon DEF Expire
  <2>2. UNCHANGED meddled /\ store' = BagRemove(store, c)
    BY <1>6 DEF Expire
  <2>3. IsDead(c.queue) => c.queue \in meddled'
    BY <1>0, <2>1, <2>2, DeadQueue
  <2> QED
    BY <1>0, <2>2, <2>3, DeadRemove
<1>7. ASSUME NEW d \in queues, DeleteUnused(d) \/ Meddle(d)
      PROVE  Goal
  <2>1. CASE DeleteUnused(d)
    <3>1. store' = Without({d.name}, {}) /\ d.args.expires # Absent /\ UNCHANGED meddled
      BY <2>1 DEF DeleteUnused
    <3>2. IsDead(d.name) => d.name \in meddled'
      BY <1>0, <3>1, DeadQueue
    <3> QED
      BY <1>0, <3>1, <3>2, DeadWithout
  <2>2. CASE Meddle(d)
    <3>1. store' = Without({d.name}, {}) /\ d.name \in meddled'
      BY <2>2 DEF Meddle
    <3> QED
      BY <1>0, <3>1, DeadWithout
  <2> QED
    BY <1>7, <2>1, <2>2
<1>8. CASE Restart
  <2> DEFINE names == {d.name : d \in {e \in queues : ~e.options.durable}}
  <2>1. store' = Without(names, Procs) /\ UNCHANGED meddled
    BY <1>8 DEF Restart
  <2>2. \A name \in names : IsDead(name) => name \in meddled'
    BY <1>0, <2>1, DeadQueue
  <2> HIDE DEF names
  <2> QED
    BY <1>0, <2>1, <2>2, DeadWithout
<1>9. CASE UNCHANGED vars
  BY <1>1, <1>9 DEF vars
<1> QED
  BY <1>2, <1>3, <1>4, <1>5, <1>6, <1>7, <1>8, <1>9 DEF Next, Broker

\* DeadLettersTerminal for every number of processes, jobs and faults: where queues are
\* called apart, no step makes the copies of a dead letter fewer, be it an expiry, a
\* consumer, a lost connection or a restart, unless an operator had a hand on its queue.
THEOREM DeadLettersStay ==
  ASSUME NamesApart
  PROVE  Spec => DeadLettersTerminal
<1> DEFINE Keeps == \A c \in DOMAIN store :
                      Copies(c, store') < Copies(c, store) /\ IsDead(c.queue) => c.queue \in meddled'
<1>1. Init => DeadInv
  <2>1. Init => DOMAIN store = {}
    BY DEF Init, EmptyBag, SetToBag
  <2> QED
    BY <2>1, InvInit DEF DeadInv, DeadBag
<1>2. DeadInv /\ [Next]_vars => DeadInv'
  BY DeadStep, InvStep DEF DeadInv
<1>3. DeadInv /\ [Next]_vars => [Keeps]_vars
  <2> SUFFICES ASSUME DeadInv, [Next]_vars, NEW c \in DOMAIN store, IsDead(c.queue),
                      c.queue \notin meddled'
               PROVE  ~(Copies(c, store') < Copies(c, store))
    BY DEF Keeps
  <2>1. c \in DOMAIN store' /\ store'[c] >= store[c]
    BY DeadStep DEF NoFewer
  <2>2. store[c] \in Nat /\ store'[c] \in Nat
    BY <2>1, DeadStep DEF DeadInv, DeadBag
  <2> QED
    BY <2>1, <2>2 DEF Copies
<1>4. Spec => [][Keeps]_vars
  <2> HIDE DEF Keeps
  <2> QED
    BY <1>1, <1>2, <1>3, PTL DEF Spec
<1> QED
  BY <1>4 DEF DeadLettersTerminal
=============================================================================
