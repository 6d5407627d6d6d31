----------------------------- MODULE AtLeastOnce -----------------------------
(***************************************************************************)
(* What queuey promises about a job, without its machinery: from the       *)
(* moment a job is accepted somebody owes its execution until it has       *)
(* succeeded or has been dead-lettered, and nothing is dead-lettered       *)
(* behind the application's back when a dead-letter hook is registered.    *)
(* Jobs may be run, and finished, more than once.                          *)
(***************************************************************************)
CONSTANTS
  Jobs,
  HasHook     \* is a DeadLetterHook registered?

VARIABLES
  owed,       \* jobs somebody will still run
  succeeded,  \* jobs that were acked as done
  dead,       \* jobs that were dead-lettered
  notified    \* jobs whose dead-letter hook ran

vars == <<owed, succeeded, dead, notified>>

Init ==
  /\ owed = {}
  /\ succeeded = {}
  /\ dead = {}
  /\ notified = {}

Accept(j) ==
  /\ j \notin owed \cup succeeded \cup dead
  /\ owed' = owed \cup {j}
  /\ UNCHANGED <<succeeded, dead, notified>>

\* A finished job may still be owed: a duplicate of it is around.
Owed(j) == owed' \in {owed, owed \ {j}}

\* A delivery was given out twice: the job may be finished and owed again.
Duplicate(j) ==
  /\ j \in owed \cup succeeded \cup dead
  /\ owed' = owed \cup {j}
  /\ UNCHANGED <<succeeded, dead, notified>>

Succeed(j) ==
  /\ j \in owed
  /\ succeeded' = succeeded \cup {j}
  /\ Owed(j)
  /\ UNCHANGED <<dead, notified>>

\* The hook may also run for a duplicate of a job that is already finished.
Notify(j) ==
  /\ j \in owed \cup succeeded \cup dead
  /\ notified' = notified \cup {j}
  /\ UNCHANGED <<owed, succeeded, dead>>

DeadLetter(j) ==
  /\ j \in owed \cup succeeded \cup dead
  /\ HasHook => j \in notified
  /\ dead' = dead \cup {j}
  /\ Owed(j)
  /\ UNCHANGED <<succeeded, notified>>

Next ==
  \E j \in Jobs : Accept(j) \/ Succeed(j) \/ Duplicate(j) \/ Notify(j) \/ DeadLetter(j)

Spec == Init /\ [][Next]_vars
=============================================================================
