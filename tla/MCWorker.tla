------------------------------- MODULE MCWorker -------------------------------
(* Worker, instantiated for TLC: one queue or one queue per job. *)
EXTENDS Worker, TLC

CONSTANTS j1, j2, qa, qb

MCQueueOf == [j \in Jobs |-> IF j = j1 THEN qa ELSE qb]
MCSameQueue == [j \in Jobs |-> qa]
Symmetry == Permutations(Jobs)
=============================================================================
